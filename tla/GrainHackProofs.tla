---------------------------- MODULE GrainHackProofs ----------------------------
(***************************************************************************)
(* Proofs about GrainHack, for every set of winners, statements, approvals *)
(* and concurrent requests, whatever the statements list, and for every    *)
(* ceiling of the event.                                                   *)
(***************************************************************************)
EXTENDS GrainHack, FiniteSetTheorems, TLAPS

USE GrainHackConstants, NoTermsAssumption
USE DEF agentVars, chainVars, signerVars, midway

Statuses == Unpaid \cup InFlight \cup {"none", "paid", "failed"}

\* Terms are records: what their fields are.
LEMMA FieldsOfTerms ==
  ASSUME NEW t \in Terms
  PROVE  /\ t.winner \in Winner /\ t.id \in Statement /\ t.statement \in Statement
         /\ t.amount \in Nat /\ t.recipient \in Wallet \cup {NoWallet} /\ t # NoTerms
  BY DEF Terms

\* A row is one: what an update of its status leaves.
LEMMA StatusOfRow ==
  ASSUME NEW r \in Row, NEW status \in Statuses
  PROVE  /\ [r EXCEPT !.status = status] \in Row
         /\ [r EXCEPT !.status = status].status = status
         /\ [r EXCEPT !.status = status].id = r.id
         /\ [r EXCEPT !.status = status].statement = r.statement
  BY DEF Row, Statuses, Unpaid, InFlight

-----------------------------------------------------------------------------
(* Updates of a row that several handlers share.                           *)

\* An update of a status keeps every row a row, and touches only the row of the
\* payout the terms are for.
Updates(t, status) ==
  /\ row' \in [Winner -> Row]
  /\ \A w \in Winner :
       \/ row'[w] = row[w]
       \/ w = t.winner /\ HasRow(t) /\ row'[w].status = status /\ row'[w].id = row[w].id /\ row'[w].statement = row[w].statement

LEMMA SetStatusUpdates ==
  ASSUME row \in [Winner -> Row], NEW t \in Terms, NEW status \in Statuses, SetStatus(t, status)
  PROVE  Updates(t, status)
<1>1. t.winner \in Winner
  BY FieldsOfTerms
<1>2. CASE UNCHANGED row
  BY <1>2 DEF Updates
<1>3. CASE HasRow(t) /\ row' = [row EXCEPT ![t.winner].status = status]
  <2>1. row[t.winner] \in Row /\ row'[t.winner] = [row[t.winner] EXCEPT !.status = status]
    BY <1>1, <1>3
  <2> QED BY <1>1, <1>3, <2>1, StatusOfRow DEF Updates
<1> QED BY <1>2, <1>3 DEF SetStatus

\* markPaid does the same, and adds to the ledger only the payout of the terms.
LEMMA MarkPaidUpdates ==
  ASSUME row \in [Winner -> Row], NEW t \in Terms, MarkPaid(t)
  PROVE  /\ Updates(t, "paid")
         /\ ledger' \subseteq ledger \cup {[winner |-> t.winner, id |-> t.id, amount |-> t.amount]}
<1>1. CASE HasRow(t) /\ row[t.winner].status \in InFlight
  <2>1. SetStatus(t, "paid")
    BY <1>1 DEF MarkPaid
  <2>2. "paid" \in Statuses
    BY DEF Statuses
  <2> QED BY <1>1, <2>1, <2>2, SetStatusUpdates DEF MarkPaid
<1>2. CASE ~(HasRow(t) /\ row[t.winner].status \in InFlight)
  BY <1>2 DEF MarkPaid, Updates
<1> QED BY <1>1, <1>2
-----------------------------------------------------------------------------
(* Types.                                                                  *)

\* A row that import writes is one.
LEMMA ListedIsRow ==
  ASSUME TypeOK, NEW s \in Statement, NEW w \in Winner
  PROVE  /\ Listed(s, w) \in Row
         /\ Listed(s, w).status \in {"held_kyc", "awaiting_wallet", "awaiting_approval"}
         /\ Listed(s, w).id = (IF row[w] = NoRow THEN s ELSE row[w].id)
         /\ Listed(s, w).statement = s
<1>1. Lines[s][w].amount \in Nat /\ row[w] \in Row /\ link[w] \in Wallet \cup {NoWallet}
  BY DEF TypeOK
<1>2. row[w].id \in Statement \cup {NoStatement} /\ row[w].recipient \in Wallet \cup {NoWallet}
  BY <1>1 DEF Row
<1> QED BY <1>1, <1>2 DEF Listed, Row, Unpaid, InFlight

\* What the updates of a request give, of the agent's side and of the signer's.
LEMMA CallUpdates ==
  ASSUME NEW f \in [Call -> CallState], NEW c \in Call,
         NEW at \in {"idle", "read", "waiting", "answered"}, NEW answer \in {"none", "ok", "refused", "recorded", "unknown"}
  PROVE  /\ [f EXCEPT ![c] = Idle] \in [Call -> CallState]
         /\ [f EXCEPT ![c].at = at] \in [Call -> CallState]
         /\ [f EXCEPT ![c].at = at, ![c].answer = answer] \in [Call -> CallState]
<1>1. Idle \in CallState
  BY DEF Idle, CallState
<1>2. f[c] \in CallState
  OBVIOUS
<1>3. /\ [f[c] EXCEPT !.at = at] \in CallState
      /\ [f[c] EXCEPT !.at = at, !.answer = answer] \in CallState
  BY <1>2 DEF CallState
<1>4. [f EXCEPT ![c].at = at] = [f EXCEPT ![c] = [f[c] EXCEPT !.at = at]]
  OBVIOUS
<1>5. [f EXCEPT ![c].at = at, ![c].answer = answer] = [f EXCEPT ![c] = [f[c] EXCEPT !.at = at, !.answer = answer]]
  OBVIOUS
<1> QED BY <1>1, <1>3, <1>4, <1>5

LEMMA WorkUpdates ==
  ASSUME NEW f \in [Call -> WorkState], NEW c \in Call,
         NEW at \in {"idle", "asked", "checked", "sent", "confirming"}
  PROVE  /\ [f EXCEPT ![c] = Idle] \in [Call -> WorkState]
         /\ [f EXCEPT ![c].at = at] \in [Call -> WorkState]
         /\ \A a \in Approval : [f EXCEPT ![c] = [Idle EXCEPT !.at = at, !.approval = a]] \in [Call -> WorkState]
         /\ [d \in Call |-> Idle] \in [Call -> WorkState]
<1>1. Idle \in WorkState
  BY DEF Idle, WorkState
<1>2. f[c] \in WorkState
  OBVIOUS
<1>3. [f[c] EXCEPT !.at = at] \in WorkState
  BY <1>2 DEF WorkState
<1>4. [f EXCEPT ![c].at = at] = [f EXCEPT ![c] = [f[c] EXCEPT !.at = at]]
  OBVIOUS
<1>5. \A a \in Approval : [Idle EXCEPT !.at = at, !.approval = a] \in WorkState
  BY DEF Idle, WorkState
<1> QED BY <1>1, <1>3, <1>4, <1>5

LEMMA JournalUpdates ==
  ASSUME NEW f \in [Winner -> JournalRow], NEW w \in Winner,
         NEW status \in {"none", "reserved", "sent", "unknown", "confirmed", "failed_unsent"}
  PROVE  [f EXCEPT ![w].status = status] \in [Winner -> JournalRow]
<1>1. f[w] \in JournalRow
  OBVIOUS
<1>2. [f[w] EXCEPT !.status = status] \in JournalRow
  BY <1>1 DEF JournalRow
<1>3. [f EXCEPT ![w].status = status] = [f EXCEPT ![w] = [f[w] EXCEPT !.status = status]]
  OBVIOUS
<1> QED BY <1>2, <1>3

\* An answer of the signer, and a step of its handler.
LEMMA ReplyTypes ==
  ASSUME call \in [Call -> CallState], work \in [Call -> WorkState], NEW c \in Call,
         NEW answer \in {"ok", "refused", "recorded", "unknown"}, Reply(c, answer)
  PROVE  call' \in [Call -> CallState] /\ work' \in [Call -> WorkState]
<1>1. work' \in [Call -> WorkState]
  <2>1. [work EXCEPT ![c] = Idle] \in [Call -> WorkState]
    BY WorkUpdates
  <2> QED BY <2>1 DEF Reply
<1>2. call' \in [Call -> CallState]
  <2>1. [call EXCEPT ![c].at = "answered", ![c].answer = answer] \in [Call -> CallState]
    BY CallUpdates
  <2> QED BY <2>1 DEF Reply
<1> QED BY <1>1, <1>2

LEMMA ProceedTypes ==
  ASSUME call \in [Call -> CallState], work \in [Call -> WorkState], NEW c \in Call,
         NEW place \in {"checked", "sent", "confirming"}, Proceed(c, place)
  PROVE  call' \in [Call -> CallState] /\ work' \in [Call -> WorkState]
<1>1. [work EXCEPT ![c].at = place] \in [Call -> WorkState]
  BY WorkUpdates
<1> QED BY <1>1 DEF Proceed

LEMMA MarkPaidTypes ==
  ASSUME row \in [Winner -> Row], ledger \subseteq Entry, NEW t \in Terms, MarkPaid(t)
  PROVE  row' \in [Winner -> Row] /\ ledger' \subseteq Entry
<1>1. row' \in [Winner -> Row] /\ ledger' \subseteq ledger \cup {[winner |-> t.winner, id |-> t.id, amount |-> t.amount]}
  BY MarkPaidUpdates DEF Updates
<1>2. [winner |-> t.winner, id |-> t.id, amount |-> t.amount] \in Entry
  BY FieldsOfTerms DEF Entry
<1> QED BY <1>1, <1>2

\* Every handler assigns only values of the declared sets.
LEMMA TypeStep == Inductive /\ [Next]_vars => TypeOK'
<1> SUFFICES ASSUME Inductive, [Next]_vars PROVE TypeOK'
  OBVIOUS
<1>0. TypeOK /\ JournalIsTrue /\ RecordsFollow /\ RequestShape
  BY DEF Inductive
<1>a. NoRow \in Row /\ NoRow.status = "none"
  BY DEF NoRow, Row, Unpaid, InFlight
<1>b. /\ row \in [Winner -> Row] /\ ledger \subseteq Entry /\ call \in [Call -> CallState]
      /\ work \in [Call -> WorkState] /\ journal \in [Winner -> JournalRow]
  BY <1>0 DEF TypeOK
<1>1. ASSUME NEW c \in Call, Agent(c) PROVE TypeOK'
  <2>1. CASE Claim(c)
    <3>1. Approved(c) \in Terms /\ call[c].approval \in Approval
      BY <1>0, <2>1 DEF Claim, RequestShape, ShapeOf, Approved
    <3>2. row' \in [Winner -> Row]
      <4>1. "submitted" \in Statuses
        BY DEF Statuses, InFlight
      <4> QED BY <1>b, <2>1, <3>1, <4>1, SetStatusUpdates DEF Claim, Updates
    <3>3. call' \in [Call -> CallState]
      <4>1. [call EXCEPT ![c].at = "waiting"] \in [Call -> CallState] /\ [call EXCEPT ![c] = Idle] \in [Call -> CallState]
        BY <1>b, CallUpdates
      <4> QED BY <2>1, <4>1 DEF Claim
    <3>4. work' \in [Call -> WorkState]
      <4>1. [work EXCEPT ![c] = [Idle EXCEPT !.at = "asked", !.approval = call[c].approval]] \in [Call -> WorkState]
        BY <1>b, <3>1, WorkUpdates
      <4> QED BY <1>b, <2>1, <4>1 DEF Claim
    <3> QED BY <1>0, <2>1, <3>2, <3>3, <3>4 DEF Claim, TypeOK
  <2>2. CASE Answered(c)
    <3>1. Approved(c) \in Terms
      BY <1>0, <2>2 DEF Answered, RequestShape, ShapeOf, Approved
    <3>2. row' \in [Winner -> Row] /\ ledger' \subseteq Entry
      <4>1. CASE MarkPaid(Approved(c))
        BY <1>b, <3>1, <4>1, MarkPaidTypes
      <4>2. ASSUME NEW status \in {"awaiting_approval", "unknown"}, SetStatus(Approved(c), status), UNCHANGED ledger
            PROVE  row' \in [Winner -> Row] /\ ledger' \subseteq Entry
        <5>1. status \in Statuses
          BY DEF Statuses, InFlight, Unpaid
        <5> QED BY <1>b, <3>1, <4>2, <5>1, SetStatusUpdates DEF Updates
      <4> QED BY <2>2, <4>1, <4>2 DEF Answered
    <3>3. call' \in [Call -> CallState]
      <4>1. [call EXCEPT ![c] = Idle] \in [Call -> CallState]
        BY <1>b, CallUpdates
      <4> QED BY <2>2, <4>1 DEF Answered
    <3> QED BY <1>0, <2>2, <3>2, <3>3 DEF Answered, TypeOK
  <2>3. CASE LoseAnswer(c)
    <3>1. call' \in [Call -> CallState]
      <4>1. [call EXCEPT ![c].at = "answered", ![c].answer = "unknown"] \in [Call -> CallState]
        BY <1>b, CallUpdates
      <4> QED BY <2>3, <4>1 DEF LoseAnswer
    <3>2. work' \in [Call -> WorkState]
      <4>1. [work EXCEPT ![c] = Idle] \in [Call -> WorkState]
        BY <1>b, WorkUpdates
      <4> QED BY <1>b, <2>3, <4>1 DEF LoseAnswer
    <3> QED BY <1>0, <2>3, <3>1, <3>2 DEF LoseAnswer, TypeOK
  <2> QED BY <1>1, <2>1, <2>2, <2>3 DEF Agent
<1>2. ASSUME NEW c \in Call, Signer(c) PROVE TypeOK'
  <2>0. JournalRefuses(Asked(c)) \in {"refused", "recorded", "no"}
    BY DEF JournalRefuses
  <2>1. CASE Refuse(c)
    <3>1. call' \in [Call -> CallState] /\ work' \in [Call -> WorkState]
      BY <1>b, <2>1, ReplyTypes DEF Refuse
    <3> QED BY <1>0, <2>1, <3>1 DEF Refuse, Outside, TypeOK
  <2>2. CASE Check(c)
    <3>1. (\E answer \in {"ok", "refused", "recorded"} : Reply(c, answer)) \/ Proceed(c, "checked")
      BY <2>0, <2>2 DEF Check
    <3>2. call' \in [Call -> CallState] /\ work' \in [Call -> WorkState]
      BY <1>b, <3>1, ReplyTypes, ProceedTypes
    <3> QED BY <1>0, <2>2, <3>2 DEF Check, Outside, TypeOK
  <2>3. CASE Reserve(c)
    <3>1. Asked(c) \in Terms /\ work[c].approval \in Approval /\ Asked(c).winner \in Winner
      BY <1>0, <2>3, FieldsOfTerms DEF Reserve, RequestShape, ShapeOf, Asked
    <3>2. CASE JournalRefuses(Asked(c)) # "no"
      <4>1. Reply(c, JournalRefuses(Asked(c))) /\ JournalRefuses(Asked(c)) \in {"refused", "recorded"}
        BY <2>0, <2>3, <3>2 DEF Reserve
      <4>2. call' \in [Call -> CallState] /\ work' \in [Call -> WorkState]
        BY <1>b, <4>1, ReplyTypes
      <4> QED BY <1>0, <2>3, <3>2, <4>2 DEF Reserve, TypeOK
    <3>3. CASE JournalRefuses(Asked(c)) = "no"
      <4>1. PICK status \in {"sent", "reserved"} :
              /\ journal' = [journal EXCEPT ![Asked(c).winner] = [status |-> status, terms |-> Asked(c), approval |-> work[c].approval]]
              /\ IF status = "sent" THEN Proceed(c, "sent") /\ UNCHANGED crashes
                 ELSE /\ crashes < MaxCrashes /\ crashes' = crashes + 1
                      /\ work' = [d \in Call |-> Idle] /\ UNCHANGED call
        BY <2>3, <3>3 DEF Reserve
      <4>2. journal' \in [Winner -> JournalRow]
        <5>1. [status |-> status, terms |-> Asked(c), approval |-> work[c].approval] \in JournalRow
          BY <3>1 DEF JournalRow
        <5> QED BY <1>b, <3>1, <4>1, <5>1
      <4>3. call' \in [Call -> CallState] /\ work' \in [Call -> WorkState]
        <5>1. [d \in Call |-> Idle] \in [Call -> WorkState]
          BY <1>b, WorkUpdates
        <5> QED BY <1>b, <4>1, <5>1, ProceedTypes
      <4>4. crashes' \in 0 .. MaxCrashes
        BY <1>0, <4>1 DEF TypeOK
      <4>5. tx' \in [Winner -> {"none", "signed", "live", "landed", "failed", "expired"}]
        BY <1>0, <2>3, <3>1, <3>3 DEF Reserve, TypeOK
      <4> QED BY <1>0, <2>3, <4>2, <4>3, <4>4, <4>5 DEF Reserve, TypeOK
    <3> QED BY <3>2, <3>3
  <2>4. CASE Broadcast(c)
    <3>1. call' \in [Call -> CallState] /\ work' \in [Call -> WorkState]
      BY <1>b, <2>4, ProceedTypes DEF Broadcast
    <3>2. tx' \in [Winner -> {"none", "signed", "live", "landed", "failed", "expired"}]
      BY <1>0, <2>4 DEF Broadcast, TypeOK
    <3> QED BY <1>0, <2>4, <3>1, <3>2 DEF Broadcast, Outside, TypeOK
  <2>5. CASE Confirmed(c) \/ Unconfirmed(c)
    <3>1. \E answer \in {"ok", "unknown", "refused"} : Reply(c, answer)
      BY <2>5 DEF Confirmed, Unconfirmed, Mark
    <3>2. call' \in [Call -> CallState] /\ work' \in [Call -> WorkState]
      BY <1>b, <3>1, ReplyTypes
    <3>3. journal' \in [Winner -> JournalRow]
      <4>1. Asked(c).winner \in Winner
        BY <1>0, <2>5, FieldsOfTerms DEF Confirmed, Unconfirmed, RequestShape, ShapeOf, Asked
      <4>2. \A status \in {"confirmed", "unknown"} : [journal EXCEPT ![Asked(c).winner].status = status] \in [Winner -> JournalRow]
        BY <1>b, <4>1, JournalUpdates
      <4> QED BY <1>b, <2>5, <4>2 DEF Confirmed, Unconfirmed, Mark
    <3> QED BY <1>0, <2>5, <3>2, <3>3 DEF Confirmed, Unconfirmed, Outside, TypeOK
  <2> QED BY <1>2, <2>1, <2>2, <2>3, <2>4, <2>5 DEF Signer
<1>3. CASE Poll
  <2>1. ASSUME NEW w \in Winner, ReconcileRead(w) PROVE TypeOK'
    <3>1. Verdict(w) \in {"paid", "unknown", "awaiting_approval", "failed"}
      BY DEF Verdict
    <3>2. TermsFor(w) \in Terms
      BY <1>0, <2>1 DEF ReconcileRead, TermsFor, Terms, TypeOK, Row, RecordsFollow, RowFollows, InFlight
    <3> QED BY <1>0, <2>1, <3>1, <3>2 DEF ReconcileRead, TypeOK, RecState
  <2>2. CASE ReconcileWrite
    <3>1. rec.terms \in Terms
      BY <1>0, <2>2 DEF ReconcileWrite, RecordsFollow, RecFollows
    <3>2. row' \in [Winner -> Row] /\ ledger' \subseteq Entry
      <4>1. CASE MarkPaid(rec.terms)
        BY <1>b, <3>1, <4>1, MarkPaidTypes
      <4>2. ASSUME NEW status \in {"awaiting_approval", "unknown", "failed"}, SetStatus(rec.terms, status), UNCHANGED ledger
            PROVE  row' \in [Winner -> Row] /\ ledger' \subseteq Entry
        <5>1. status \in Statuses
          BY DEF Statuses, InFlight, Unpaid
        <5> QED BY <1>b, <3>1, <4>2, <5>1, SetStatusUpdates DEF Updates
      <4>3. CASE UNCHANGED <<row, ledger>>
        BY <1>0, <4>3 DEF TypeOK
      <4>4. rec.at \in {"paid", "unknown", "awaiting_approval", "failed"}
        BY <1>0, <2>2 DEF ReconcileWrite, TypeOK, RecState
      <4> QED BY <2>2, <4>1, <4>2, <4>3, <4>4 DEF ReconcileWrite
    <3> QED BY <1>0, <2>2, <3>2 DEF ReconcileWrite, TypeOK, NoRec, RecState
  <2> QED BY <1>3, <2>1, <2>2 DEF Poll
<1>4. CASE People
  <2>1. ASSUME NEW a \in Approval, NEW w \in Winner, Sign(a, w) PROVE TypeOK'
    <3>1. TermsFor(w) \in Terms
      BY <1>0, <2>1 DEF Sign, TermsFor, Terms, TypeOK, Row, RecordsFollow, RowFollows
    <3> QED BY <1>0, <2>1, <3>1 DEF Sign, TypeOK
  <2>2. ASSUME NEW c \in Call, NEW a \in Approval, Approve(c, a) PROVE TypeOK'
    <3>1. [Idle EXCEPT !.at = "read", !.approval = a] \in CallState
      BY DEF Idle, CallState
    <3>2. call' \in [Call -> CallState]
      BY <1>b, <2>2, <3>1 DEF Approve
    <3> QED BY <1>0, <2>2, <3>2 DEF Approve, TypeOK
  <2>3. ASSUME NEW w \in Winner, RefreezeRead(w) PROVE TypeOK'
    BY <1>0, <2>3 DEF RefreezeRead, TypeOK, FrzState
  <2>4. ASSUME NEW w \in Winner, Resolve(w) PROVE TypeOK'
    <3>1. \A status \in {"confirmed", "failed_unsent"} : [journal EXCEPT ![w].status = status] \in [Winner -> JournalRow]
      BY <1>b, JournalUpdates
    <3> QED BY <1>0, <2>4, <3>1 DEF Resolve, TypeOK
  <2>5. ASSUME NEW w \in Winner, NEW x \in Wallet, Link(w, x) PROVE TypeOK'
    BY <1>0, <2>5 DEF Link, TypeOK
  <2> QED BY <1>4, <2>1, <2>2, <2>3, <2>4, <2>5 DEF People
<1>5. CASE World
  <2>1. ASSUME NEW w \in Winner, Chain(w) PROVE TypeOK'
    BY <1>0, <2>1 DEF Chain, TypeOK
  <2>2. ASSUME NEW w \in Winner, Forget(w) PROVE TypeOK'
    BY <1>0, <1>a, <2>2 DEF Forget, TypeOK
  <2>3. CASE AgentCrash \/ SignerCrash
    BY <1>0, <2>3 DEF AgentCrash, SignerCrash, TypeOK, Idle, NoRec, NoFrz, CallState, WorkState, RecState, FrzState
  <2> QED BY <1>5, <2>1, <2>2, <2>3 DEF World
<1>6. CASE RefreshWallets
  <2>1. ASSUME NEW w \in Winner
        PROVE  row'[w] \in Row
    <3>1. row[w] \in Row /\ link[w] \in Wallet \cup {NoWallet}
      BY <1>0 DEF TypeOK
    <3>2. [row[w] EXCEPT !.status = "awaiting_approval", !.recipient = link[w]] \in Row
      BY <3>1 DEF Row, Unpaid
    <3> QED BY <1>6, <3>1, <3>2 DEF RefreshWallets
  <2>2. row' \in [Winner -> Row]
    BY <1>6, <2>1 DEF RefreshWallets
  <2> QED BY <1>0, <1>6, <2>2 DEF RefreshWallets, TypeOK
<1>7. CASE RefreezeWrite
  <2>1. frz.winner \in Winner
    BY <1>0, <1>7 DEF RefreezeWrite, RecordsFollow
  <2>2. row' \in [Winner -> Row]
    <3>1. row[frz.winner] \in Row /\ frz.wallet \in Wallet \cup {NoWallet}
      BY <1>0, <2>1 DEF TypeOK, FrzState
    <3>2. \A status \in {"awaiting_wallet", "awaiting_approval"} :
             [row[frz.winner] EXCEPT !.recipient = frz.wallet, !.status = status] \in Row
      BY <3>1 DEF Row, Unpaid
    <3> QED BY <1>b, <1>7, <2>1, <3>2 DEF RefreezeWrite
  <2> QED BY <1>0, <1>7, <2>2 DEF RefreezeWrite, TypeOK, NoFrz, FrzState
<1>8. ASSUME NEW s \in Statement, Import(s) PROVE TypeOK'
  <2>1. ASSUME NEW w \in Winner
        PROVE  row'[w] \in Row
    <3>1. row[w] \in Row /\ Listed(s, w) \in Row
      BY <1>0, ListedIsRow DEF TypeOK
    <3>2. [row[w] EXCEPT !.status = "removed", !.statement = s, !.recipient = NoWallet] \in Row
      BY <3>1 DEF Row, Unpaid
    <3> QED BY <1>8, <3>1, <3>2 DEF Import
  <2>2. row' \in [Winner -> Row]
    BY <1>8, <2>1 DEF Import
  <2> QED BY <1>0, <1>8, <2>2 DEF Import, TypeOK
<1>9. CASE UNCHANGED vars
  BY <1>0, <1>9 DEF vars, TypeOK
<1> QED BY <1>1, <1>2, <1>3, <1>4, <1>5, <1>6, <1>7, <1>8, <1>9 DEF Next

-----------------------------------------------------------------------------
(* Sums, unit by unit.                                                     *)

\* The units of some rows are finitely many, and as many more with another row.
LEMMA UnitsFinite ==
  ASSUME TypeOK, JournalIsTrue, NEW W \in SUBSET {w \in Winner : Counted(w)}
  PROVE  IsFiniteSet(Units(W))
<1>1. IsFiniteSet(W)
  BY FS_Subset
<1>2. ASSUME NEW w \in W
      PROVE  IsFiniteSet({w} \X (1 .. journal[w].terms.amount))
  <2>1. journal[w].terms.amount \in Nat
    BY <1>2, FieldsOfTerms DEF JournalIsTrue, TrueOf, Counted
  <2>2. IsFiniteSet(1 .. journal[w].terms.amount)
    BY <2>1, FS_Interval
  <2>3. IsFiniteSet({w})
    BY FS_Singleton
  <2> QED BY <2>2, <2>3, FS_Product
<1>3. \A X \in {{w} \X (1 .. journal[w].terms.amount) : w \in W} : IsFiniteSet(X)
  BY <1>2
<1>4. IsFiniteSet({{w} \X (1 .. journal[w].terms.amount) : w \in W})
  <2> DEFINE rows == [w \in W |-> {w} \X (1 .. journal[w].terms.amount)]
  <2>1. rows \in Surjection(W, {{w} \X (1 .. journal[w].terms.amount) : w \in W})
    BY DEF Surjection
  <2> QED BY <1>1, <2>1, FS_Surjection
<1> QED BY <1>3, <1>4, FS_UNION DEF Units

-----------------------------------------------------------------------------
(* The journal and the chain.                                              *)

\* Who writes the journal, the chain, and what was signed.
LEMMA WhoWrites ==
  ASSUME [Next]_vars
  PROVE  \/ UNCHANGED <<journal, tx, paid, signed>>
         \/ \E c \in Call : Reserve(c) \/ Broadcast(c) \/ Confirmed(c) \/ Unconfirmed(c)
         \/ \E w \in Winner : Resolve(w) \/ Chain(w)
         \/ \E a \in Approval, w \in Winner : Sign(a, w)
<1>1. ASSUME NEW c \in Call, Agent(c) PROVE UNCHANGED <<journal, tx, paid, signed>>
  BY <1>1 DEF Agent, Claim, Answered, LoseAnswer
<1>2. ASSUME NEW c \in Call, Refuse(c) \/ Check(c) PROVE UNCHANGED <<journal, tx, paid, signed>>
  BY <1>2 DEF Refuse, Check, Outside
<1>3. CASE Poll
  BY <1>3 DEF Poll, ReconcileRead, ReconcileWrite
<1>4. ASSUME NEW c \in Call, NEW a \in Approval, Approve(c, a) PROVE UNCHANGED <<journal, tx, paid, signed>>
  BY <1>4 DEF Approve
<1>5. ASSUME NEW w \in Winner, RefreezeRead(w) \/ (\E x \in Wallet : Link(w, x)) \/ Forget(w)
      PROVE  UNCHANGED <<journal, tx, paid, signed>>
  BY <1>5 DEF RefreezeRead, Link, Forget
<1>6. CASE AgentCrash \/ SignerCrash \/ RefreshWallets \/ RefreezeWrite
  BY <1>6 DEF AgentCrash, SignerCrash, RefreshWallets, RefreezeWrite
<1>7. ASSUME NEW s \in Statement, Import(s) PROVE UNCHANGED <<journal, tx, paid, signed>>
  BY <1>7 DEF Import
<1>8. CASE UNCHANGED vars
  BY <1>8 DEF vars
<1> QED BY <1>1, <1>2, <1>3, <1>4, <1>5, <1>6, <1>7, <1>8 DEF Next, Signer, People, World

\* reserve writes only the row of a winner without one.
LEMMA ReserveIsFresh ==
  ASSUME Inductive, NEW c \in Call, Reserve(c), JournalRefuses(Asked(c)) = "no"
  PROVE  /\ Asked(c) \in Terms /\ work[c].approval \in Approval /\ signed[work[c].approval] = Asked(c)
         /\ journal[Asked(c).winner] = Unrecorded
         /\ Committed + Asked(c).amount <= EventMax
         /\ \E status \in {"sent", "reserved"} :
              journal' = [journal EXCEPT ![Asked(c).winner] = [status |-> status, terms |-> Asked(c), approval |-> work[c].approval]]
<1>1. Asked(c) \in Terms /\ work[c].approval \in Approval /\ signed[work[c].approval] = Asked(c)
  BY DEF Inductive, RequestShape, ShapeOf, Reserve, Asked
<1>2. journal[Asked(c).winner] = Unrecorded
  BY DEF JournalRefuses
<1>3. ~(Committed + Asked(c).amount > EventMax)
  BY DEF JournalRefuses
<1>4. IsFiniteSet(Units({w \in Winner : Counted(w)}))
  BY UnitsFinite DEF Inductive
<1>5. Committed \in Nat
  BY <1>4, FS_CardinalityType DEF Committed
<1>6. Committed + Asked(c).amount <= EventMax
  BY <1>1, <1>3, <1>5, FieldsOfTerms
<1>7. \E status \in {"sent", "reserved"} :
        journal' = [journal EXCEPT ![Asked(c).winner] = [status |-> status, terms |-> Asked(c), approval |-> work[c].approval]]
  BY DEF Reserve
<1> QED BY <1>1, <1>2, <1>6, <1>7

\* A row of the journal keeps its terms and its approval, one that is confirmed or
\* sent nothing keeps its status too, and what was signed stays signed.
Keeps ==
  /\ \A w \in Winner : journal[w].status # "none" =>
       /\ journal'[w].terms = journal[w].terms /\ journal'[w].approval = journal[w].approval
       /\ journal'[w].status # "none"
       /\ journal[w].status \in {"confirmed", "failed_unsent"} => journal'[w].status = journal[w].status
  /\ \A a \in Approval : signed[a] # NoTerms => signed'[a] = signed[a]

LEMMA JournalKeeps ==
  ASSUME Inductive, [Next]_vars
  PROVE  Keeps
<1>0. TypeOK /\ JournalIsTrue
  BY DEF Inductive
<1>a. Unrecorded.status = "none"
  BY DEF Unrecorded
<1>1. CASE UNCHANGED <<journal, tx, paid, signed>>
  BY <1>1 DEF Keeps
<1>2. ASSUME NEW c \in Call, Reserve(c) PROVE Keeps
  <2>1. CASE JournalRefuses(Asked(c)) # "no"
    BY <1>2, <2>1 DEF Reserve, Keeps
  <2>2. CASE JournalRefuses(Asked(c)) = "no"
    <3>1. /\ journal[Asked(c).winner] = Unrecorded
          /\ \E status \in {"sent", "reserved"} :
               journal' = [journal EXCEPT ![Asked(c).winner] = [status |-> status, terms |-> Asked(c), approval |-> work[c].approval]]
      BY <1>2, <2>2, ReserveIsFresh
    <3> QED BY <1>0, <1>a, <1>2, <3>1 DEF Reserve, Keeps, TypeOK
  <2> QED BY <2>1, <2>2
<1>3. ASSUME NEW c \in Call, Broadcast(c) PROVE Keeps
  BY <1>3 DEF Broadcast, Outside, Keeps
<1>4. ASSUME NEW c \in Call, Confirmed(c) \/ Unconfirmed(c) PROVE Keeps
  <2>1. UNCHANGED signed
    BY <1>4 DEF Confirmed, Unconfirmed, Outside
  <2>2. CASE UNCHANGED journal
    BY <2>1, <2>2 DEF Keeps
  <2>3. ASSUME NEW status \in {"confirmed", "unknown"}, NEW w \in Winner,
               journal[w].status = "sent", journal' = [journal EXCEPT ![w].status = status]
        PROVE  Keeps
    BY <1>0, <2>1, <2>3 DEF Keeps, TypeOK, JournalRow
  <2>4. Asked(c).winner \in Winner
    BY <1>4, FieldsOfTerms DEF Confirmed, Unconfirmed, Inductive, RequestShape, ShapeOf, Asked
  <2> QED BY <1>4, <2>2, <2>3, <2>4 DEF Confirmed, Unconfirmed, Mark
<1>5. ASSUME NEW w \in Winner, Resolve(w) PROVE Keeps
  <2>1. UNCHANGED signed /\ journal[w].status \in {"reserved", "sent", "unknown"}
    BY <1>5 DEF Resolve
  <2>2. ASSUME NEW status \in {"confirmed", "failed_unsent"}, journal' = [journal EXCEPT ![w].status = status]
        PROVE  Keeps
    BY <1>0, <2>1, <2>2 DEF Keeps, TypeOK, JournalRow
  <2> QED BY <1>5, <2>2 DEF Resolve
<1>6. ASSUME NEW w \in Winner, Chain(w) PROVE Keeps
  BY <1>6 DEF Chain, Keeps
<1>7. ASSUME NEW a \in Approval, NEW w \in Winner, Sign(a, w) PROVE Keeps
  BY <1>0, <1>7 DEF Sign, Keeps, TypeOK
<1> QED BY <1>1, <1>2, <1>3, <1>4, <1>5, <1>6, <1>7, WhoWrites

\* What the journal says stays true of the chain.
LEMMA TrueStep ==
  ASSUME Inductive, [Next]_vars
  PROVE  JournalIsTrue'
<1>0. TypeOK /\ JournalIsTrue /\ Keeps
  BY JournalKeeps DEF Inductive
<1>a. Unrecorded.status = "none" /\ NoApproval \notin Approval /\ NoTerms \notin Terms
  BY DEF Unrecorded
<1>b. /\ journal \in [Winner -> JournalRow] /\ tx \in [Winner -> {"none", "signed", "live", "landed", "failed", "expired"}]
      /\ paid \in [Winner -> Nat] /\ signed \in [Approval -> Terms \cup {NoTerms}]
  BY <1>0 DEF TypeOK
<1>1. CASE UNCHANGED <<journal, tx, paid, signed>>
  BY <1>0, <1>1 DEF JournalIsTrue, TrueOf
<1>2. ASSUME NEW c \in Call, Reserve(c) PROVE JournalIsTrue'
  <2>1. CASE JournalRefuses(Asked(c)) # "no"
    BY <1>0, <1>2, <2>1 DEF Reserve, JournalIsTrue, TrueOf
  <2>2. CASE JournalRefuses(Asked(c)) = "no"
    <3>1. /\ Asked(c) \in Terms /\ work[c].approval \in Approval /\ signed[work[c].approval] = Asked(c)
          /\ journal[Asked(c).winner] = Unrecorded /\ Asked(c).winner \in Winner
      BY <1>2, <2>2, ReserveIsFresh, FieldsOfTerms
    <3>2. PICK status \in {"sent", "reserved"} :
            journal' = [journal EXCEPT ![Asked(c).winner] = [status |-> status, terms |-> Asked(c), approval |-> work[c].approval]]
      BY <1>2, <2>2, ReserveIsFresh
    <3>3. tx' = [tx EXCEPT ![Asked(c).winner] = "signed"] /\ UNCHANGED <<signed, paid>>
      BY <1>2, <2>2 DEF Reserve
    <3>4. ASSUME NEW w \in Winner PROVE TrueOf(w)'
      <4>1. CASE w = Asked(c).winner
        <5>1. journal'[w] = [status |-> status, terms |-> Asked(c), approval |-> work[c].approval] /\ tx'[w] = "signed"
          BY <1>b, <3>2, <3>3, <4>1
        <5>2. paid[w] = 0
          BY <1>0, <1>a, <3>1, <4>1 DEF JournalIsTrue, TrueOf
        <5> QED BY <3>1, <3>2, <3>3, <4>1, <5>1, <5>2 DEF TrueOf
      <4>2. CASE w # Asked(c).winner
        <5>1. journal'[w] = journal[w] /\ tx'[w] = tx[w] /\ UNCHANGED <<signed, paid>>
          BY <1>b, <3>2, <3>3, <4>2
        <5> QED BY <1>0, <5>1 DEF JournalIsTrue, TrueOf
      <4> QED BY <4>1, <4>2
    <3> QED BY <3>4 DEF JournalIsTrue
  <2> QED BY <2>1, <2>2
<1>3. ASSUME NEW c \in Call, Broadcast(c) PROVE JournalIsTrue'
  BY <1>0, <1>b, <1>3 DEF Broadcast, Outside, JournalIsTrue, TrueOf
<1>4. ASSUME NEW w \in Winner, NEW status \in {"confirmed", "unknown", "failed_unsent"},
             journal[w].status \notin {"none", "confirmed", "failed_unsent"}, journal' = [journal EXCEPT ![w].status = status],
             status = "confirmed" => tx[w] = "landed", status = "failed_unsent" => tx[w] \in {"failed", "expired"},
             UNCHANGED <<tx, paid, signed>>
      PROVE  JournalIsTrue'
  <2>1. ASSUME NEW v \in Winner PROVE TrueOf(v)'
    <3>1. CASE v = w
      <4>1. journal'[v] = [journal[v] EXCEPT !.status = status] /\ journal[v] \in JournalRow /\ UNCHANGED <<tx, paid, signed>>
        BY <1>b, <1>4, <3>1
      <4>2. journal'[v].status = status /\ journal'[v].terms = journal[v].terms /\ journal'[v].approval = journal[v].approval
        BY <4>1 DEF JournalRow
      <4> QED BY <1>0, <1>4, <3>1, <4>2 DEF JournalIsTrue, TrueOf
    <3>2. CASE v # w
      <4>1. journal'[v] = journal[v] /\ UNCHANGED <<tx, paid, signed>>
        BY <1>b, <1>4, <3>2
      <4> QED BY <1>0, <4>1 DEF JournalIsTrue, TrueOf
    <3> QED BY <3>1, <3>2
  <2> QED BY <2>1 DEF JournalIsTrue
<1>5. ASSUME NEW c \in Call, Confirmed(c) \/ Unconfirmed(c) PROVE JournalIsTrue'
  <2>1. Asked(c).winner \in Winner /\ UNCHANGED <<tx, paid, signed>>
    BY <1>5, FieldsOfTerms DEF Confirmed, Unconfirmed, Outside, Inductive, RequestShape, ShapeOf, Asked
  <2>2. CASE UNCHANGED journal
    BY <1>0, <2>1, <2>2 DEF JournalIsTrue, TrueOf
  <2>3. CASE ~UNCHANGED journal
    <3>1. /\ journal[Asked(c).winner].status = "sent"
          /\ \/ tx[Asked(c).winner] = "landed" /\ journal' = [journal EXCEPT ![Asked(c).winner].status = "confirmed"]
             \/ journal' = [journal EXCEPT ![Asked(c).winner].status = "unknown"]
      BY <1>5, <2>3 DEF Confirmed, Unconfirmed, Mark
    <3> QED BY <1>4, <2>1, <3>1
  <2> QED BY <2>2, <2>3
<1>6. ASSUME NEW w \in Winner, Resolve(w) PROVE JournalIsTrue'
  BY <1>4, <1>6 DEF Resolve
<1>7. ASSUME NEW w \in Winner, Chain(w) PROVE JournalIsTrue'
  <2>1. UNCHANGED <<journal, signed>> /\ tx[w] \in {"signed", "live"} /\ paid[w] = 0
    BY <1>0, <1>7 DEF Chain, JournalIsTrue, TrueOf
  <2>2. ASSUME NEW v \in Winner PROVE TrueOf(v)'
    <3>1. CASE v = w
      <4>1. (tx'[v] \in {"failed", "expired"} /\ paid'[v] = 0) \/ (tx'[v] = "landed" /\ paid'[v] = 1)
        <5>1. CASE tx' = [tx EXCEPT ![w] = "landed"] /\ paid' = [paid EXCEPT ![w] = @ + 1]
          BY <1>b, <2>1, <3>1, <5>1
        <5>2. ASSUME NEW end \in {"failed", "expired"}, tx' = [tx EXCEPT ![w] = end], UNCHANGED paid
              PROVE  tx'[v] = end /\ paid'[v] = 0
          BY <1>b, <2>1, <3>1, <5>2
        <5>3. \/ tx' = [tx EXCEPT ![w] = "landed"] /\ paid' = [paid EXCEPT ![w] = @ + 1]
              \/ \E end \in {"failed", "expired"} : tx' = [tx EXCEPT ![w] = end] /\ UNCHANGED paid
          BY <1>7 DEF Chain
        <5> QED BY <5>1, <5>2, <5>3
      <4> QED BY <1>0, <2>1, <3>1, <4>1 DEF JournalIsTrue, TrueOf
    <3>2. CASE v # w
      <4>1. tx'[v] = tx[v] /\ paid'[v] = paid[v]
        BY <1>b, <1>7, <3>2 DEF Chain
      <4> QED BY <1>0, <2>1, <4>1 DEF JournalIsTrue, TrueOf
    <3> QED BY <3>1, <3>2
  <2> QED BY <2>2 DEF JournalIsTrue
<1>8. ASSUME NEW a \in Approval, NEW w \in Winner, Sign(a, w) PROVE JournalIsTrue'
  <2>1. UNCHANGED <<journal, tx, paid>>
    BY <1>8 DEF Sign
  <2> QED BY <1>0, <1>a, <2>1 DEF Keeps, JournalIsTrue, TrueOf
<1> QED BY <1>1, <1>2, <1>3, <1>5, <1>6, <1>7, <1>8, WhoWrites

\* What was confirmed, or never sent, remains so.
LEMMA RecordsKeep ==
  ASSUME Keeps, JournalIsTrue
  PROVE  /\ \A t : t.winner \in Winner /\ ConfirmedAs(t) =>
              journal'[t.winner].status = "confirmed" /\ journal'[t.winner].terms.id = t.id
         /\ \A w \in Winner : FailedUnsent(w) => journal'[w].status = "failed_unsent"
  BY DEF Keeps, ConfirmedAs, FailedUnsent

-----------------------------------------------------------------------------
(* Requests.                                                               *)

\* Who writes where a request stands, other than to end it.
LEMMA WhoAsks ==
  ASSUME TypeOK, [Next]_vars
  PROVE  \/ \A d \in Call : call'[d] \in {call[d], Idle} /\ work'[d] \in {work[d], Idle}
         \/ \E c \in Call : Claim(c) \/ LoseAnswer(c) \/ Signer(c) \/ (\E a \in Approval : Approve(c, a))
<1>0. call \in [Call -> CallState] /\ work \in [Call -> WorkState]
  BY DEF TypeOK
<1>1. ASSUME NEW c \in Call, Answered(c)
      PROVE  \A d \in Call : call'[d] \in {call[d], Idle} /\ work'[d] \in {work[d], Idle}
  BY <1>0, <1>1 DEF Answered
<1>2. CASE AgentCrash \/ SignerCrash
  BY <1>0, <1>2 DEF AgentCrash, SignerCrash
<1>3. CASE UNCHANGED <<call, work>>
  BY <1>3
<1>4. CASE Poll
  BY <1>3, <1>4 DEF Poll, ReconcileRead, ReconcileWrite
<1>5. ASSUME NEW w \in Winner, NEW a \in Approval, Sign(a, w) PROVE UNCHANGED <<call, work>>
  BY <1>5 DEF Sign
<1>6. ASSUME NEW w \in Winner, RefreezeRead(w) \/ Resolve(w) \/ (\E x \in Wallet : Link(w, x)) \/ Chain(w) \/ Forget(w)
      PROVE  UNCHANGED <<call, work>>
  BY <1>6 DEF RefreezeRead, Resolve, Link, Chain, Forget
<1>7. CASE RefreshWallets \/ RefreezeWrite
  BY <1>3, <1>7 DEF RefreshWallets, RefreezeWrite
<1>8. ASSUME NEW s \in Statement, Import(s) PROVE UNCHANGED <<call, work>>
  BY <1>8 DEF Import
<1>9. CASE UNCHANGED vars
  BY <1>3, <1>9 DEF vars
<1> QED BY <1>1, <1>2, <1>3, <1>4, <1>5, <1>6, <1>7, <1>8, <1>9 DEF Next, Agent, People, World

\* A request that does not move, or ends, stands where it says.
LEMMA QuietShape ==
  ASSUME Inductive, [Next]_vars, NEW d \in Call, call'[d] \in {call[d], Idle}, work'[d] \in {work[d], Idle}
  PROVE  ShapeOf(d)'
<1>0. TypeOK /\ JournalIsTrue /\ ShapeOf(d) /\ Keeps
  BY JournalKeeps DEF Inductive, RequestShape
<1>1. call[d].at # "idle" => signed'[call[d].approval] = signed[call[d].approval]
  BY <1>0, FieldsOfTerms DEF Keeps, ShapeOf
<1>2. work[d].at # "idle" => signed'[work[d].approval] = signed[work[d].approval]
  BY <1>0, FieldsOfTerms DEF Keeps, ShapeOf
<1>3. Idle.at = "idle"
  BY DEF Idle
<1>4. call'[d].at # "idle" => call'[d].approval \in Approval /\ signed'[call'[d].approval] \in Terms
  BY <1>0, <1>1, <1>3 DEF ShapeOf
<1>5. call'[d].at = "answered" /\ call'[d].answer = "ok" => ConfirmedAs(Approved(d))'
  <2>1. SUFFICES ASSUME call'[d].at = "answered", call'[d].answer = "ok" PROVE ConfirmedAs(Approved(d))'
    OBVIOUS
  <2>2. call'[d] = call[d] /\ Approved(d)' = Approved(d) /\ Approved(d).winner \in Winner
    BY <1>0, <1>1, <1>3, <2>1, FieldsOfTerms DEF ShapeOf, Approved
  <2> QED BY <1>0, <2>1, <2>2, RecordsKeep DEF ShapeOf, ConfirmedAs
<1>6. work'[d].at # "idle" =>
        /\ work'[d].approval \in Approval /\ signed'[work'[d].approval] \in Terms
        /\ call'[d].at # "read" /\ (call'[d].at = "waiting" => call'[d].approval = work'[d].approval)
  BY <1>0, <1>2, <1>3 DEF ShapeOf
<1>7. work'[d].at \in {"sent", "confirming"} => journal'[Asked(d)'.winner].approval = work'[d].approval
  <2>1. SUFFICES ASSUME work'[d].at \in {"sent", "confirming"} PROVE journal'[Asked(d)'.winner].approval = work'[d].approval
    OBVIOUS
  <2>2. /\ work'[d] = work[d] /\ Asked(d)' = Asked(d) /\ Asked(d).winner \in Winner
        /\ journal[Asked(d).winner].approval = work[d].approval /\ work[d].approval \in Approval
    BY <1>0, <1>2, <1>3, <2>1, FieldsOfTerms DEF ShapeOf, Asked
  <2>3. journal[Asked(d).winner].status # "none"
    BY <1>0, <2>2 DEF JournalIsTrue, TrueOf, Unrecorded
  <2> QED BY <1>0, <2>2, <2>3 DEF Keeps
<1> QED BY <1>4, <1>5, <1>6, <1>7 DEF ShapeOf

\* So does one the signer answers, if what it says paid is confirmed.
LEMMA ReplyShape ==
  ASSUME Inductive, [Next]_vars, NEW c \in Call, NEW answer \in {"ok", "refused", "recorded", "unknown"}, Reply(c, answer),
         work[c].at # "idle",
         answer = "ok" => journal'[Asked(c).winner].status = "confirmed" /\ journal'[Asked(c).winner].terms.id = Asked(c).id
  PROVE  RequestShape'
<1>0. TypeOK /\ ShapeOf(c) /\ Keeps /\ call \in [Call -> CallState] /\ work \in [Call -> WorkState]
  BY JournalKeeps DEF Inductive, RequestShape, TypeOK
<1>1. work' = [work EXCEPT ![c] = Idle]
  BY DEF Reply
<1>2. ASSUME NEW d \in Call, d # c PROVE ShapeOf(d)'
  <2>1. call'[d] = call[d] /\ work'[d] = work[d]
    BY <1>0, <1>1, <1>2 DEF Reply
  <2> QED BY <2>1, QuietShape
<1>3. ShapeOf(c)'
  <2>1. CASE call[c].at # "waiting"
    <3>1. call'[c] = call[c] /\ work'[c] = Idle
      BY <1>0, <1>1, <2>1 DEF Reply
    <3> QED BY <3>1, QuietShape
  <2>2. CASE call[c].at = "waiting"
    <3>1. call'[c] = [call[c] EXCEPT !.at = "answered", !.answer = answer]
      BY <1>0, <2>2 DEF Reply
    <3>2. call'[c].at = "answered" /\ call'[c].answer = answer /\ call'[c].approval = call[c].approval
      <4>1. call[c] \in CallState
        BY <1>0
      <4> QED BY <3>1, <4>1 DEF CallState
    <3>3. /\ call[c].approval = work[c].approval /\ call[c].approval \in Approval /\ signed[call[c].approval] \in Terms
          /\ Approved(c) = Asked(c) /\ Approved(c)' = Approved(c)
      BY <1>0, <2>2, <3>2, FieldsOfTerms DEF ShapeOf, Keeps, Approved, Asked
    <3>4. work'[c].at = "idle"
      BY <1>0, <1>1 DEF Idle
    <3>5. answer = "ok" => ConfirmedAs(Approved(c))'
      BY <3>3 DEF ConfirmedAs
    <3> QED BY <1>0, <3>2, <3>3, <3>4, <3>5, FieldsOfTerms DEF ShapeOf, Keeps
  <2> QED BY <2>1, <2>2
<1> QED BY <1>2, <1>3 DEF RequestShape

\* And one the signer goes on with, its row once there being its own.
LEMMA ProceedShape ==
  ASSUME Inductive, [Next]_vars, NEW c \in Call, NEW place \in {"checked", "sent", "confirming"}, Proceed(c, place),
         work[c].at # "idle",
         place # "checked" => journal'[Asked(c).winner].approval = work[c].approval
  PROVE  RequestShape'
<1>0. TypeOK /\ ShapeOf(c) /\ Keeps /\ call \in [Call -> CallState] /\ work \in [Call -> WorkState]
  BY JournalKeeps DEF Inductive, RequestShape, TypeOK
<1>1. call' = call /\ work' = [work EXCEPT ![c].at = place]
  BY DEF Proceed
<1>2. ASSUME NEW d \in Call, d # c PROVE ShapeOf(d)'
  <2>1. call'[d] = call[d] /\ work'[d] = work[d]
    BY <1>0, <1>1, <1>2
  <2> QED BY <2>1, QuietShape
<1>3. ShapeOf(c)'
  <2>1. work'[c].at = place /\ work'[c].approval = work[c].approval /\ call'[c] = call[c]
    <3>1. work[c] \in WorkState /\ work'[c] = [work[c] EXCEPT !.at = place]
      BY <1>0, <1>1
    <3> QED BY <1>1, <3>1 DEF WorkState
  <2>2. signed'[work[c].approval] = signed[work[c].approval] /\ Asked(c)' = Asked(c)
    BY <1>0, <2>1, FieldsOfTerms DEF ShapeOf, Keeps, Asked
  <2>3. call[c].at # "idle" => signed'[call[c].approval] = signed[call[c].approval]
    BY <1>0, FieldsOfTerms DEF ShapeOf, Keeps
  <2>4. call[c].at = "answered" /\ call[c].answer = "ok" => ConfirmedAs(Approved(c))'
    <3>1. SUFFICES ASSUME call[c].at = "answered", call[c].answer = "ok" PROVE ConfirmedAs(Approved(c))'
      OBVIOUS
    <3>2. Approved(c)' = Approved(c) /\ Approved(c).winner \in Winner
      BY <1>0, <2>1, <2>3, <3>1, FieldsOfTerms DEF ShapeOf, Approved
    <3> QED BY <1>0, <3>1, <3>2, RecordsKeep DEF Inductive, ShapeOf, ConfirmedAs
  <2> QED BY <1>0, <2>1, <2>2, <2>3, <2>4 DEF ShapeOf
<1> QED BY <1>2, <1>3 DEF RequestShape

LEMMA ShapeStep ==
  ASSUME Inductive, [Next]_vars
  PROVE  RequestShape'
<1>0. TypeOK /\ JournalIsTrue /\ RequestShape /\ Keeps /\ call \in [Call -> CallState] /\ work \in [Call -> WorkState]
  BY JournalKeeps DEF Inductive, TypeOK
<1>1. CASE \A d \in Call : call'[d] \in {call[d], Idle} /\ work'[d] \in {work[d], Idle}
  BY <1>1, QuietShape DEF RequestShape
<1>2. ASSUME NEW c \in Call, Claim(c) PROVE RequestShape'
  <2>1. ASSUME NEW d \in Call, d # c PROVE ShapeOf(d)'
    <3>1. call'[d] = call[d] /\ work'[d] = work[d]
      BY <1>0, <1>2, <2>1 DEF Claim
    <3> QED BY <3>1, QuietShape
  <2>2. ShapeOf(c)'
    <3>1. CASE call' = [call EXCEPT ![c] = Idle] /\ UNCHANGED work
      <4>1. call'[c] = Idle /\ work'[c] = work[c]
        BY <1>0, <3>1
      <4> QED BY <4>1, QuietShape
    <3>2. CASE /\ call' = [call EXCEPT ![c].at = "waiting"]
               /\ work' = [work EXCEPT ![c] = [Idle EXCEPT !.at = "asked", !.approval = call[c].approval]]
      <4>1. call'[c].at = "waiting" /\ call'[c].approval = call[c].approval
        <5>1. call[c] \in CallState /\ call'[c] = [call[c] EXCEPT !.at = "waiting"]
          BY <1>0, <3>2
        <5> QED BY <5>1 DEF CallState
      <4>2. work'[c].at = "asked" /\ work'[c].approval = call[c].approval
        BY <1>0, <3>2 DEF Idle
      <4>3. /\ call[c].approval \in Approval /\ signed[call[c].approval] \in Terms
            /\ signed'[call[c].approval] = signed[call[c].approval]
        BY <1>0, <1>2, FieldsOfTerms DEF Claim, RequestShape, ShapeOf, Keeps
      <4> QED BY <4>1, <4>2, <4>3 DEF ShapeOf
    <3> QED BY <1>2, <3>1, <3>2 DEF Claim
  <2> QED BY <2>1, <2>2 DEF RequestShape
<1>3. ASSUME NEW c \in Call, LoseAnswer(c) PROVE RequestShape'
  <2>1. ASSUME NEW d \in Call, d # c PROVE ShapeOf(d)'
    <3>1. call'[d] = call[d] /\ work'[d] = work[d]
      BY <1>0, <1>3, <2>1 DEF LoseAnswer
    <3> QED BY <3>1, QuietShape
  <2>2. ShapeOf(c)'
    <3>1. call'[c].at = "answered" /\ call'[c].answer = "unknown" /\ call'[c].approval = call[c].approval
      <4>1. call[c] \in CallState /\ call'[c] = [call[c] EXCEPT !.at = "answered", !.answer = "unknown"]
        BY <1>0, <1>3 DEF LoseAnswer
      <4> QED BY <4>1 DEF CallState
    <3>2. work'[c] \in {work[c], Idle}
      BY <1>0, <1>3 DEF LoseAnswer
    <3>3. /\ call[c].approval \in Approval /\ signed[call[c].approval] \in Terms
          /\ signed'[call[c].approval] = signed[call[c].approval]
      BY <1>0, <1>3, FieldsOfTerms DEF LoseAnswer, RequestShape, ShapeOf, Keeps
    <3>4. CASE work'[c] = Idle
      BY <3>1, <3>3, <3>4 DEF ShapeOf, Idle
    <3>5. CASE work'[c] = work[c]
      <4>1. UNCHANGED <<signed, journal>>
        BY <1>3 DEF LoseAnswer
      <4> QED BY <1>0, <3>1, <3>3, <3>5, <4>1 DEF RequestShape, ShapeOf, Asked
    <3> QED BY <3>2, <3>4, <3>5
  <2> QED BY <2>1, <2>2 DEF RequestShape
<1>4. ASSUME NEW c \in Call, NEW a \in Approval, Approve(c, a) PROVE RequestShape'
  <2>1. ASSUME NEW d \in Call, d # c PROVE ShapeOf(d)'
    <3>1. call'[d] = call[d] /\ work'[d] = work[d]
      BY <1>0, <1>4, <2>1 DEF Approve
    <3> QED BY <3>1, QuietShape
  <2>2. ShapeOf(c)'
    <3>1. call'[c].at = "read" /\ call'[c].approval = a
      BY <1>0, <1>4 DEF Approve, Idle
    <3>2. work'[c].at = "idle"
      BY <1>4 DEF Approve
    <3>3. signed'[a] \in Terms
      BY <1>0, <1>4 DEF Approve, TypeOK
    <3> QED BY <3>1, <3>2, <3>3 DEF ShapeOf
  <2> QED BY <2>1, <2>2 DEF RequestShape
<1>5. ASSUME NEW c \in Call, Signer(c) PROVE RequestShape'
  <2>0. JournalRefuses(Asked(c)) \in {"refused", "recorded", "no"}
    BY DEF JournalRefuses
  <2>1. CASE Refuse(c)
    BY <2>1, ReplyShape DEF Refuse
  <2>2. CASE Check(c)
    <3>1. work[c].at = "asked" /\ UNCHANGED journal
      BY <2>2 DEF Check
    <3>2. CASE \E answer \in {"refused", "recorded"} : Reply(c, answer)
      BY <3>1, <3>2, ReplyShape
    <3>3. CASE Reply(c, "ok") /\ journal[Asked(c).winner].status = "confirmed" /\ journal[Asked(c).winner].terms.id = Asked(c).id
      BY <3>1, <3>3, ReplyShape
    <3>4. CASE Proceed(c, "checked")
      BY <3>1, <3>4, ProceedShape
    <3> QED BY <2>0, <2>2, <3>2, <3>3, <3>4 DEF Check
  <2>3. CASE Reserve(c)
    <3>1. CASE JournalRefuses(Asked(c)) # "no"
      <4>1. Reply(c, JournalRefuses(Asked(c))) /\ JournalRefuses(Asked(c)) \in {"refused", "recorded"} /\ work[c].at = "checked"
        BY <2>0, <2>3, <3>1 DEF Reserve
      <4> QED BY <4>1, ReplyShape
    <3>2. CASE JournalRefuses(Asked(c)) = "no"
      <4>1. CASE Proceed(c, "sent")
        <5>1. Asked(c).winner \in Winner /\ journal'[Asked(c).winner].approval = work[c].approval
          <6>1. Asked(c) \in Terms /\ Asked(c).winner \in Winner
            BY <2>3, <3>2, ReserveIsFresh, FieldsOfTerms
          <6>2. PICK status \in {"sent", "reserved"} :
                  journal' = [journal EXCEPT ![Asked(c).winner] = [status |-> status, terms |-> Asked(c), approval |-> work[c].approval]]
            BY <2>3, <3>2, ReserveIsFresh
          <6> QED BY <1>0, <6>1, <6>2 DEF TypeOK
        <5>2. work[c].at = "checked"
          BY <2>3 DEF Reserve
        <5> QED BY <4>1, <5>1, <5>2, ProceedShape
      <4>2. CASE work' = [d \in Call |-> Idle] /\ UNCHANGED call
        <5>1. \A d \in Call : call'[d] \in {call[d], Idle} /\ work'[d] \in {work[d], Idle}
          BY <4>2
        <5> QED BY <1>1, <5>1
      <4> QED BY <2>3, <3>2, <4>1, <4>2 DEF Reserve
    <3> QED BY <3>1, <3>2
  <2>4. CASE Broadcast(c)
    <3>1. work[c].at = "sent" /\ UNCHANGED journal /\ Proceed(c, "confirming")
      BY <2>4 DEF Broadcast
    <3>2. journal[Asked(c).winner].approval = work[c].approval
      BY <1>0, <3>1 DEF RequestShape, ShapeOf
    <3> QED BY <3>1, <3>2, ProceedShape
  <2>5. CASE Confirmed(c) \/ Unconfirmed(c)
    <3>1. /\ work[c].at \in {"sent", "confirming"} /\ Asked(c) \in Terms /\ Asked(c).winner \in Winner
          /\ journal[Asked(c).winner].approval = work[c].approval /\ work[c].approval \in Approval
          /\ signed[work[c].approval] = Asked(c)
      BY <1>0, <2>5, FieldsOfTerms DEF Confirmed, Unconfirmed, RequestShape, ShapeOf, Asked
    <3>2. CASE \E answer \in {"refused", "unknown"} : Reply(c, answer)
      BY <3>1, <3>2, ReplyShape
    <3>3. CASE /\ Reply(c, "ok") /\ journal[Asked(c).winner].status = "sent"
               /\ journal' = [journal EXCEPT ![Asked(c).winner].status = "confirmed"]
      <4>1. journal[Asked(c).winner].terms = Asked(c)
        BY <1>0, <3>1, <3>3 DEF JournalIsTrue, TrueOf
      <4>2. journal'[Asked(c).winner].status = "confirmed" /\ journal'[Asked(c).winner].terms = Asked(c)
        <5>1. /\ journal[Asked(c).winner] \in JournalRow
              /\ journal'[Asked(c).winner] = [journal[Asked(c).winner] EXCEPT !.status = "confirmed"]
          BY <1>0, <3>1, <3>3 DEF TypeOK
        <5> QED BY <4>1, <5>1 DEF JournalRow
      <4> QED BY <3>1, <3>3, <4>2, ReplyShape
    <3> QED BY <2>5, <3>2, <3>3 DEF Confirmed, Unconfirmed, Mark
  <2> QED BY <1>5, <2>1, <2>2, <2>3, <2>4, <2>5 DEF Signer
<1> QED BY <1>0, <1>1, <1>2, <1>3, <1>4, <1>5, WhoAsks

-----------------------------------------------------------------------------
(* Records.                                                                *)

\* A row that stays as it was still follows; so does one that is neither paid nor failed.
LEMMA FollowingKeeps ==
  ASSUME Inductive, [Next]_vars, NEW w \in Winner, row'[w] = row[w]
  PROVE  RowFollows(w)'
<1>0. RowFollows(w) /\ Keeps /\ JournalIsTrue
  BY JournalKeeps DEF Inductive, RecordsFollow
<1>1. row[w].status = "paid" => journal'[w].status = "confirmed" /\ journal'[w].terms.id = row[w].id
  BY <1>0 DEF RowFollows, ConfirmedAs, Keeps
<1>2. row[w].status = "failed" => journal'[w].status = "failed_unsent"
  BY <1>0 DEF RowFollows, FailedUnsent, Keeps
<1> QED BY <1>0, <1>1, <1>2 DEF RowFollows, ConfirmedAs, FailedUnsent

\* A row that an update touched follows, if its new status does.
LEMMA UpdatedFollows ==
  ASSUME Inductive, [Next]_vars, NEW t \in Terms, NEW status \in Statuses \ {"none"}, Updates(t, status),
         status = "paid" => ConfirmedAs(t), status = "failed" => FailedUnsent(t.winner)
  PROVE  \A w \in Winner : RowFollows(w)'
<1> SUFFICES ASSUME NEW w \in Winner PROVE RowFollows(w)'
  OBVIOUS
<1>0. RowFollows(w) /\ Keeps /\ JournalIsTrue
  BY JournalKeeps DEF Inductive, RecordsFollow
<1>1. CASE row'[w] = row[w]
  BY <1>1, FollowingKeeps
<1>2. CASE /\ w = t.winner /\ HasRow(t) /\ row'[w].status = status
           /\ row'[w].id = row[w].id /\ row'[w].statement = row[w].statement
  <2>1. row[w].id = t.id /\ t.id \in Statement
    BY <1>2, FieldsOfTerms DEF HasRow
  <2>2. row[w].status # "none"
    BY <1>0, <2>1 DEF RowFollows, NoRow
  <2>3. row'[w].id \in Statement /\ row'[w].statement \in Statement /\ row'[w].status # "none"
    BY <1>0, <1>2, <2>1, <2>2 DEF RowFollows
  <2>4. status = "paid" => ConfirmedAs([winner |-> w, id |-> row[w].id])'
    <3>1. status = "paid" => journal'[w].status = "confirmed" /\ journal'[w].terms.id = row'[w].id
      BY <1>0, <1>2, <2>1 DEF Keeps, ConfirmedAs
    <3> QED BY <3>1 DEF ConfirmedAs
  <2>5. status = "failed" => FailedUnsent(w)'
    BY <1>0, <1>2 DEF Keeps, FailedUnsent
  <2> QED BY <1>2, <2>3, <2>4, <2>5 DEF RowFollows
<1> QED BY <1>1, <1>2 DEF Updates

\* One that the update leaves neither paid nor failed has nothing to follow.
LEMMA OpenFollows ==
  ASSUME NEW w \in Winner, row'[w].status \notin {"none", "paid", "failed"}, row'[w].id \in Statement, row'[w].statement \in Statement
  PROVE  RowFollows(w)'
  BY DEF RowFollows

\* Who writes the agent's rows and the ledger.
LEMMA WhoRecords ==
  ASSUME [Next]_vars
  PROVE  \/ UNCHANGED <<row, ledger>>
         \/ \E c \in Call : Claim(c) \/ Answered(c)
         \/ ReconcileWrite \/ RefreshWallets \/ RefreezeWrite
         \/ \E w \in Winner : Forget(w)
         \/ \E s \in Statement : Import(s)
<1>1. ASSUME NEW c \in Call, LoseAnswer(c) \/ Signer(c) PROVE UNCHANGED <<row, ledger>>
  BY <1>1 DEF LoseAnswer, Signer, Refuse, Check, Reserve, Broadcast, Confirmed, Unconfirmed, Outside
<1>2. ASSUME NEW w \in Winner, NEW a \in Approval, Sign(a, w) PROVE UNCHANGED <<row, ledger>>
  BY <1>2 DEF Sign
<1>3. ASSUME NEW c \in Call, NEW a \in Approval, Approve(c, a) PROVE UNCHANGED <<row, ledger>>
  BY <1>3 DEF Approve
<1>4. ASSUME NEW w \in Winner, ReconcileRead(w) \/ RefreezeRead(w) \/ Resolve(w) \/ (\E x \in Wallet : Link(w, x)) \/ Chain(w)
      PROVE  UNCHANGED <<row, ledger>>
  BY <1>4 DEF ReconcileRead, RefreezeRead, Resolve, Link, Chain
<1>5. CASE AgentCrash \/ SignerCrash
  BY <1>5 DEF AgentCrash, SignerCrash
<1>6. CASE UNCHANGED vars
  BY <1>6 DEF vars
<1> QED BY <1>1, <1>2, <1>3, <1>4, <1>5, <1>6 DEF Next, Agent, Poll, People, World

\* An answer, and what reconcile writes, update the row and the ledger as the journal says.
LEMMA AnsweredUpdates ==
  ASSUME Inductive, NEW c \in Call, Answered(c)
  PROVE  /\ Approved(c) \in Terms
         /\ \/ MarkPaid(Approved(c)) /\ ConfirmedAs(Approved(c))
            \/ \E status \in {"awaiting_approval", "unknown"} : SetStatus(Approved(c), status) /\ UNCHANGED ledger
<1>1. call[c].at = "answered" /\ ShapeOf(c)
  BY DEF Answered, Inductive, RequestShape
<1> QED BY <1>1 DEF Answered, ShapeOf, Approved

LEMMA ReconciledUpdates ==
  ASSUME Inductive, ReconcileWrite
  PROVE  /\ rec.terms \in Terms
         /\ \/ MarkPaid(rec.terms) /\ ConfirmedAs(rec.terms)
            \/ SetStatus(rec.terms, "failed") /\ FailedUnsent(rec.terms.winner) /\ UNCHANGED ledger
            \/ \E status \in {"awaiting_approval", "unknown"} : SetStatus(rec.terms, status) /\ UNCHANGED ledger
            \/ UNCHANGED <<row, ledger>>
<1>1. rec.at \in {"paid", "unknown", "awaiting_approval", "failed"} /\ RecFollows
  BY DEF ReconcileWrite, Inductive, TypeOK, RecState, RecordsFollow
<1>2. CASE rec.at = "paid"
  BY <1>1, <1>2 DEF ReconcileWrite, RecFollows
<1>3. CASE rec.at = "unknown"
  BY <1>1, <1>3 DEF ReconcileWrite, RecFollows
<1>4. CASE rec.at \in {"awaiting_approval", "failed"}
  BY <1>1, <1>4 DEF ReconcileWrite, RecFollows
<1> QED BY <1>1, <1>2, <1>3, <1>4

LEMMA RowsStep ==
  ASSUME Inductive, [Next]_vars
  PROVE  \A w \in Winner : RowFollows(w)'
<1>0. TypeOK /\ row \in [Winner -> Row] /\ \A w \in Winner : RowFollows(w)
  BY DEF Inductive, TypeOK, RecordsFollow
<1>a. {"submitted", "awaiting_approval", "unknown", "paid", "failed"} \subseteq Statuses \ {"none"}
  BY DEF Statuses, InFlight, Unpaid
<1>1. CASE UNCHANGED <<row, ledger>>
  BY <1>1, FollowingKeeps
<1>2. ASSUME NEW t \in Terms, NEW status \in {"submitted", "awaiting_approval", "unknown", "failed"}, SetStatus(t, status),
             status = "failed" => FailedUnsent(t.winner)
      PROVE  \A w \in Winner : RowFollows(w)'
  <2>1. Updates(t, status) /\ status \in Statuses \ {"none"} /\ status # "paid"
    BY <1>0, <1>a, <1>2, SetStatusUpdates
  <2> QED BY <1>2, <2>1, UpdatedFollows
<1>3. ASSUME NEW t \in Terms, MarkPaid(t), ConfirmedAs(t)
      PROVE  \A w \in Winner : RowFollows(w)'
  <2>1. Updates(t, "paid")
    BY <1>0, <1>3, MarkPaidUpdates
  <2> QED BY <1>a, <1>3, <2>1, UpdatedFollows
<1>4. ASSUME NEW c \in Call, Claim(c) PROVE \A w \in Winner : RowFollows(w)'
  <2>1. Approved(c) \in Terms
    BY <1>4 DEF Claim, Inductive, RequestShape, ShapeOf, Approved
  <2>2. SetStatus(Approved(c), "submitted") \/ UNCHANGED <<row, ledger>>
    BY <1>4 DEF Claim
  <2> QED BY <1>1, <1>2, <2>1, <2>2
<1>5. ASSUME NEW c \in Call, Answered(c) PROVE \A w \in Winner : RowFollows(w)'
  BY <1>2, <1>3, <1>5, AnsweredUpdates
<1>6. CASE ReconcileWrite
  BY <1>1, <1>2, <1>3, <1>6, ReconciledUpdates
<1>7. CASE RefreshWallets
  <2>1. ASSUME NEW w \in Winner PROVE RowFollows(w)'
    <3>1. CASE row'[w] = row[w]
      BY <3>1, FollowingKeeps
    <3>2. CASE row[w].status = "awaiting_wallet" /\ row'[w] = [row[w] EXCEPT !.status = "awaiting_approval", !.recipient = link[w]]
      <4>1. row[w] \in Row /\ row[w].id \in Statement /\ row[w].statement \in Statement
        BY <1>0, <3>2 DEF RowFollows
      <4>2. row'[w].status = "awaiting_approval" /\ row'[w].id = row[w].id /\ row'[w].statement = row[w].statement
        BY <3>2, <4>1 DEF Row
      <4> QED BY <4>1, <4>2, OpenFollows
    <3> QED BY <1>7, <3>1, <3>2 DEF RefreshWallets
  <2> QED BY <2>1
<1>8. CASE RefreezeWrite
  <2>0. frz.winner \in Winner
    BY <1>8 DEF RefreezeWrite, Inductive, RecordsFollow
  <2>1. ASSUME NEW w \in Winner PROVE RowFollows(w)'
    <3>1. CASE row'[w] = row[w]
      BY <3>1, FollowingKeeps
    <3>2. CASE /\ row[w] # NoRow
               /\ row'[w] = [row[w] EXCEPT !.recipient = frz.wallet,
                               !.status = IF frz.wallet = NoWallet THEN "awaiting_wallet" ELSE "awaiting_approval"]
      <4>1. row[w] \in Row /\ row[w].id \in Statement /\ row[w].statement \in Statement
        BY <1>0, <3>2 DEF RowFollows
      <4>2. /\ row'[w].status \in {"awaiting_wallet", "awaiting_approval"}
            /\ row'[w].id = row[w].id /\ row'[w].statement = row[w].statement
        BY <3>2, <4>1 DEF Row
      <4> QED BY <4>1, <4>2, OpenFollows
    <3> QED BY <1>0, <1>8, <2>0, <3>1, <3>2 DEF RefreezeWrite
  <2> QED BY <2>1
<1>9. ASSUME NEW v \in Winner, Forget(v) PROVE \A w \in Winner : RowFollows(w)'
  <2>1. ASSUME NEW w \in Winner PROVE RowFollows(w)'
    <3>1. CASE row'[w] = row[w]
      BY <3>1, FollowingKeeps
    <3>2. CASE row'[w] = NoRow
      BY <3>2 DEF RowFollows, NoRow
    <3> QED BY <1>0, <1>9, <3>1, <3>2 DEF Forget
  <2> QED BY <2>1
<1>10. ASSUME NEW s \in Statement, Import(s) PROVE \A w \in Winner : RowFollows(w)'
  <2>1. ASSUME NEW w \in Winner PROVE RowFollows(w)'
    <3>0. row[w] \in Row /\ RowFollows(w)
      BY <1>0
    <3>1. CASE row'[w] = row[w]
      BY <3>1, FollowingKeeps
    <3>2. CASE row'[w] = Listed(s, w)
      <4>1. row'[w].id \in Statement
        <5>1. CASE row[w] = NoRow
          BY <1>0, <3>2, <5>1, ListedIsRow
        <5>2. CASE row[w] # NoRow
          BY <1>0, <3>0, <3>2, <5>2, ListedIsRow DEF RowFollows
        <5> QED BY <5>1, <5>2
      <4>2. row'[w].statement = s /\ row'[w].status \in {"held_kyc", "awaiting_wallet", "awaiting_approval"}
        BY <1>0, <3>2, ListedIsRow
      <4> QED BY <4>1, <4>2, OpenFollows
    <3>3. CASE row[w].status \in Unpaid /\ row'[w] = [row[w] EXCEPT !.status = "removed", !.statement = s, !.recipient = NoWallet]
      <4>1. row[w].id \in Statement
        BY <3>0, <3>3 DEF RowFollows, Unpaid
      <4>2. row'[w].status = "removed" /\ row'[w].id = row[w].id /\ row'[w].statement = s
        BY <3>0, <3>3 DEF Row
      <4> QED BY <4>1, <4>2, OpenFollows
    <3>4. \/ row'[w] = Listed(s, w)
          \/ row[w].status \in Unpaid /\ row'[w] = [row[w] EXCEPT !.status = "removed", !.statement = s, !.recipient = NoWallet]
          \/ row'[w] = row[w]
      <4> DEFINE gone == [row[w] EXCEPT !.status = "removed", !.statement = s, !.recipient = NoWallet]
      <4>1. row'[w] = CASE Lines[s][w].amount > 0 /\ row[w].status \in Unpaid \cup {"none"} -> Listed(s, w)
                       [] Lines[s][w].amount = 0 /\ row[w].status \in Unpaid \ {"removed"} -> gone
                       [] OTHER -> row[w]
        BY <1>10 DEF Import
      <4> HIDE DEF gone
      <4>2. row'[w] = Listed(s, w) \/ (row[w].status \in Unpaid /\ row'[w] = gone) \/ row'[w] = row[w]
        BY <4>1
      <4> QED BY <4>2 DEF gone
    <3> QED BY <3>1, <3>2, <3>3, <3>4
  <2> QED BY <2>1
<1> QED BY <1>1, <1>4, <1>5, <1>6, <1>7, <1>8, <1>9, <1>10, WhoRecords

LEMMA LedgerStep ==
  ASSUME Inductive, [Next]_vars
  PROVE  \A l \in ledger' : ConfirmedAs(l)'
<1>0. /\ TypeOK /\ Keeps /\ ledger \subseteq Entry /\ row \in [Winner -> Row]
      /\ \A l \in ledger : ConfirmedAs(l)
  BY JournalKeeps DEF Inductive, TypeOK, RecordsFollow
<1>1. ASSUME NEW l \in ledger PROVE journal'[l.winner].status = "confirmed" /\ journal'[l.winner].terms.id = l.id
  <2>1. l.winner \in Winner
    BY <1>0 DEF Entry
  <2> QED BY <1>0, <2>1 DEF ConfirmedAs, Keeps
<1>2. CASE UNCHANGED ledger
  BY <1>1, <1>2 DEF ConfirmedAs
<1>3. ASSUME NEW t \in Terms, MarkPaid(t), ConfirmedAs(t) PROVE \A l \in ledger' : ConfirmedAs(l)'
  <2>1. ledger' \subseteq ledger \cup {[winner |-> t.winner, id |-> t.id, amount |-> t.amount]}
    BY <1>0, <1>3, MarkPaidUpdates
  <2>2. journal'[t.winner].status = "confirmed" /\ journal'[t.winner].terms.id = t.id
    BY <1>0, <1>3, FieldsOfTerms DEF ConfirmedAs, Keeps
  <2>3. ASSUME NEW l \in ledger' PROVE journal'[l.winner].status = "confirmed" /\ journal'[l.winner].terms.id = l.id
    BY <1>1, <2>1, <2>2
  <2> QED BY <2>3 DEF ConfirmedAs
<1>4. ASSUME NEW c \in Call, Answered(c) PROVE \A l \in ledger' : ConfirmedAs(l)'
  BY <1>2, <1>3, <1>4, AnsweredUpdates
<1>5. CASE ReconcileWrite
  BY <1>2, <1>3, <1>5, ReconciledUpdates
<1>6. ASSUME NEW c \in Call, Claim(c) PROVE UNCHANGED ledger
  BY <1>6 DEF Claim
<1>7. ASSUME NEW w \in Winner, Forget(w) PROVE UNCHANGED ledger
  BY <1>7 DEF Forget
<1>8. ASSUME NEW s \in Statement, Import(s) PROVE UNCHANGED ledger
  BY <1>8 DEF Import
<1>9. CASE RefreshWallets \/ RefreezeWrite
  BY <1>2, <1>9 DEF RefreshWallets, RefreezeWrite
<1> QED BY <1>2, <1>4, <1>5, <1>6, <1>7, <1>8, <1>9, WhoRecords

\* Who writes what reconcile and refreeze are in the middle of.
LEMMA WhoIsMidway ==
  ASSUME TypeOK, [Next]_vars
  PROVE  /\ rec' \in {rec, NoRec} \/ \E w \in Winner : ReconcileRead(w)
         /\ frz' \in {frz, NoFrz} \/ \E w \in Winner : RefreezeRead(w)
<1>1. ASSUME NEW c \in Call, Agent(c) \/ Signer(c) PROVE UNCHANGED <<rec, frz>>
  BY <1>1 DEF Agent, Claim, Answered, LoseAnswer, Signer, Refuse, Check, Reserve, Broadcast, Confirmed, Unconfirmed, Outside
<1>2. ASSUME NEW w \in Winner, NEW a \in Approval, Sign(a, w) PROVE UNCHANGED <<rec, frz>>
  BY <1>2 DEF Sign
<1>3. ASSUME NEW c \in Call, NEW a \in Approval, Approve(c, a) PROVE UNCHANGED <<rec, frz>>
  BY <1>3 DEF Approve
<1>4. ASSUME NEW w \in Winner, Resolve(w) \/ (\E x \in Wallet : Link(w, x)) \/ Chain(w) \/ Forget(w)
      PROVE  UNCHANGED <<rec, frz>>
  BY <1>4 DEF Resolve, Link, Chain, Forget
<1>5. CASE AgentCrash \/ SignerCrash \/ ReconcileWrite \/ RefreezeWrite \/ RefreshWallets
  BY <1>5 DEF AgentCrash, SignerCrash, ReconcileWrite, RefreezeWrite, RefreshWallets
<1>6. ASSUME NEW s \in Statement, Import(s) PROVE UNCHANGED <<rec, frz>>
  BY <1>6 DEF Import
<1>7. CASE UNCHANGED vars
  BY <1>7 DEF vars
<1>8. ASSUME NEW w \in Winner, ReconcileRead(w) PROVE UNCHANGED frz
  BY <1>8 DEF ReconcileRead
<1>9. ASSUME NEW w \in Winner, RefreezeRead(w) PROVE UNCHANGED rec
  BY <1>9 DEF RefreezeRead
<1> QED BY <1>1, <1>2, <1>3, <1>4, <1>5, <1>6, <1>7, <1>8, <1>9 DEF Next, Poll, People, World

\* What reconcile and refreeze read stays true until they write.
LEMMA MidwayStep ==
  ASSUME Inductive, [Next]_vars
  PROVE  RecFollows' /\ (frz'.at = "read" => frz'.winner \in Winner)
<1>0. TypeOK /\ JournalIsTrue /\ RecFollows /\ Keeps /\ (frz.at = "read" => frz.winner \in Winner)
  BY JournalKeeps DEF Inductive, RecordsFollow
<1>1. ASSUME rec' = rec PROVE RecFollows'
  <2>1. rec.at # "idle" => rec.terms \in Terms /\ rec.terms.winner \in Winner
    BY <1>0, FieldsOfTerms DEF RecFollows
  <2>2. rec.at = "paid" => journal'[rec.terms.winner].status = "confirmed" /\ journal'[rec.terms.winner].terms.id = rec.terms.id
    BY <1>0, <2>1 DEF RecFollows, ConfirmedAs, Keeps
  <2>3. rec.at = "failed" => journal'[rec.terms.winner].status = "failed_unsent"
    BY <1>0, <2>1 DEF RecFollows, FailedUnsent, Keeps
  <2>4. RecFollows'
    BY <1>1, <2>1, <2>2, <2>3 DEF RecFollows, ConfirmedAs, FailedUnsent
  <2> QED BY <2>4
<1>2. ASSUME rec' = NoRec PROVE RecFollows'
  BY <1>2 DEF RecFollows, NoRec
<1>3. ASSUME NEW w \in Winner, ReconcileRead(w) PROVE RecFollows'
  <2>1. rec' = [at |-> Verdict(w), terms |-> TermsFor(w)] /\ UNCHANGED journal
    BY <1>3 DEF ReconcileRead
  <2>2. TermsFor(w).winner = w /\ TermsFor(w).id = row[w].id
    BY DEF TermsFor
  <2>3. Verdict(w) = "paid" => journal[w].status = "confirmed" /\ journal[w].terms.id = row[w].id
    BY DEF Verdict
  <2>4. Verdict(w) = "failed" => journal[w].status = "failed_unsent"
    BY DEF Verdict
  <2>5. TermsFor(w) \in Terms
    BY <1>0, <1>3 DEF ReconcileRead, TermsFor, Terms, TypeOK, Row, Inductive, RecordsFollow, RowFollows, InFlight
  <2> QED BY <2>1, <2>2, <2>3, <2>4, <2>5 DEF RecFollows, ConfirmedAs, FailedUnsent
<1>4. frz'.at = "read" => frz'.winner \in Winner
  <2>1. ASSUME NEW w \in Winner, RefreezeRead(w) PROVE frz'.winner \in Winner
    BY <2>1 DEF RefreezeRead
  <2>2. frz' = NoFrz => frz'.at = "idle"
    BY DEF NoFrz
  <2> QED BY <1>0, <2>1, <2>2, WhoIsMidway
<1> QED BY <1>0, <1>1, <1>2, <1>3, <1>4, WhoIsMidway

-----------------------------------------------------------------------------
(* The ceiling of the event.                                               *)

\* Without a new row, what counts and what is paid can only become less; with one,
\* reserve has counted it in.
LEMMA CeilingStep ==
  ASSUME Inductive, [Next]_vars, TypeOK', JournalIsTrue'
  PROVE  (Committed <= EventMax)'
<1>0. TypeOK /\ JournalIsTrue /\ Keeps /\ Committed <= EventMax
  BY JournalKeeps DEF Inductive
<1> DEFINE counted == {w \in Winner : Counted(w)}
           units   == Units(counted)
<1>1. IsFiniteSet(units) /\ Cardinality(units) \in Nat /\ Cardinality(units) <= EventMax
  BY <1>0, UnitsFinite, FS_CardinalityType DEF Committed
<1>2. CASE \A w \in Winner : journal[w].status = "none" => journal'[w].status = "none"
  <2>1. counted' \subseteq counted /\ \A w \in counted' : journal'[w].terms = journal[w].terms
    BY <1>0, <1>2 DEF Counted, Keeps
  <2>2. units' \subseteq units
    BY <2>1 DEF Units
  <2>3. Cardinality(units') <= Cardinality(units)
    BY <1>1, <2>2, FS_Subset
  <2>4. IsFiniteSet(units') /\ Cardinality(units') \in Nat
    BY <1>1, <2>2, FS_Subset, FS_CardinalityType
  <2> QED BY <1>1, <2>3, <2>4 DEF Committed
<1>3. ASSUME NEW c \in Call, Reserve(c), JournalRefuses(Asked(c)) = "no" PROVE Committed' <= EventMax
  <2> DEFINE t     == Asked(c)
             added == {t.winner} \X (1 .. t.amount)
  <2>1. t \in Terms /\ t.winner \in Winner /\ t.amount \in Nat /\ Committed + t.amount <= EventMax
    BY <1>3, ReserveIsFresh, FieldsOfTerms
  <2>2. PICK status \in {"sent", "reserved"} :
          journal' = [journal EXCEPT ![t.winner] = [status |-> status, terms |-> t, approval |-> work[c].approval]]
    BY <1>3, ReserveIsFresh
  <2>3. units' \subseteq units \cup added
    <3>1. ASSUME NEW w \in Winner, w # t.winner PROVE journal'[w] = journal[w]
      BY <1>0, <2>2, <3>1 DEF TypeOK
    <3>2. journal'[t.winner].terms = t
      BY <1>0, <2>1, <2>2 DEF TypeOK
    <3>3. counted' \subseteq counted \cup {t.winner}
      BY <3>1 DEF Counted
    <3> QED BY <3>1, <3>2, <3>3 DEF Units
  <2>4. IsFiniteSet(added) /\ Cardinality(added) = t.amount
    <3>1. IsFiniteSet(1 .. t.amount) /\ Cardinality(1 .. t.amount) = t.amount
      <4>1. 1 \in Int /\ t.amount \in Int
        BY <2>1
      <4>2. IsFiniteSet(1 .. t.amount) /\ Cardinality(1 .. t.amount) = IF 1 > t.amount THEN 0 ELSE t.amount - 1 + 1
        BY <4>1, FS_Interval
      <4> QED BY <2>1, <4>2
    <3>2. IsFiniteSet({t.winner}) /\ Cardinality({t.winner}) = 1
      BY FS_Singleton
    <3>3. IsFiniteSet(added) /\ Cardinality(added) = Cardinality({t.winner}) * Cardinality(1 .. t.amount)
      BY <3>1, <3>2, FS_Product
    <3> QED BY <2>1, <3>1, <3>2, <3>3
  <2>5. IsFiniteSet(units \cup added) /\ Cardinality(units \cup added) <= Cardinality(units) + t.amount
    <3>1. IsFiniteSet(units \cup added)
          /\ Cardinality(units \cup added) = Cardinality(units) + Cardinality(added) - Cardinality(units \cap added)
      BY <1>1, <2>4, FS_Union
    <3>2. Cardinality(units \cap added) \in Nat
      BY <1>1, FS_Intersection, FS_CardinalityType
    <3> QED BY <1>1, <2>1, <2>4, <3>1, <3>2
  <2>6. IsFiniteSet(units') /\ Cardinality(units') <= Cardinality(units \cup added) /\ Cardinality(units') \in Nat
    BY <2>3, <2>5, FS_Subset, FS_CardinalityType
  <2>7. Cardinality(units \cup added) \in Nat /\ Committed = Cardinality(units) /\ Committed' = Cardinality(units')
    BY <2>5, FS_CardinalityType DEF Committed
  <2> HIDE DEF units, added, t
  <2> QED BY <1>1, <2>1, <2>5, <2>6, <2>7
<1>4. ASSUME NEW c \in Call, Reserve(c), JournalRefuses(Asked(c)) # "no" PROVE UNCHANGED journal
  BY <1>4 DEF Reserve
<1>5. ASSUME NEW c \in Call, Broadcast(c) PROVE UNCHANGED journal
  BY <1>5 DEF Broadcast
<1>6. ASSUME NEW w \in Winner, NEW status, journal[w].status # "none", journal' = [journal EXCEPT ![w].status = status]
      PROVE  \A v \in Winner : journal[v].status = "none" => journal'[v].status = "none"
  BY <1>0, <1>6 DEF TypeOK
<1>7. ASSUME NEW c \in Call, Confirmed(c) \/ Unconfirmed(c)
      PROVE  \A v \in Winner : journal[v].status = "none" => journal'[v].status = "none"
  <2>1. Asked(c).winner \in Winner
    BY <1>7, FieldsOfTerms DEF Confirmed, Unconfirmed, Inductive, RequestShape, ShapeOf, Asked
  <2> QED BY <1>6, <1>7, <2>1 DEF Confirmed, Unconfirmed, Mark
<1>8. ASSUME NEW w \in Winner, Resolve(w)
      PROVE  \A v \in Winner : journal[v].status = "none" => journal'[v].status = "none"
  BY <1>6, <1>8 DEF Resolve
<1>9. ASSUME NEW w \in Winner, NEW a \in Approval, Chain(w) \/ Sign(a, w) PROVE UNCHANGED journal
  BY <1>9 DEF Chain, Sign
<1>10. ASSUME NEW w \in Winner, Chain(w) PROVE UNCHANGED journal
  BY <1>10 DEF Chain
<1>11. UNCHANGED journal => \A v \in Winner : journal[v].status = "none" => journal'[v].status = "none"
  OBVIOUS
<1> QED BY <1>2, <1>3, <1>4, <1>5, <1>7, <1>8, <1>9, <1>10, <1>11, WhoWrites

-----------------------------------------------------------------------------
(* Theorems.                                                               *)

LEMMA InitInductive == Init => Inductive
<1> SUFFICES ASSUME Init PROVE Inductive
  OBVIOUS
<1>1. TypeOK
  <2>1. NoRow \in Row /\ Unrecorded \in JournalRow
    BY DEF NoRow, Row, Unpaid, InFlight, Unrecorded, JournalRow
  <2>2. Idle \in CallState /\ Idle \in WorkState
    BY DEF Idle, CallState, WorkState
  <2>3. NoRec \in RecState /\ NoFrz \in FrzState
    BY DEF NoRec, RecState, NoFrz, FrzState
  <2> QED BY <2>1, <2>2, <2>3 DEF Init, TypeOK
<1>2. JournalIsTrue
  BY DEF Init, JournalIsTrue, TrueOf, Unrecorded
<1>3. RecordsFollow
  BY DEF Init, RecordsFollow, RowFollows, RecFollows, NoRow, NoRec, NoFrz
<1>4. RequestShape
  BY DEF Init, RequestShape, ShapeOf, Idle
<1>5. Committed <= EventMax
  <2>1. {w \in Winner : Counted(w)} = {}
    BY DEF Init, Counted, Unrecorded
  <2>2. Units({w \in Winner : Counted(w)}) = {}
    BY <2>1 DEF Units
  <2>3. Cardinality({}) = 0
    BY FS_EmptySet
  <2>4. Committed = 0
    BY <2>2, <2>3 DEF Committed
  <2> QED BY <2>4, GrainHackConstants
<1> QED BY <1>1, <1>2, <1>3, <1>4, <1>5 DEF Inductive

\* The inductive invariant: the types; the journal is true of the chain; rows, ledger
\* and what is under way follow the journal; requests stand where the journal says; and
\* what counts against the event's ceiling is within it.
THEOREM InductiveHolds == Spec => []Inductive
<1>1. Inductive /\ [Next]_vars => Inductive'
  <2> SUFFICES ASSUME Inductive, [Next]_vars PROVE Inductive'
    OBVIOUS
  <2>1. TypeOK' /\ JournalIsTrue' /\ RequestShape'
    BY TypeStep, TrueStep, ShapeStep
  <2>2. RecordsFollow'
    BY RowsStep, LedgerStep, MidwayStep DEF RecordsFollow
  <2> QED BY <2>1, <2>2, CeilingStep DEF Inductive
<1> QED BY InitInductive, <1>1, PTL DEF Spec

\* However requests, statements, crashes and people interleave, no winner is paid twice.
THEOREM NoWinnerPaidTwice == Spec => []PaidOnce
<1>1. Inductive => PaidOnce
  BY DEF Inductive, JournalIsTrue, TrueOf, PaidOnce
<1> QED BY <1>1, InductiveHolds, PTL

\* What the agent shows as paid or failed, and what a person resolved as never sent, is
\* what happened on the chain; the public page shows a payment once.
THEOREM RecordsTrue == Spec => []RecordsAreTrue
<1>1. Inductive => RecordsAreTrue
  <2> SUFFICES ASSUME Inductive PROVE RecordsAreTrue
    OBVIOUS
  <2>0. TypeOK /\ JournalIsTrue /\ (\A w \in Winner : RowFollows(w)) /\ \A l \in ledger : ConfirmedAs(l)
    BY DEF Inductive, RecordsFollow
  <2>1. \A w \in Winner : journal[w].status = "confirmed" => paid[w] = 1
    BY <2>0 DEF JournalIsTrue, TrueOf
  <2>2. \A l \in ledger : l \in Entry /\ l.winner \in Winner /\ journal[l.winner].status = "confirmed"
    BY <2>0 DEF TypeOK, Entry, ConfirmedAs
  <2>3. \A w \in Winner : row[w].status = "paid" => journal[w].status = "confirmed" /\ journal[w].terms.id = row[w].id
    BY <2>0 DEF RowFollows, ConfirmedAs
  <2> DEFINE listed == {w \in Winner : row[w].status \notin {"none", "removed"}}
             OnRow(w) == [winner |-> w, status |-> PublicStatus(row[w].status), from |-> "row"]
             OnLedger(l) == [winner |-> l.winner, status |-> "paid", from |-> "ledger"]
  <2>4. ASSUME NEW p \in PublicWinners, p.status = "paid"
        PROVE  \/ p.winner \in listed /\ p = OnRow(p.winner) /\ row[p.winner].status = "paid"
               \/ \E l \in ledger : p = OnLedger(l) /\ p.winner = l.winner /\ (l.winner \notin listed \/ row[l.winner].id # l.id)
    <3>1. CASE \E w \in listed : p = OnRow(w)
      <4>1. PICK w \in listed : p = OnRow(w)
        BY <3>1
      <4>2. PublicStatus(row[w].status) = "paid" => row[w].status = "paid"
        BY DEF PublicStatus, InFlight
      <4> QED BY <2>4, <4>1, <4>2
    <3>2. CASE \E l \in ledger : p = OnLedger(l) /\ (l.winner \notin listed \/ row[l.winner].id # l.id)
      BY <3>2
    <3> QED BY <2>4, <3>1, <3>2 DEF PublicWinners
  <2>5. ASSUME NEW p \in PublicWinners, p.status = "paid" PROVE paid[p.winner] = 1
    BY <2>1, <2>2, <2>3, <2>4, <2>5
  <2>6. ASSUME NEW p \in PublicWinners, NEW q \in PublicWinners, p.winner = q.winner, p.status = "paid", q.status = "paid"
        PROVE  p = q
    <3>1. \A l \in ledger : ~(l.winner \in listed /\ row[l.winner].status = "paid" /\ (l.winner \notin listed \/ row[l.winner].id # l.id))
      BY <2>0, <2>2, <2>3 DEF ConfirmedAs
    <3> DEFINE FromRow(r) == r.winner \in listed /\ r = OnRow(r.winner) /\ row[r.winner].status = "paid"
               FromLedger(r) == \E l \in ledger : r = OnLedger(l) /\ r.winner = l.winner /\ (l.winner \notin listed \/ row[l.winner].id # l.id)
    <3>2. (FromRow(p) \/ FromLedger(p)) /\ (FromRow(q) \/ FromLedger(q))
      BY <2>4, <2>6
    <3>3. ASSUME FromLedger(p), FromLedger(q) PROVE p = q
      BY <2>6, <3>3
    <3>4. ASSUME FromRow(p), FromRow(q) PROVE p = q
      BY <2>6, <3>4
    <3>5. ~(FromRow(p) /\ FromLedger(q)) /\ ~(FromLedger(p) /\ FromRow(q))
      BY <2>6, <3>1
    <3> HIDE DEF FromRow, FromLedger
    <3> QED BY <3>2, <3>3, <3>4, <3>5
  <2>7. \A l \in ledger : paid[l.winner] = 1
    BY <2>1, <2>2
  <2>8. ASSUME NEW w \in Winner, row[w].status = "failed" \/ journal[w].status = "failed_unsent"
        PROVE  paid[w] = 0 /\ tx[w] \in {"failed", "expired"}
    BY <2>0, <2>8 DEF RowFollows, FailedUnsent, JournalIsTrue, TrueOf
  <2> QED BY <2>5, <2>6, <2>7, <2>8 DEF RecordsAreTrue
<1> QED BY <1>1, InductiveHolds, PTL

\* However many approvals are under way at once, under whichever statements, the event
\* pays no more than its ceiling.
THEOREM EventWithinCeiling == Spec => []WithinEvent
<1>1. Inductive => WithinEvent
  <2> SUFFICES ASSUME Inductive PROVE WithinEvent
    OBVIOUS
  <2> DEFINE counted == {w \in Winner : Counted(w)}
             got     == {w \in Winner : paid[w] > 0}
  <2>1. got \subseteq counted
    BY DEF Inductive, JournalIsTrue, TrueOf, Counted
  <2>2. Units(got) \subseteq Units(counted)
    BY <2>1 DEF Units
  <2>3. IsFiniteSet(Units(counted))
    BY UnitsFinite DEF Inductive
  <2>4. Cardinality(Units(got)) <= Cardinality(Units(counted)) /\ Cardinality(Units(got)) \in Nat /\ Cardinality(Units(counted)) \in Nat
    BY <2>2, <2>3, FS_Subset, FS_CardinalityType
  <2>5. Cardinality(Units(counted)) <= EventMax
    BY DEF Inductive, Committed
  <2> HIDE DEF counted, got
  <2>6. Cardinality(Units(got)) <= EventMax
    BY <2>4, <2>5
  <2> QED BY <2>6 DEF WithinEvent, got
<1> QED BY <1>1, InductiveHolds, PTL
===============================================================================
