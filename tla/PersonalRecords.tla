---------------------------- MODULE PersonalRecords ----------------------------
(***************************************************************************)
(* What the agent holds about a person: wallet links, the two outboxes,    *)
(* erasure at their request, and the retention job                         *)
(* (apps/agent/src: service.ts, events.ts, event-sender.ts,                *)
(* erasure-service.ts, grainhack/backend.ts, grainhack/retention.ts).      *)
(*                                                                         *)
(* Bounties (BountyAssignment, BountyPayouts, FundedBounty) and GrainHack  *)
(* rows (GrainHack) are here by what erasure and retention ask of them.    *)
(* Postgres runs at read committed: a transaction is a step that reads and *)
(* a step that commits, and others may commit in between.  One GrainHack   *)
(* event; five years may have passed whenever it has finished paying.      *)
(***************************************************************************)
EXTENDS Naturals, FiniteSets

CONSTANTS
  Account, Wallet, NoWallet,
  Applicant, Winner, Leaver,   \* who takes bounties, who is on a GrainHack statement, who may leave
  MaxAttempts, Batch   \* of the outboxes

ASSUME PersonalRecordsConstants ==
  /\ NoWallet \notin Wallet /\ Applicant \subseteq Account /\ Winner \subseteq Account /\ Leaver \subseteq Account
  /\ MaxAttempts \in Nat \ {0} /\ Batch \in Nat \ {0}

VARIABLES
  link,              \* wallet_links, the live ones
  work,              \* the account's bounty
  row,               \* grainhack_payouts: the status, and the wallet frozen in it
  ledger,            \* grainhack_ledger
  outbox,            \* bounty_events and grainhack_reports; turn is the place by created_at
  received,          \* the reports of payments that the backend has got
  sending,           \* each sender between the answer and the stamp
  erasure,           \* account_erasures
  erasing, plan      \* the erasure, and the retention pass, between read and commit

paidVars == <<work, row, ledger>>
mailVars == <<outbox, received, sending>>
goneVars == <<erasure, erasing, plan>>
vars == <<link, paidVars, mailVars, goneVars>>

Kinds    == {"event", "link_wallet", "paid"}   \* the last two are GrainHack reports
Sender   == {"events", "reports"}
SenderOf(kind) == IF kind = "event" THEN "events" ELSE "reports"
Message  == [account : Account, kind : Kinds]

Idle   == [at |-> "idle"]
NoPlan == [at |-> "idle"]

Init ==
  /\ link = [a \in Account |-> NoWallet]
  /\ work = [a \in Account |-> "none"]
  /\ row = [a \in Account |-> [status |-> "none", recipient |-> NoWallet]] /\ ledger = {}
  /\ outbox = {} /\ received = {} /\ sending = [s \in Sender |-> Idle]
  /\ erasure = [a \in Account |-> "none"] /\ erasing = Idle /\ plan = NoPlan

Msg(a, kind) == [account |-> a, kind |-> kind]

\* enqueueEvent and enqueueReport: the dedupe key of a row that is still there.
Enqueued(box, a, kind) ==
  IF \E r \in box : r.msg = Msg(a, kind) THEN box
  ELSE box \cup {[msg |-> Msg(a, kind), turn |-> Cardinality(box) + 1, attempts |-> 0, delivered |-> FALSE]}

\* What a DELETE leaves: the places are counted among the rows that are there.
Left(box) == {[r EXCEPT !.turn = Cardinality({q \in box : q.turn <= r.turn})] : r \in box}

-----------------------------------------------------------------------------
(* Links.                                                                  *)

\* linkWalletFromSession and onIssueComment: the request is signed, in time, its nonce
\* unspent.  Two transactions for one wallet or one account are decided by the unique
\* indexes, and one for an account being erased by the contributor's row, which both hold.
Link(a, x) ==
  /\ link[a] # x /\ \A b \in Account : link[b] # x
  /\ link' = [link EXCEPT ![a] = x]
  /\ UNCHANGED <<paidVars, mailVars, goneVars>>

-----------------------------------------------------------------------------
(* Bounties and GrainHack rows, as far as they keep an account in flight.  *)

Move(a, from, to) == work[a] = from /\ work' = [work EXCEPT ![a] = to] /\ UNCHANGED <<row, ledger, received, sending>>

\* Applying wants a link; a draw; a merge; a bounty of one's own, and its escrow unsettled
\* like a payout; release or payment.
Bounty(a) ==
  /\ \/ link[a] # NoWallet /\ Move(a, "none", "applied") /\ UNCHANGED outbox
     \/ Move(a, "applied", "assigned") /\ outbox' = Enqueued(outbox, a, "event")
     \/ Move(a, "assigned", IF link[a] = NoWallet THEN "none" ELSE "unpaid") /\ UNCHANGED outbox
     \/ Move(a, "none", "unpaid") /\ UNCHANGED outbox
     \/ \E from \in {"assigned", "unpaid"} : Move(a, from, "none") /\ UNCHANGED outbox
  /\ UNCHANGED <<link, goneVars>>

Set(a, status, recipient) == row' = [row EXCEPT ![a] = [status |-> status, recipient |-> recipient]]

\* importStatement and refreshWallets: who has no wallet is asked for one.
Listed(a) ==
  /\ row[a].status \in {"none", "held", "awaiting_wallet", "awaiting_approval"}
  /\ \/ /\ row[a].status # "held" /\ Set(a, "held", NoWallet) /\ UNCHANGED outbox
     \/ IF link[a] = NoWallet
          THEN /\ row[a].status \in {"none", "held"} /\ Set(a, "awaiting_wallet", NoWallet)
               /\ outbox' = Enqueued(outbox, a, "link_wallet")
          ELSE row[a].status # "awaiting_approval" /\ Set(a, "awaiting_approval", link[a]) /\ UNCHANGED outbox
  /\ UNCHANGED <<link, work, ledger, received, sending, goneVars>>

\* approve, its outcomes and reconcile; refreeze.  The signer pays a winner once.
Settle(a) ==
  /\ \/ row[a].status = "awaiting_approval" /\ row[a].recipient = link[a] /\ Set(a, "submitted", link[a]) /\ UNCHANGED <<ledger, outbox>>
     \/ row[a].status = "awaiting_approval" /\ row[a].recipient # link[a]
        /\ Set(a, IF link[a] = NoWallet THEN "awaiting_wallet" ELSE "awaiting_approval", link[a]) /\ UNCHANGED <<ledger, outbox>>
     \/ row[a].status = "submitted" /\ a \notin ledger
        /\ \E to \in {"awaiting_approval", "failed"} : Set(a, to, row[a].recipient) /\ UNCHANGED <<ledger, outbox>>
     \/ row[a].status = "submitted" /\ a \notin ledger /\ Set(a, "paid", row[a].recipient)   \* markPaid, one transaction
        /\ ledger' = ledger \cup {a} /\ outbox' = Enqueued(outbox, a, "paid")
  /\ UNCHANGED <<link, work, received, sending, goneVars>>

-----------------------------------------------------------------------------
(* The outboxes.                                                           *)

\* mutated: what failed for good stays in the way.
Undelivered_Never(s) == {r \in outbox : SenderOf(r.msg.kind) = s /\ ~r.delivered}

Undelivered(s) == {r \in outbox : SenderOf(r.msg.kind) = s /\ ~r.delivered /\ r.attempts < MaxAttempts}

Oldest(s) == {r \in Undelivered(s) : Cardinality({q \in Undelivered(s) : q.turn < r.turn}) < Batch}

\* deliverOnce and deliverReports: one of the oldest is posted; it may arrive and the
\* answer be lost.  A report may be refused by name.
Send(s) ==
  /\ sending[s].at = "idle"
  /\ \E r \in Oldest(s), answer \in {"ok", "lost", "refused"} :
       LET m   == r.msg
           got == IF m.kind = "paid" THEN received \cup {m} ELSE received
       IN
       /\ answer = "refused" => s = "reports"
       /\ sending' = [sending EXCEPT ![s] = [at |-> answer, msg |-> m]]
       /\ received' \in CASE answer = "ok" -> {got} [] answer = "lost" -> {received, got} [] OTHER -> {received}
  /\ UNCHANGED <<outbox, link, paidVars, goneVars>>

\* An update by id of what may be gone by now.
Stamped(r, answer) ==
  CASE answer = "ok" -> [r EXCEPT !.delivered = TRUE]
    [] answer = "lost" -> [r EXCEPT !.attempts = @ + 1]
    [] OTHER -> [r EXCEPT !.attempts = MaxAttempts]

Stamp(s) ==
  /\ sending[s].at # "idle" /\ sending' = [sending EXCEPT ![s] = Idle]
  /\ outbox' = {IF r.msg = sending[s].msg /\ ~r.delivered THEN Stamped(r, sending[s].at) ELSE r : r \in outbox}
  /\ UNCHANGED <<received, link, paidVars, goneVars>>

-----------------------------------------------------------------------------
(* Erasure.                                                                *)

NeedsLink(a) == work[a] = "assigned" \/ row[a].status \in {"awaiting_approval", "submitted"}
Busy(a)      == NeedsLink(a) \/ work[a] = "unpaid"

\* eraseAccount, its reads: refused while anything is in flight, unless it has waited too long.
EraseRead(a, retain) ==
  /\ erasing = Idle /\ (Busy(a) => retain)
  /\ erasing' = [at |-> "read", account |-> a, keep |-> retain /\ NeedsLink(a), retained |-> Busy(a)]
  /\ UNCHANGED <<erasure, plan, link, paidVars, mailVars>>

\* POST /account/erase: either of the two signed actions, as often as it is delivered.
EraseRequest(a) == \E retain \in BOOLEAN : EraseRead(a, retain)

\* finishRetainedErasures.
Finish(a) == erasure[a] = "retained" /\ EraseRead(a, FALSE)

\* mutated: all of them.
GoesWith_All(m, a) == m.account = a

\* Which messages of an erased account go.
GoesWith(m, a) == m.account = a /\ m.kind # "paid"

\* mutated: what was kept once is kept on record.
EraseCommit_Keeps ==
  LET a == erasing.account IN
  /\ erasing.at = "read" /\ erasing' = Idle
  /\ link' = IF erasing.keep THEN link ELSE [link EXCEPT ![a] = NoWallet]
  /\ outbox' = Left({r \in outbox : ~GoesWith(r.msg, a)})
  /\ erasure' = [erasure EXCEPT ![a] = IF erasing.retained \/ @ = "retained" THEN "retained" ELSE "done"]
  /\ UNCHANGED <<work, row, ledger, received, sending, plan>>

\* Its deletes, and the record of them.
EraseCommit ==
  LET a == erasing.account IN
  /\ erasing.at = "read" /\ erasing' = Idle
  /\ link' = IF erasing.keep THEN link ELSE [link EXCEPT ![a] = NoWallet]
  /\ work' = IF work[a] = "applied" THEN [work EXCEPT ![a] = "none"] ELSE work
  /\ outbox' = Left({r \in outbox : ~GoesWith(r.msg, a)})
  /\ erasure' = [erasure EXCEPT ![a] = IF erasing.retained THEN "retained" ELSE "done"]
  /\ UNCHANGED <<row, ledger, received, sending, plan>>

-----------------------------------------------------------------------------
(* Retention.                                                              *)

\* mutated: reports nobody has received do not count.
Finished_Rows == \A a \in Account : row[a].status \in {"none", "held", "paid"}

\* FINISHED_EVENTS.
Finished ==
  /\ \A a \in Account : row[a].status \in {"none", "held", "paid"}
  /\ \A r \in outbox : r.msg.kind # "event" => r.delivered

\* planRetention: one snapshot.
RetentionPlan ==
  LET due == {a \in Account : erasure[a] # "none" /\ row[a].status # "none"} IN
  /\ plan = NoPlan /\ Finished /\ due # {}
  /\ plan' = [at |-> "planned", accounts |-> due, rows |-> row]
  /\ UNCHANGED <<erasure, erasing, link, paidVars, mailVars>>

\* runRetention: a row that changed since fails the pass.
RetentionAct ==
  /\ plan # NoPlan /\ plan' = NoPlan
  /\ IF \E a \in plan.accounts : row[a] # plan.rows[a] THEN UNCHANGED <<row, outbox>>
     ELSE /\ row' = [a \in Account |-> IF a \in plan.accounts THEN [status |-> "none", recipient |-> NoWallet] ELSE row[a]]
          /\ outbox' = Left({r \in outbox : ~(r.msg.account \in plan.accounts /\ r.msg.kind # "event")})
  /\ UNCHANGED <<erasure, erasing, link, work, ledger, received, sending>>

\* startRetentionJob: pass after pass.
Retention == RetentionPlan \/ RetentionAct

-----------------------------------------------------------------------------
\* Whatever is under way is rolled back; an answer not yet stamped is forgotten.
Crash ==
  /\ sending' = [s \in Sender |-> Idle] /\ erasing' = Idle /\ plan' = NoPlan
  /\ UNCHANGED <<link, paidVars, outbox, received, erasure>>

Next ==
  \/ \E a \in Account, x \in Wallet : Link(a, x)
  \/ \E a \in Applicant : Bounty(a)
  \/ \E a \in Winner : Listed(a) \/ Settle(a)
  \/ \E s \in Sender : Send(s) \/ Stamp(s)
  \/ \E a \in Leaver : EraseRequest(a)
  \/ EraseCommit \/ Retention \/ Crash

Spec == Init /\ [][Next]_vars

\* The senders and the finisher come round, and restarts do not for ever fall between the
\* same two steps.
FairSpec ==
  /\ Spec /\ SF_vars(EraseCommit)
  /\ \A s \in Sender : WF_vars(Send(s)) /\ SF_vars(Stamp(s))
  /\ \A a \in Leaver : SF_vars(Finish(a))

-----------------------------------------------------------------------------
(* Properties.                                                             *)

\* A payment on the public ledger has been reported to the backend, or its report is
\* still in the outbox, though the account was erased or its records removed.
PaymentIsReported ==
  \A a \in ledger : Msg(a, "paid") \in received \/ \E r \in outbox : r.msg = Msg(a, "paid")

\* The record of a paid winner goes only when the backend knows of the payment.
ForgottenIsKnown == \A a \in ledger : row[a].status # "paid" => Msg(a, "paid") \in received

\* A message is not stuck behind those that cannot be delivered: it arrives, is given up
\* after its own attempts, or goes with its account.
NoneIsBlocked ==
  \A m \in Message : (\E r \in outbox : r.msg = m /\ ~r.delivered) ~>
    \A r \in outbox : r.msg = m => r.delivered \/ r.attempts = MaxAttempts

\* An erasure that kept something for work in flight is finished once nothing is.
ErasureFinishes == \A a \in Account : <>[]~Busy(a) => []<>(erasure[a] # "retained")

-----------------------------------------------------------------------------
(* What holds whatever is under way: the inductive invariant.              *)

OutboxRow == [msg : Message, turn : Nat, attempts : Nat, delivered : BOOLEAN]
Winnings  == [status : {"none", "held", "awaiting_wallet", "awaiting_approval", "submitted", "failed", "paid"},
              recipient : Wallet \cup {NoWallet}]

TypeOK ==
  /\ link \in [Account -> Wallet \cup {NoWallet}]
  /\ work \in [Account -> {"none", "applied", "assigned", "unpaid"}]
  /\ row \in [Account -> Winnings] /\ ledger \subseteq Account
  /\ outbox \subseteq OutboxRow /\ IsFiniteSet(outbox) /\ received \subseteq Message
  /\ sending \in [Sender -> {Idle} \cup [at : {"ok", "lost", "refused"}, msg : Message]]
  /\ erasure \in [Account -> {"none", "retained", "done"}]
  /\ erasing \in {Idle} \cup [at : {"read"}, account : Account, keep : BOOLEAN, retained : BOOLEAN]
  /\ plan \in {NoPlan} \cup [at : {"planned"}, accounts : SUBSET Account, rows : [Account -> Winnings]]

\* A report counts as delivered only when the backend has it, stamped or not yet.
DeliveredIsReceived ==
  /\ \A r \in outbox : r.msg.kind = "paid" /\ r.delivered => r.msg \in received
  /\ \A s \in Sender : sending[s].at = "ok" /\ sending[s].msg.kind = "paid" => sending[s].msg \in received

PaidIsBooked == \A a \in Account : row[a].status = "paid" => a \in ledger

\* What was planned to go is known to the backend, whatever happened to it since.
PlanIsSettled ==
  plan # NoPlan => \A a \in plan.accounts : plan.rows[a].status = "paid" => Msg(a, "paid") \in received

Inductive ==
  /\ TypeOK /\ DeliveredIsReceived /\ PaidIsBooked /\ PlanIsSettled
  /\ PaymentIsReported /\ ForgottenIsKnown
===============================================================================
