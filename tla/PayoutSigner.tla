---------------------------- MODULE PayoutSigner ----------------------------
(***************************************************************************)
(* The payout signer process: services/signer/src/payout.  It holds the    *)
(* float key and the escrow attestor key, and a SQLite journal both of its *)
(* money routes share:                                                     *)
(*                                                                         *)
(*   pay      a transfer from the float       (payout-signer.ts)           *)
(*   release  an on-chain escrow release      (escrow-attestor.ts)         *)
(*                                                                         *)
(* Every HTTP request is a Call.  A handler runs until its next await, so  *)
(* one action is the code between two awaits, and handlers of different    *)
(* calls interleave there.  The process may crash at any moment: requests  *)
(* in flight are lost, the journal and the chain are not.                  *)
(*                                                                         *)
(* A journal row is named by the call that inserted it (a call inserts at  *)
(* most one), and so is the transaction the call built.                    *)
(***************************************************************************)
EXTENDS Integers, FiniteSets

CONSTANTS
  Call,             \* HTTP requests to /v1/payout/pay and /v1/escrow/release
  Approval,         \* signed approvals that may be presented (one signature each)
  Genuine,          \* those whose signature verifies and whose network, mint, repo and recipient pass
  Payout, Bounty, Pull, Recipient, Currency,
  Escrowed,         \* the maintainer-funded bounties, which have an escrow account
  Terms,            \* the terms each approval signs, and the last day it is live
  PerBountyMax,     \* capsFor(currency).perBountyMaxMinor
  DailyMax,         \* capsFor(currency).dailyMaxMinor
  EscrowOnMainnet,  \* ESCROW_NETWORK = 'solana-mainnet'
  MaxDay            \* bound: the days of a run are 1..MaxDay

Route == {"float", "escrow"}

TermsRecord ==
  [payout: Payout, bounty: Bounty, pull: Pull, recipient: Recipient,
   currency: Currency, amount: Int, route: Route, lastDay: Int]

ASSUME ConstantsAssumption ==
  /\ IsFiniteSet(Call)
  /\ Genuine \subseteq Approval
  /\ Escrowed \subseteq Bounty
  /\ Terms \in [Approval -> TermsRecord]
  /\ PerBountyMax \in [Currency -> Nat]
  /\ DailyMax \in [Currency -> Nat]
  /\ EscrowOnMainnet \in BOOLEAN
  /\ MaxDay \in Nat \ {0}

\* What is not an approval, and what an escrow holds when nobody is recorded.
NoApproval == "no approval"
ASSUME NoApprovalAssumption == NoApproval \notin Approval

Nobody == {"none", "unassigned", "released", "refunded"}
ASSUME RecipientAssumption == Recipient \cap Nobody = {}

VARIABLES
  pc,        \* where each call's handler is waiting
  approval,  \* the approval in its body
  day,       \* the day read from the clock when the handler started
  reply,     \* what the caller was answered
  row,       \* journal: status of the row the call inserted
  sig,       \* journal: is that row's tx_signature recorded?
  net,       \* chain: the transaction the call built
  escrow,    \* chain: who each bounty's escrow is assigned to, or how it ended
  pull,      \* GitHub: the merge state of each pull request
  now        \* the day on the clock

journalVars == <<row, sig>>
callVars    == <<pc, approval, day, reply>>
worldVars   == <<escrow, pull, now>>
vars        == <<callVars, journalVars, net, worldVars>>

Waiting  == {"fetching", "reading", "preparing", "sending", "signing", "confirming", "marking"}
Refusal  == {"refused", "conflict", "unavailable"}
Answered == {"ok", "unknown", "lost"} \cup Refusal

\* The bounty, payout and amount a call is about.
T(c) == Terms[approval[c]]

\* pr.merged, and merged by somebody who is not the author the terms name.
PullState == {"open", "merged", "selfMerged"}

TypeOK ==
  /\ pc       \in [Call -> {"idle", "done"} \cup Waiting]
  /\ approval \in [Call -> Approval \cup {NoApproval}]
  /\ day      \in [Call -> 0 .. MaxDay]
  /\ reply    \in [Call -> {"none"} \cup Answered]
  /\ row      \in [Call -> {"none", "reserved", "sent", "confirmed", "failed_unsent"}]
  /\ sig      \in [Call -> BOOLEAN]
  /\ net      \in [Call -> {"none", "pending", "landed", "dead"}]
  /\ escrow   \in [Bounty -> Recipient \cup Nobody]
  /\ pull     \in [Pull -> PullState]
  /\ now      \in 1 .. MaxDay

Init ==
  /\ pc       = [c \in Call |-> "idle"]
  /\ approval = [c \in Call |-> NoApproval]
  /\ day      = [c \in Call |-> 0]
  /\ reply    = [c \in Call |-> "none"]
  /\ row      = [c \in Call |-> "none"]
  /\ sig      = [c \in Call |-> FALSE]
  /\ net      = [c \in Call |-> "none"]
  /\ escrow   \in [Bounty -> Recipient \cup {"none", "unassigned"}]
  /\ \A b \in Bounty : escrow[b] = "none" <=> b \notin Escrowed
  /\ pull     = [p \in Pull |-> "open"]
  /\ now      = 1

-----------------------------------------------------------------------------
(* The journal.                                                            *)

\* A devnet escrow's test tokens keep a ledger of their own.
LedgerOf(a) == <<Terms[a].currency, Terms[a].route = "float" \/ EscrowOnMainnet>>

\* Mutant: rows still being prepared are not counted.
Counted_WithoutReserved(c) == row[c] \in {"sent", "confirmed"}

\* Rows the daily cap counts: everything except failed_unsent.
Counted(c) == row[c] \in {"reserved", "sent", "confirmed"}

\* The minor units committed in a ledger on a day, one element per unit, so
\* that the sum over the journal's rows is the cardinality of this set.
CommittedUnits(ledger, d) ==
  {unit \in Call \X (1 .. PerBountyMax[ledger[1]]) :
      LET c == unit[1] IN
        Counted(c) /\ day[c] = d /\ LedgerOf(approval[c]) = ledger /\ unit[2] <= T(c).amount}

CommittedToday(ledger, d) == Cardinality(CommittedUnits(ledger, d))

\* Mutant: a bounty whose transfer could not be built may be tried again.
Existing_NotFailed(a) ==
  {c \in Call : /\ row[c] \notin {"none", "failed_unsent"}
                /\ \/ T(c).payout = Terms[a].payout
                   \/ T(c).bounty = Terms[a].bounty
                   \/ approval[c] = a}

\* Rows that block an approval: the same payout, the same bounty, or the
\* same approval signature (each column is also UNIQUE).
Existing(a) ==
  {c \in Call : /\ row[c] # "none"
                /\ \/ T(c).payout = Terms[a].payout
                   \/ T(c).bounty = Terms[a].bounty
                   \/ approval[c] = a}

-----------------------------------------------------------------------------
(* A call's handler.                                                       *)

Goto(c, place) == /\ pc' = [pc EXCEPT ![c] = place]
                  /\ UNCHANGED reply

Answer(c, what) == /\ pc'    = [pc EXCEPT ![c] = "done"]
                   /\ reply' = [reply EXCEPT ![c] = what]

\* The checks made on the approval alone, before anything is awaited.  The
\* clock is counted in days, so an approval expires at the end of one.
Admissible(endpoint, a) ==
  /\ Terms[a].route = endpoint
  /\ a \in Genuine
  /\ now <= Terms[a].lastDay
  /\ Terms[a].amount \in 1 .. PerBountyMax[Terms[a].currency]

\* A request arrives.  The clock is read here, once.
Request(c, endpoint, a) ==
  /\ pc[c] = "idle"
  /\ approval' = [approval EXCEPT ![c] = a]
  /\ day' = [day EXCEPT ![c] = now]
  /\ IF Admissible(endpoint, a) THEN Goto(c, "fetching") ELSE Answer(c, "refused")
  /\ UNCHANGED <<journalVars, net, worldVars>>

\* Mutant: any existing row of the payout is answered as a success.
Reserve_ReplayAnyStatus(c, next) ==
  \/ \E d \in Existing(approval[c]) :
        /\ Answer(c, IF T(d).payout = T(c).payout THEN "ok" ELSE "conflict")
        /\ UNCHANGED journalVars
  \/ /\ Existing(approval[c]) = {}
     /\ row' = [row EXCEPT ![c] = "reserved"]
     /\ Goto(c, next)
     /\ UNCHANGED sig

\* journal.reserve and what the handler does with its result: it runs to the
\* next await in one go.  An existing confirmed row of the same payout is
\* answered as a success (a replay), any other existing row is a 409.
Reserve(c, next) ==
  \/ \E d \in Existing(approval[c]) :
        /\ Answer(c, IF row[d] = "confirmed" /\ T(d).payout = T(c).payout /\ sig[d]
                       THEN "ok" ELSE "conflict")
        /\ UNCHANGED journalVars
  \/ /\ Existing(approval[c]) = {}
     /\ CommittedToday(LedgerOf(approval[c]), day[c]) + T(c).amount > DailyMax[T(c).currency]
     /\ Answer(c, "refused")
     /\ UNCHANGED journalVars
  \/ /\ Existing(approval[c]) = {}
     /\ CommittedToday(LedgerOf(approval[c]), day[c]) + T(c).amount <= DailyMax[T(c).currency]
     /\ row' = [row EXCEPT ![c] = "reserved"]
     /\ Goto(c, next)
     /\ UNCHANGED sig

\* GitHub could not be read, or reported no merge commit for a release.
FetchFails(c) ==
  /\ pc[c] = "fetching"
  /\ Answer(c, "unavailable")
  /\ UNCHANGED <<approval, day, journalVars, net, worldVars>>

\* The pull request as GitHub reports it now.
FetchPull(c) ==
  /\ pc[c] = "fetching"
  /\ IF pull[T(c).pull] # "merged"
       THEN Answer(c, "refused") /\ UNCHANGED journalVars
       ELSE IF T(c).route = "float"
              THEN Reserve(c, "preparing")
              ELSE Goto(c, "reading") /\ UNCHANGED journalVars
  /\ UNCHANGED <<approval, day, net, worldVars>>

\* release only: the RPC failed (the server answers 400), or the escrow names
\* another attestor, mint, amount or bounty than the approval.
ReadFails(c) ==
  /\ pc[c] = "reading"
  /\ Answer(c, "refused")
  /\ UNCHANGED <<approval, day, journalVars, net, worldVars>>

\* release only: the escrow must be assigned to the approved recipient.
ReadEscrow(c) ==
  /\ pc[c] = "reading"
  /\ IF escrow[T(c).bounty] = T(c).recipient
       THEN Reserve(c, "signing")
       ELSE /\ Answer(c, IF escrow[T(c).bounty] \in Nobody THEN "conflict" ELSE "refused")
            /\ UNCHANGED journalVars
  /\ UNCHANGED <<approval, day, net, worldVars>>

\* pay only: rail.prepareTransfer rejected.  Nothing was signed.
PrepareFails(c) ==
  /\ pc[c] = "preparing"
  /\ row' = [row EXCEPT ![c] = "failed_unsent"]
  /\ Answer(c, "refused")
  /\ UNCHANGED <<approval, day, sig, net, worldVars>>

\* pay only: the transfer is built and signed, and its signature recorded.
Prepare(c) ==
  /\ pc[c] = "preparing"
  /\ row' = [row EXCEPT ![c] = "sent"]
  /\ sig' = [sig EXCEPT ![c] = TRUE]
  /\ Goto(c, "sending")
  /\ UNCHANGED <<approval, day, net, worldVars>>

\* pay only: sendRawTransaction, after the journal write and before any await.
Broadcast(c) ==
  /\ pc[c] = "sending"
  /\ net' = [net EXCEPT ![c] = "pending"]
  /\ Goto(c, "confirming")
  /\ UNCHANGED <<approval, day, journalVars, worldVars>>

\* release only: no blockhash, so nothing was signed; the row stays reserved.
SignFails(c) ==
  /\ pc[c] = "signing"
  /\ Answer(c, "unknown")
  /\ UNCHANGED <<approval, day, journalVars, net, worldVars>>

\* release only: chain.send signs and sends; the journal has no signature yet.
SignAndSend(c) ==
  /\ pc[c] = "signing"
  /\ net' = [net EXCEPT ![c] = "pending"]
  /\ Goto(c, "confirming")
  /\ UNCHANGED <<approval, day, journalVars, worldVars>>

\* Mutants: an error after broadcasting is taken for a failure; is answered as
\* a refusal; puts the row back; is never reported.
OutcomeUnknown_Failed(c) ==
  /\ pc[c] = "confirming"
  /\ row' = [row EXCEPT ![c] = "failed_unsent"]
  /\ Answer(c, "unknown")
  /\ UNCHANGED <<approval, day, sig, net, worldVars>>

OutcomeUnknown_Refused(c) ==
  /\ pc[c] = "confirming"
  /\ Answer(c, "refused")
  /\ UNCHANGED <<approval, day, journalVars, net, worldVars>>

\* Sending threw, the confirmation timed out, or the chain reported an error:
\* noteError and 502, whatever became of the transaction.
OutcomeUnknown(c) ==
  /\ pc[c] = "confirming"
  /\ Answer(c, "unknown")
  /\ UNCHANGED <<approval, day, journalVars, net, worldVars>>

\* pay only: the chain confirmed the transfer.
ConfirmPay(c) ==
  /\ pc[c] = "confirming"
  /\ T(c).route = "float"
  /\ net[c] = "landed"
  /\ row' = [row EXCEPT ![c] = "confirmed"]
  /\ Answer(c, "ok")
  /\ UNCHANGED <<approval, day, sig, net, worldVars>>

\* release only: the first of the two journal writes after chain.send.
MarkReleaseSent(c) ==
  /\ pc[c] = "confirming"
  /\ T(c).route = "escrow"
  /\ net[c] = "landed"
  /\ row' = [row EXCEPT ![c] = "sent"]
  /\ sig' = [sig EXCEPT ![c] = TRUE]
  /\ Goto(c, "marking")
  /\ UNCHANGED <<approval, day, net, worldVars>>

\* release only: the second write.
MarkReleaseConfirmed(c) ==
  /\ pc[c] = "marking"
  /\ row' = [row EXCEPT ![c] = "confirmed"]
  /\ Answer(c, "ok")
  /\ UNCHANGED <<approval, day, sig, net, worldVars>>

\* The process dies and is started again.  Nothing is recovered at start.
Crash ==
  /\ \E c \in Call : pc[c] \in Waiting
  /\ pc'    = [c \in Call |-> IF pc[c] \in Waiting THEN "done" ELSE pc[c]]
  /\ reply' = [c \in Call |-> IF pc[c] \in Waiting THEN "lost" ELSE reply[c]]
  /\ UNCHANGED <<approval, day, journalVars, net, worldVars>>

-----------------------------------------------------------------------------
(* The chain, GitHub and the clock.                                        *)

\* A transaction executes.  A release executes only while the escrow is still
\* assigned to the recipient whose token account it names.
Land(c) ==
  /\ net[c] = "pending"
  /\ IF T(c).route = "escrow"
       THEN /\ escrow[T(c).bounty] = T(c).recipient
            /\ escrow' = [escrow EXCEPT ![T(c).bounty] = "released"]
       ELSE UNCHANGED escrow
  /\ net' = [net EXCEPT ![c] = "landed"]
  /\ UNCHANGED <<callVars, journalVars, pull, now>>

\* It failed on-chain, or its blockhash expired: it can never execute.
Die(c) ==
  /\ net[c] = "pending"
  /\ net' = [net EXCEPT ![c] = "dead"]
  /\ UNCHANGED <<callVars, journalVars, worldVars>>

\* The attestor's assign and unassign (draw mode), and the funder's: they move
\* no money, and the program executes them only in the state they read.
EscrowAssign(b, r) ==
  /\ escrow[b] = "unassigned"
  /\ escrow' = [escrow EXCEPT ![b] = r]
  /\ UNCHANGED <<callVars, journalVars, net, pull, now>>

EscrowUnassign(b) ==
  /\ escrow[b] \in Recipient
  /\ escrow' = [escrow EXCEPT ![b] = "unassigned"]
  /\ UNCHANGED <<callVars, journalVars, net, pull, now>>

\* The funder takes the money back (the program's refund or cancel).
EscrowRefund(b) ==
  /\ escrow[b] \in Recipient \cup {"unassigned"}
  /\ escrow' = [escrow EXCEPT ![b] = "refunded"]
  /\ UNCHANGED <<callVars, journalVars, net, pull, now>>

Merge(p, how) ==
  /\ pull[p] = "open"
  /\ pull' = [pull EXCEPT ![p] = how]
  /\ UNCHANGED <<callVars, journalVars, net, escrow, now>>

NextDay ==
  /\ now < MaxDay
  /\ now' = now + 1
  /\ UNCHANGED <<callVars, journalVars, net, escrow, pull>>

-----------------------------------------------------------------------------
\* What the process does next for a call it is handling.
Handle(c) ==
  \/ FetchFails(c)     \/ FetchPull(c)
  \/ ReadFails(c)      \/ ReadEscrow(c)
  \/ PrepareFails(c)   \/ Prepare(c)      \/ Broadcast(c)
  \/ SignFails(c)      \/ SignAndSend(c)
  \/ OutcomeUnknown(c) \/ ConfirmPay(c)
  \/ MarkReleaseSent(c) \/ MarkReleaseConfirmed(c)

World ==
  \/ \E c \in Call : Land(c) \/ Die(c)
  \/ \E b \in Bounty, r \in Recipient : EscrowAssign(b, r)
  \/ \E b \in Bounty : EscrowUnassign(b) \/ EscrowRefund(b)
  \/ \E p \in Pull, how \in {"merged", "selfMerged"} : Merge(p, how)
  \/ NextDay

Next ==
  \/ \E c \in Call, endpoint \in Route, a \in Approval : Request(c, endpoint, a)
  \/ \E c \in Call : Handle(c)
  \/ Crash
  \/ World

Spec == Init /\ [][Next]_vars

-----------------------------------------------------------------------------
(* Properties.                                                             *)

\* A transaction that has moved money, or still can.
MayPay(c) == net[c] \in {"pending", "landed"}

\* However calls interleave, repeat and are lost in crashes, two different
\* transactions that moved money or still can are for different bounties,
\* different payouts and different approvals: reserve() before any signing.
AtMostOnce ==
  \A c, d \in Call : c # d /\ MayPay(c) /\ MayPay(d) =>
     /\ T(c).bounty # T(d).bounty
     /\ T(c).payout # T(d).payout
     /\ approval[c] # approval[d]

\* No money moves outside the journal: while a transaction can execute, and
\* after it has, its row counts against the day's cap.  In particular a row
\* marked failed_unsent really was never sent, after any crash.
Accounted == \A c \in Call : MayPay(c) => Counted(c)

\* The minor units of a ledger that moved, or still can, on the account of a day.
SpendableUnits(ledger, d) ==
  {unit \in Call \X (1 .. PerBountyMax[ledger[1]]) :
      LET c == unit[1] IN
        MayPay(c) /\ day[c] = d /\ LedgerOf(approval[c]) = ledger /\ unit[2] <= T(c).amount}

\* The day's money never exceeds the hard cap of its currency, although the
\* check reads the journal while other payments are still being prepared.
DailyCap ==
  \A ledger \in Currency \X BOOLEAN, d \in 1 .. MaxDay :
     Cardinality(SpendableUnits(ledger, d)) <= DailyMax[ledger[1]]

\* A transfer from the float is findable on-chain from the journal alone, from
\* before it was broadcast: its signature is recorded (mark 'sent').
PayTraceable ==
  \A c \in Call : net[c] # "none" /\ T(c).route = "float" =>
     sig[c] /\ row[c] \in {"sent", "confirmed"}

\* A caller told "ok", the replayed answers included, was told of a
\* transaction of that payout which really executed.
OkMeansPaid ==
  \A c \in Call : reply[c] = "ok" =>
     \E d \in Call : net[d] = "landed" /\ T(d).payout = T(c).payout

\* A call refused with a 4xx or 503 signed nothing: only a 502 or a lost
\* connection leaves a caller in doubt about its own request.
RefusalMeansUnsent == \A c \in Call : reply[c] \in Refusal => net[c] = "none"

\* Money moves only for a pull request somebody else merged, and to the
\* recipient the approval names while the escrow still names them.
PaidOnlyIfMerged == \A c \in Call : net[c] # "none" => pull[T(c).pull] = "merged"

\* PayoutJournal.mark: rows only move forward, failed and confirmed rows stay,
\* a recorded signature is never taken back, and nothing a row was written
\* with ever changes.
RowStep(c) ==
  \/ row'[c] = row[c]
  \/ row[c] = "none"     /\ row'[c] = "reserved"
  \/ row[c] = "reserved" /\ row'[c] \in {"sent", "failed_unsent"}
  \/ row[c] = "sent"     /\ row'[c] = "confirmed"

RowsForward ==
  \A c \in Call :
     /\ RowStep(c)
     /\ sig[c] => sig'[c]
     /\ row[c] # "none" => approval'[c] = approval[c] /\ day'[c] = day[c]

JournalMonotone == [][RowsForward]_vars

\* The signer implements PayOnce: rows are holds, executed transactions are
\* payments, failed_unsent rows are bounties given up.
Once == INSTANCE PayOnce WITH
  Transfer <- Call,
  held     <- [b \in Bounty |-> {c \in Call : row[c] # "none" /\ T(c).bounty = b}],
  paid     <- {c \in Call : net[c] = "landed"},
  givenUp  <- {b \in Bounty : \E c \in Call : row[c] = "failed_unsent" /\ T(c).bounty = b}

PaysOnce == Once!Spec
-----------------------------------------------------------------------------
(* The inductive invariant the proofs use: what each place of a handler    *)
(* implies of its row and its transaction (AtPlace), what a row and a      *)
(* transaction imply wherever the handler is (OfRow), that rows never      *)
(* share a bounty, payout or approval, and that the rows fit the caps.     *)

AtPlace(c) ==
  /\ pc[c] = "idle" => row[c] = "none" /\ reply[c] = "none"
  /\ pc[c] # "idle" => approval[c] \in Approval /\ day[c] \in 1 .. MaxDay
  /\ pc[c] \in Waiting => reply[c] = "none"
                        /\ T(c).amount \in 1 .. PerBountyMax[T(c).currency]
  /\ pc[c] \in {"fetching", "reading"} => row[c] = "none"
  /\ pc[c] \in {"reading", "signing"} => T(c).route = "escrow"
  /\ pc[c] = "preparing" => T(c).route = "float" /\ row[c] = "reserved" /\ net[c] = "none"
  /\ pc[c] = "signing" => row[c] = "reserved" /\ net[c] = "none"
  /\ pc[c] = "sending" => T(c).route = "float" /\ row[c] = "sent" /\ sig[c] /\ net[c] = "none"
  /\ pc[c] = "confirming" => /\ net[c] # "none"
                             /\ T(c).route = "float"  => row[c] = "sent"
                             /\ T(c).route = "escrow" => row[c] = "reserved"
  /\ pc[c] = "marking" => T(c).route = "escrow" /\ row[c] = "sent" /\ sig[c] /\ net[c] = "landed"
  /\ pc[c] \in Waiting \ {"fetching"} => pull[T(c).pull] = "merged"

OfRow(c) ==
  /\ row[c] # "none" => /\ pc[c] # "idle"
                        /\ T(c).amount \in 1 .. PerBountyMax[T(c).currency]
                        /\ pull[T(c).pull] = "merged"
  /\ net[c] # "none" => Counted(c)
  /\ net[c] # "none" /\ T(c).route = "float" => sig[c] /\ row[c] \in {"sent", "confirmed"}
  /\ row[c] = "confirmed" => net[c] = "landed" /\ pc[c] = "done"
  /\ reply[c] \in Refusal => net[c] = "none" /\ pc[c] = "done"

RowsDiffer ==
  \A c, d \in Call : c # d /\ row[c] # "none" /\ row[d] # "none" =>
     /\ T(c).bounty # T(d).bounty
     /\ T(c).payout # T(d).payout
     /\ approval[c] # approval[d]

RowsFit ==
  \A ledger \in Currency \X BOOLEAN, d \in 1 .. MaxDay :
     CommittedToday(ledger, d) <= DailyMax[ledger[1]]

Inductive ==
  /\ TypeOK
  /\ \A c \in Call : AtPlace(c) /\ OfRow(c)
  /\ RowsDiffer
  /\ RowsFit
  /\ OkMeansPaid
=============================================================================
