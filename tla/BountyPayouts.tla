---------------------------- MODULE BountyPayouts ----------------------------
(***************************************************************************)
(* A bounty's payout from the merge to the money: the agent's gate and     *)
(* approve handlers (apps/agent/src/service.ts), its client of the payout  *)
(* signer (payout-client.ts), and the payout signer itself (PayoutSigner). *)
(*                                                                         *)
(* The agent keeps its rows in Postgres; each statement commits on its     *)
(* own, so another handler, or a crash of the agent, may come between any  *)
(* two of them.  The approve handler that forwards an approval and the     *)
(* signer's handler of that request are one Call.                          *)
(***************************************************************************)
EXTENDS PayoutSigner

CONSTANTS
  Delivery,       \* webhook deliveries of a closed pull request
  PayoutTerms,    \* what each payout row says: the terms it shows to the approver
  AgentCrashes    \* bound: crashes of the agent in a run

RowTerms == [payout: Payout, bounty: Bounty, pull: Pull, recipient: Recipient,
             currency: Currency, amount: Int, route: Route]

ASSUME PayoutTermsAssumption ==
  /\ PayoutTerms \in [Payout -> RowTerms]
  /\ \A p \in Payout : PayoutTerms[p].payout = p
  /\ AgentCrashes \in Nat

NoPayout == "no payout"
ASSUME NoPayoutAssumption == NoPayout \notin Payout

VARIABLES
  payout,    \* payouts.status ("none": no row)
  bounty,    \* bounties.status; "open" is posted or in_review
  mirror,    \* bounty_escrows.state, as the agent last knew it
  told,      \* payouts a bounty_paid event was queued for
  gate,      \* what each webhook handler is doing, and what its gate decided
  step,      \* where each approve handler is
  crashes    \* how often the agent has crashed

agentVars == <<payout, bounty, mirror, told, gate, step, crashes>>
allVars   == <<vars, agentVars>>

Live == {"awaiting_approval", "approved", "submitted", "failed", "confirmed"}

\* The approve handler between two awaits.
AtWork == {"claiming", "calling", "waiting", "paying", "mirroring", "telling"}

AgentInit ==
  /\ payout  = [p \in Payout |-> "none"]
  /\ bounty  = [b \in Bounty |-> "open"]
  /\ mirror  = [b \in Bounty |-> "assigned"]
  /\ told    = {}
  /\ gate    = [h \in Delivery |-> [at |-> "idle", payout |-> NoPayout, pass |-> FALSE]]
  /\ step    = [c \in Call |-> "idle"]
  /\ crashes = 0

-----------------------------------------------------------------------------
(* onPullRequestClosed: the gate decides on facts read together, then the  *)
(* payout row is inserted, then the bounty is marked payable.              *)

LivePayout(b) == \E p \in Payout : PayoutTerms[p].bounty = b /\ payout[p] \in Live

\* runGate: the facts as they are now.  `others` stands for the checks on facts
\* no other action of this model changes (repo, network, holder, wallet, account,
\* caps).
GateDecides(h, p, others) ==
  LET b == PayoutTerms[p].bounty IN
  /\ gate[h].at = "idle"
  /\ payout[p] = "none"
  /\ \A g \in Delivery : gate[g].payout # p
  /\ bounty[b] \in {"open", "payable"}
  /\ pull[PayoutTerms[p].pull] # "open"
  /\ gate' = [gate EXCEPT ![h] =
       [at |-> "inserting", payout |-> p,
        pass |-> /\ others
                 /\ bounty[b] = "open"
                 /\ pull[PayoutTerms[p].pull] = "merged"
                 /\ ~LivePayout(b)]]
  /\ UNCHANGED <<vars, payout, bounty, mirror, told, step, crashes>>

\* The unique index payouts_one_live_per_bounty refuses a second live row: the
\* handler throws and nothing after the insert runs.
InsertPayout(h) ==
  LET p == gate[h].payout
      blocked == gate[h].pass /\ LivePayout(PayoutTerms[p].bounty)
  IN
  /\ gate[h].at = "inserting"
  /\ payout' = IF blocked THEN payout
               ELSE [payout EXCEPT ![p] = IF gate[h].pass THEN "awaiting_approval" ELSE "refused"]
  /\ gate' = [gate EXCEPT ![h].at = IF gate[h].pass /\ ~blocked THEN "opening" ELSE "done"]
  /\ UNCHANGED <<vars, bounty, mirror, told, step, crashes>>

\* UPDATE bounties SET status = 'payable': whatever the status is by now.
MarkPayable(h) ==
  /\ gate[h].at = "opening"
  /\ bounty' = [bounty EXCEPT ![PayoutTerms[gate[h].payout].bounty] = "payable"]
  /\ gate' = [gate EXCEPT ![h].at = "done"]
  /\ UNCHANGED <<vars, payout, mirror, told, step, crashes>>

-----------------------------------------------------------------------------
(* approvePayout.                                                          *)

\* The terms an approval signs, without the approval's own lifetime.
SignedTerms(a) == [f \in DOMAIN Terms[a] \ {"lastDay"} |-> Terms[a][f]]

At(c, where) == step' = [step EXCEPT ![c] = where]

\* The row is read, the terms compared, the approval verified.
ApproveRead(c, a) ==
  /\ step[c] = "idle"
  /\ payout[Terms[a].payout] = "awaiting_approval"
  /\ SignedTerms(a) = PayoutTerms[Terms[a].payout]
  /\ a \in Genuine /\ now <= Terms[a].lastDay
  /\ At(c, "claiming")
  /\ approval' = [approval EXCEPT ![c] = a]
  /\ UNCHANGED <<pc, day, reply, journalVars, net, worldVars,
                 payout, bounty, mirror, told, gate, crashes>>

\* Mutant: the status is set without comparing it (the row was checked above).
ApproveClaim_Unguarded(c) ==
  /\ step[c] = "claiming"
  /\ payout' = [payout EXCEPT ![Terms[approval[c]].payout] = "approved"]
  /\ At(c, "calling")
  /\ UNCHANGED <<vars, bounty, mirror, told, gate, crashes>>

\* UPDATE ... WHERE status = 'awaiting_approval': only one handler wins.
ApproveClaim(c) ==
  /\ step[c] = "claiming"
  /\ IF payout[Terms[approval[c]].payout] = "awaiting_approval"
       THEN payout' = [payout EXCEPT ![Terms[approval[c]].payout] = "approved"] /\ At(c, "calling")
       ELSE At(c, "done") /\ UNCHANGED payout
  /\ UNCHANGED <<vars, bounty, mirror, told, gate, crashes>>

\* The request reaches the signer, on the route the terms name.
ApproveCall(c) ==
  /\ step[c] = "calling"
  /\ Request(c, Terms[approval[c]].route, approval[c])
  /\ At(c, "waiting")
  /\ UNCHANGED <<payout, bounty, mirror, told, gate, crashes>>

\* What the row becomes when the signer does not say ok.
Failing(c, status) ==
  /\ payout' = [payout EXCEPT ![T(c).payout] = status]
  /\ At(c, "done")
  /\ UNCHANGED <<vars, bounty, mirror, told, gate, crashes>>

\* fetch threw: the signer was never reached, or its answer was not.  The client
\* reports 502 for both, and the signer may still be working on the request.
ApproveUnreachable(c) == step[c] \in {"calling", "waiting"} /\ Failing(c, "submitted")

\* Mutant: every answer that is not ok is taken for a refusal.
ApproveRefused_Unknown(c) ==
  step[c] = "waiting" /\ reply[c] \in Refusal \cup {"unknown", "lost"} /\ Failing(c, "failed")

\* A 4xx or 503: the signer refused.
ApproveRefused(c) == step[c] = "waiting" /\ reply[c] \in Refusal /\ Failing(c, "failed")

\* A 200 whose body cannot be read: the client has no signature to return, reports
\* {ok: false, status: 200}, and the handler takes that for a refusal too, although
\* the signer has paid.
ApproveUnreadable(c) == step[c] = "waiting" /\ reply[c] = "ok" /\ Failing(c, "failed")

\* Mutant: an unknown outcome is left for the next attempt.
ApproveUnknown_Kept(c) == step[c] = "waiting" /\ reply[c] \in {"unknown", "lost"} /\ Failing(c, "approved")

\* A 502, or the connection closed without an answer.
ApproveUnknown(c) == step[c] = "waiting" /\ reply[c] \in {"unknown", "lost"} /\ Failing(c, "submitted")

\* Mutant: a transaction that was sent is taken for a payment that was made.
ApproveConfirmed_Sent(c) ==
  /\ step[c] = "waiting" /\ reply[c] \in {"ok", "unknown"}
  /\ payout' = [payout EXCEPT ![T(c).payout] = "confirmed"]
  /\ At(c, "paying")
  /\ UNCHANGED <<vars, bounty, mirror, told, gate, crashes>>

\* 200 with a signature.
ApproveConfirmed(c) ==
  /\ step[c] = "waiting" /\ reply[c] = "ok"
  /\ payout' = [payout EXCEPT ![T(c).payout] = "confirmed"]
  /\ At(c, "paying")
  /\ UNCHANGED <<vars, bounty, mirror, told, gate, crashes>>

MarkPaid(c) ==
  /\ step[c] = "paying"
  /\ bounty' = [bounty EXCEPT ![T(c).bounty] = "paid"]
  /\ At(c, IF T(c).route = "escrow" THEN "mirroring" ELSE "telling")
  /\ UNCHANGED <<vars, payout, mirror, told, gate, crashes>>

MarkReleased(c) ==
  /\ step[c] = "mirroring"
  /\ mirror' = [mirror EXCEPT ![T(c).bounty] = "released"]
  /\ At(c, "telling")
  /\ UNCHANGED <<vars, payout, bounty, told, gate, crashes>>

\* The bounty_paid event, deduplicated per payout.
TellPaid(c) ==
  /\ step[c] = "telling"
  /\ told' = told \cup {T(c).payout}
  /\ At(c, "done")
  /\ UNCHANGED <<vars, payout, bounty, mirror, gate, crashes>>

\* The agent dies: every handler of it is gone, the signer's are not.
AgentCrash ==
  /\ crashes < AgentCrashes
  /\ crashes' = crashes + 1
  /\ step' = [c \in Call |-> IF step[c] \in AtWork THEN "done" ELSE step[c]]
  /\ gate' = [h \in Delivery |->
                IF gate[h].at \in {"inserting", "opening"} THEN [gate[h] EXCEPT !.at = "done"] ELSE gate[h]]
  /\ UNCHANGED <<vars, payout, bounty, mirror, told>>

-----------------------------------------------------------------------------
\* bounties of the public page: the payment it shows is the confirmed payout.
PublicPayments == {p \in Payout : payout[p] = "confirmed"}

-----------------------------------------------------------------------------
Approve(c) ==
  \/ ApproveClaim(c) \/ ApproveCall(c) \/ ApproveUnreachable(c) \/ ApproveRefused(c)
  \/ ApproveUnreadable(c) \/ ApproveUnknown(c) \/ ApproveConfirmed(c) \/ MarkPaid(c) \/ MarkReleased(c) \/ TellPaid(c)

SystemNext ==
  \/ \E h \in Delivery, p \in Payout, others \in BOOLEAN : GateDecides(h, p, others)
  \/ \E h \in Delivery : InsertPayout(h) \/ MarkPayable(h)
  \/ \E c \in Call, a \in Approval : ApproveRead(c, a)
  \/ \E c \in Call : Approve(c)
  \/ AgentCrash
  \/ ((\E c \in Call : Handle(c)) \/ Crash \/ World) /\ UNCHANGED agentVars

SystemInit == Init /\ AgentInit
SystemSpec == SystemInit /\ [][SystemNext]_allVars

\* Every await settles: GitHub, the RPC and the signer answer or fail, and
\* confirmTransaction gives up when the blockhash expires.  A crash ends a
\* handler for good.  Nothing is promised of the chain, of people or of crashes.
FairSystemSpec ==
  /\ SystemSpec
  /\ \A c \in Call : WF_allVars(Approve(c)) /\ WF_allVars(Handle(c) /\ UNCHANGED agentVars)

-----------------------------------------------------------------------------
(* Properties.                                                             *)

\* What the agent shows is what happened, whatever was lost on the way.  A payout
\* that the public page shows as paid, or that the contributor was told of, was paid.  'failed' is
\* final (the bounty can get no other live payout), so the outcome of a failed payout
\* is never open: no transaction of it exists, now or later, or the signer had
\* already said ok to the very call that failed.  The second is the client's loss
\* of an unreadable 200 (ApproveUnreadable); a lost answer, a 502 or another call
\* never ends there.  The mirror of an escrow says released only if
\* the program released it: the funder may have been refunded, or the escrow
\* reassigned, while the approval was under way.
ShownIsTrue ==
  /\ \A p \in Payout :
       /\ p \in PublicPayments \cup told => \E c \in Call : net[c] = "landed" /\ T(c).payout = p
       /\ payout[p] = "failed" => \A c \in Call : approval[c] # NoApproval /\ T(c).payout = p => net[c] = "none" \/ reply[c] = "ok"
  /\ \A b \in Bounty : mirror[b] = "released" => escrow[b] = "released"

\* Money moves only for a payout that passed the gate and was approved, and the
\* agent does not lose sight of it: the row is confirmed, or still says that the
\* outcome is not known, unless the signer's ok itself was unreadable.  So a payment
\* that is still under way, or whose answer was an error or was lost, is never written off.
PaidIsKnown ==
  \A c \in Call : MayPay(c) =>
     \/ payout[T(c).payout] \in {"approved", "submitted", "confirmed"}
     \/ payout[T(c).payout] = "failed" /\ reply[c] = "ok" /\ net[c] = "landed"

\* While the agent does not crash, an approved payout is resolved: confirmed,
\* failed, or marked as an outcome somebody has to look up.
ApprovedIsResolved ==
  \A p \in Payout :
     payout[p] = "approved" ~> payout[p] \in {"submitted", "failed", "confirmed"} \/ crashes > 0

-----------------------------------------------------------------------------
(* The inductive invariant the proofs use, beside the signer's own: what   *)
(* each place of an approve handler implies of its payout row and of the   *)
(* signer's handler; that a payout is claimed by one handler for good;     *)
(* what a gate carries; and that what is shown is what happened.           *)

AgentTypeOK ==
  /\ payout \in [Payout -> {"none", "refused"} \cup Live]
  /\ bounty \in [Bounty -> {"open", "payable", "paid"}]
  /\ mirror \in [Bounty -> {"assigned", "released"}]
  /\ told \subseteq Payout
  /\ gate \in [Delivery -> [at : {"idle", "inserting", "opening", "done"}, payout : Payout \cup {NoPayout}, pass : BOOLEAN]]
  /\ step \in [Call -> {"idle", "done"} \cup AtWork]
  /\ crashes \in Nat

\* The request is about to reach the signer, or has.
Claimed(c) == step[c] = "calling" \/ pc[c] # "idle"

\* Where an approve handler is, its approval, its row and the signer's handler.
AtStep(c) ==
  /\ step[c] = "idle" => approval[c] = NoApproval
  /\ step[c] # "idle" => approval[c] \in Approval /\ SignedTerms(approval[c]) = PayoutTerms[T(c).payout]
  /\ step[c] \in {"idle", "claiming", "calling"} => pc[c] = "idle"
  /\ step[c] \in {"calling", "waiting"} => payout[T(c).payout] = "approved"
  /\ step[c] \in {"waiting", "paying", "mirroring", "telling"} => pc[c] # "idle"
  /\ step[c] \in {"paying", "mirroring", "telling"} => reply[c] = "ok"
  /\ step[c] = "mirroring" => T(c).route = "escrow"

\* What a claim implies of the row for good.
OfClaim(c) ==
  Claimed(c) => /\ payout[T(c).payout] \in {"approved", "submitted", "failed", "confirmed"}
                /\ payout[T(c).payout] = "failed" => reply[c] \in Refusal \cup {"ok"}

ClaimedOnce == \A c, d \in Call : c # d /\ Claimed(c) /\ Claimed(d) => T(c).payout # T(d).payout

AtGate(h) ==
  /\ gate[h].at \in {"inserting", "opening"} => gate[h].payout \in Payout
  /\ gate[h].at = "inserting" => payout[gate[h].payout] = "none"

GatesDiffer == \A g, h \in Delivery : g # h /\ gate[g].payout = gate[h].payout => gate[g].payout = NoPayout

ShownIsPaid == \A p \in Payout : payout[p] = "confirmed" \/ p \in told => \E c \in Call : net[c] = "landed" /\ T(c).payout = p

ReleaseIsFinal ==
  /\ \A c \in Call : net[c] = "landed" /\ T(c).route = "escrow" => escrow[T(c).bounty] = "released"
  /\ \A b \in Bounty : mirror[b] = "released" => escrow[b] = "released"

AgentInductive ==
  /\ AgentTypeOK
  /\ \A c \in Call : AtStep(c) /\ OfClaim(c)
  /\ ClaimedOnce
  /\ (\A h \in Delivery : AtGate(h)) /\ GatesDiffer
  /\ ShownIsPaid /\ ReleaseIsFinal

SystemInductive == Inductive /\ AgentInductive
==============================================================================
