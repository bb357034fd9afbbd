----------------------------- MODULE FundedBounty -----------------------------
(***************************************************************************)
(* Maintainer-funded bounties: apps/agent/src/funded-service.ts and        *)
(* escrow-service.ts, composed with the escrow program (BountyEscrow).     *)
(* The chain is the truth, and the agent keeps a mirror of it: it acts on  *)
(* what the mirror and the chain said before an await, while the funder    *)
(* acts from a wallet of their own, the attestor's transactions land late  *)
(* or not at all, and the sweep reconciles beside the requests.            *)
(*                                                                         *)
(* One bounty; one request of the funder or the contributor at a time      *)
(* beside the sweep.  What a handler reads from the database between two   *)
(* awaits of the chain or the attestor is read in one step.                *)
(***************************************************************************)
EXTENDS BountyEscrow, Sequences

CONSTANTS
  B,              \* the bounty
  Funder, Attestor,
  Applicant,      \* who applied, known by the wallet they linked
  Offer,          \* [amount, mode] the funder may ask for
  MaxPrepares, MaxAssignments, MaxProposals, MaxFailures, MaxCrashes   \* bounds

ASSUME FundedConstants ==
  /\ B \in Bounty /\ Funder \in Key /\ Attestor \in Key /\ Funder # Attestor
  /\ Applicant \subseteq Key \ {Funder, Attestor}
  /\ Offer \subseteq [amount : Nat \ {0}, mode : {"Draw", "SelfAssign"}]
  /\ MaxPrepares \in Nat /\ MaxAssignments \in Nat /\ MaxProposals \in Nat
  /\ MaxFailures \in Nat /\ MaxCrashes \in Nat

VARIABLES
  bounty,     \* bounties: status and advertised amount
  row,        \* bounty_escrows, the mirror
  unsigned,   \* whether the funder was given a funding transaction to sign
  asg,        \* bounty_assignments, in the order they were made
  props,      \* bounty_unassign_proposals, likewise
  exclude,    \* exclude_login_next_draw
  prepared,   \* an unassign_prepared event of the last half hour
  payout,     \* the payout of the bounty and whom it is for
  job,        \* what the request and the sweep are in the middle of
  late,       \* a transaction of the attestor whose answer was lost
  spent       \* prepares, failures and crashes so far

chain  == <<escrow, vault, balance, now, named>>
books  == <<bounty, row, unsigned, asg, props, exclude, prepared, payout>>   \* the agent's database
agent  == <<books, job>>
fvars  == <<chain, agent, late, spent>>

Lane == {"request", "sweep"}
Idle == [at |-> "idle"]

FundedInit ==
  /\ Init
  /\ bounty  = [status |-> "none", amount |-> 0]
  /\ row     = [state |-> "none", wallet |-> Nobody, amount |-> 0, mode |-> "none"]
  /\ unsigned = FALSE /\ asg = <<>> /\ props = <<>>
  /\ exclude = Nobody /\ prepared = FALSE
  /\ payout  = [state |-> "none", to |-> Nobody]
  /\ job     = [l \in Lane |-> Idle]
  /\ late    = [kind |-> "none"]
  /\ spent   = [prepares |-> 0, failures |-> 0, crashes |-> 0]

Live == {i \in DOMAIN asg : asg[i].status \in {"active", "pr_submitted"}}
LiveRow == IF Live = {} THEN 0 ELSE CHOOSE i \in Live : TRUE

\* agreedProposal
Agreed(i) == {p \in DOMAIN props : props[p].asg = i /\ props[p].status \in {"accepted", "silence"} /\ ~props[p].done}

At(l, place) == job[l].at = place
Begin(l, work) == At(l, "idle") /\ job' = [job EXCEPT ![l] = work]
Go(l, work)    == job' = [job EXCEPT ![l] = work]
End(l)         == job' = [job EXCEPT ![l] = Idle]

\* Frames: a handler that leaves the chain and what is in flight alone.
Quiet == UNCHANGED <<chain, late, spent>>

-----------------------------------------------------------------------------
(* Funding.                                                                *)

\* prepare: the row of the bounty, created or, while it is in 'funding', with
\* the terms asked for now.
Prepare(o) ==
  /\ bounty.status \in {"none", "funding"} /\ spent.prepares < MaxPrepares
  /\ Begin("request", [at |-> "preparing", offer |-> o])
  /\ bounty' = [status |-> "funding", amount |-> o.amount]
  /\ spent' = [spent EXCEPT !.prepares = @ + 1]
  /\ UNCHANGED <<chain, late, row, unsigned, asg, props, exclude, prepared, payout>>

\* prepareFunding: refused once an escrow is on the chain; otherwise the row is
\* replaced and its unsigned transaction handed out.
PrepareFunding ==
  /\ At("request", "preparing") /\ End("request")
  /\ LET o == job["request"].offer IN
     IF row.state \notin {"none", "funding"} \/ (row.state = "funding" /\ escrow[B] # NoEscrow)
       THEN UNCHANGED <<row, unsigned>>
       ELSE /\ row' = [state |-> "funding", wallet |-> Nobody, amount |-> o.amount, mode |-> o.mode]
            /\ unsigned' = TRUE
  /\ Quiet /\ UNCHANGED <<bounty, asg, props, exclude, prepared, payout>>

\* confirmFunding, up to what it reads: the amount (and fee) of the account.
Confirm ==
  /\ bounty.status = "funding" /\ row.state = "funding" /\ escrow[B] # NoEscrow
  /\ IF escrow[B].amount = row.amount
       THEN Begin("request", [at |-> "confirming"]) /\ UNCHANGED row
       ELSE At("request", "idle") /\ row' = [row EXCEPT !.state = "failed"] /\ UNCHANGED job
  /\ Quiet /\ UNCHANGED <<bounty, unsigned, asg, props, exclude, prepared, payout>>

ConfirmRow ==
  /\ At("request", "confirming") /\ Go("request", [at |-> "listing"])
  /\ row' = [row EXCEPT !.state = "funded"]
  /\ Quiet /\ UNCHANGED <<bounty, unsigned, asg, props, exclude, prepared, payout>>

\* confirm: only now does the bounty appear.
ListBounty ==
  /\ At("request", "listing") /\ End("request")
  /\ bounty' = IF bounty.status = "funding" THEN [bounty EXCEPT !.status = "posted"] ELSE bounty
  /\ Quiet /\ UNCHANGED <<row, unsigned, asg, props, exclude, prepared, payout>>


-----------------------------------------------------------------------------
(* What the attestor is asked: assign or unassign, in draw mode only.  It  *)
(* reads the account first.  A transaction whose confirmation does not     *)
(* arrive is an error to the agent, and may have landed, or land later.    *)

Asked(l) == CASE At(l, "attesting") -> "Funded" [] At(l, "unattesting") -> "Assigned" [] OTHER -> "nothing"

Attestable(l) == escrow[B] # NoEscrow /\ escrow[B].mode = "Draw" /\ escrow[B].state = Asked(l)

\* Mutant: the answer of the attestor is not looked at.
AttestorRefuses_Trusting(l) ==
  /\ Asked(l) # "nothing" /\ ~Attestable(l)
  /\ Go(l, [job[l] EXCEPT !.at = IF @ = "attesting" THEN "recording" ELSE "unrecording"])
  /\ Quiet /\ UNCHANGED books

\* attestAssign, unassign and carryOut end at an error; reconcile or the sweep of
\* agreed proposals tries again.
AttestorRefuses(l) ==
  /\ Asked(l) # "nothing" /\ ~Attestable(l) /\ End(l)
  /\ Quiet /\ UNCHANGED books

AttestorLoses(l) ==
  /\ Asked(l) # "nothing" /\ Attestable(l) /\ spent.failures < MaxFailures /\ End(l)
  /\ spent' = [spent EXCEPT !.failures = @ + 1]
  /\ late' \in {late, [kind |-> Asked(l), user |-> job[l].user]}
  /\ UNCHANGED <<chain, books>>

AttestorSigns(l) ==
  \/ /\ At(l, "attesting") /\ Attestable(l) /\ Assign(B, Attestor, job[l].user)
     /\ Go(l, [job[l] EXCEPT !.at = "recording"]) /\ UNCHANGED <<books, late, spent>>
  \/ /\ At(l, "unattesting") /\ Attestable(l) /\ Unassign(B, Attestor)
     /\ Go(l, [job[l] EXCEPT !.at = "unrecording"]) /\ UNCHANGED <<books, late, spent>>

\* A transaction whose blockhash has not expired.
LateLands ==
  /\ late' = [kind |-> "none"] /\ UNCHANGED <<agent, spent>>
  /\ \/ late.kind = "Funded" /\ Assign(B, Attestor, late.user)
     \/ late.kind = "Assigned" /\ Unassign(B, Attestor)

LateExpires ==
  late.kind # "none" /\ late' = [kind |-> "none"] /\ UNCHANGED <<chain, agent, spent>>

\* recordAssigned and recordUnassigned: by bounty, whatever the row says.
RecordAssigned(l) ==
  /\ At(l, "recording") /\ End(l)
  /\ row' = [row EXCEPT !.state = "assigned", !.wallet = job[l].user]
  /\ Quiet /\ UNCHANGED <<bounty, unsigned, asg, props, exclude, prepared, payout>>

RecordUnassigned(l) ==
  /\ At(l, "unrecording")
  /\ IF job[l].i = 0 THEN End(l) ELSE Go(l, [job[l] EXCEPT !.at = "releasing"])
  /\ row' = [row EXCEPT !.state = "funded", !.wallet = Nobody]
  /\ Quiet /\ UNCHANGED <<bounty, unsigned, asg, props, exclude, prepared, payout>>

-----------------------------------------------------------------------------
(* Assigning.                                                              *)

Work(place, user, i, p, how) == [at |-> place, user |-> user, i |-> i, p |-> p, how |-> how]

\* INSERT INTO bounty_assignments: the unique index admits one live row.
Insert(u) ==
  /\ Live = {} /\ Len(asg) < MaxAssignments
  /\ asg' = Append(asg, [user |-> u, status |-> "active", direct |-> FALSE])

\* runDraw: the draw inserts the winner, and the attestor is asked to name them.
RunDraw(u) ==
  /\ bounty.status = "posted" /\ row.mode = "Draw" /\ row.state = "funded"
  /\ u # exclude /\ Insert(u)
  /\ Begin("request", Work("attesting", u, 0, 0, "none"))
  /\ exclude' = Nobody
  /\ Quiet /\ UNCHANGED <<bounty, row, unsigned, props, prepared, payout>>

\* assignConfirm: the funder has signed, and the chain says so.
AssignConfirm(u) ==
  /\ Live = {} /\ escrow[B] # NoEscrow /\ escrow[B].contributor = u
  /\ Begin("request", Work("inserting", u, 0, 0, "none"))
  /\ Quiet /\ UNCHANGED books

\* recordAssignment; an insert past the bound fails like one the index refuses.
RecordAssignment(l) ==
  /\ At(l, "inserting")
  /\ \/ (Live # {} \/ Len(asg) = MaxAssignments) /\ End(l) /\ UNCHANGED asg
     \/ Insert(job[l].user) /\ Go(l, [job[l] EXCEPT !.at = "recording"])
  /\ Quiet /\ UNCHANGED <<bounty, row, unsigned, props, exclude, prepared, payout>>

-----------------------------------------------------------------------------
(* Unassigning.                                                            *)

\* release: the assignment, by its id, whatever its status is by now.
EndAssignment(l) ==
  LET j == job[l] IN
  /\ At(l, "releasing") /\ End(l)
  /\ asg' = [asg EXCEPT ![j.i].status = "released", ![j.i].direct = j.how = "direct"]
  /\ exclude' = IF row.mode = "Draw" THEN asg[j.i].user ELSE exclude
  /\ props' = IF j.p = 0 THEN props ELSE [props EXCEPT ![j.p].done = TRUE]
  /\ Quiet /\ UNCHANGED <<bounty, row, unsigned, prepared, payout>>

\* The latest agreement on an assignment, 0 if there is none.
Agreement(i) == IF Agreed(i) = {} THEN 0 ELSE CHOOSE p \in Agreed(i) : \A q \in Agreed(i) : q <= p

\* Where ending assignment i starts, by what the row says.
Ending(i, p) ==
  Work(IF row.state = "assigned" THEN "unattesting" ELSE "releasing", Nobody, i, p, "ours")

\* unassign: before a pull request by the funder alone, after one by agreement.
\* In self-assign mode, once the chain names somebody, it prepares the funder's
\* transaction and changes nothing else.
UnassignRequest(i) ==
  /\ i \in Live
  /\ asg[i].status = "pr_submitted" => Agreed(i) # {}
  /\ IF row.mode = "SelfAssign" /\ row.state = "assigned"
       THEN At("request", "idle") /\ prepared' = TRUE /\ UNCHANGED job
       ELSE Begin("request", Ending(i, Agreement(i))) /\ UNCHANGED prepared
  /\ Quiet /\ UNCHANGED <<bounty, row, unsigned, asg, props, exclude, payout>>

\* unassignConfirm reads the assignment, then the chain.
UnassignConfirm(i) ==
  /\ i \in Live
  /\ Begin("request", Work("checking", Nobody, i, 0, asg[i].status))
  /\ Quiet /\ UNCHANGED books

UnassignChecked ==
  LET j == job["request"]
      against == j.how = "pr_submitted" /\ Agreed(j.i) = {}
  IN
  /\ At("request", "checking")
  /\ IF escrow[B] # NoEscrow /\ escrow[B].state = "Funded"
       THEN Go("request", Work("unrecording", Nobody, j.i, Agreement(j.i), IF against THEN "direct" ELSE "ours"))
       ELSE End("request")
  /\ Quiet /\ UNCHANGED books

-----------------------------------------------------------------------------
(* Both sides agree.                                                       *)

\* Either side proposes, and the other one answers.
Propose(i) ==
  /\ i \in Live /\ asg[i].status = "pr_submitted" /\ Len(props) < MaxProposals
  /\ \A p \in DOMAIN props : props[p].asg = i => props[p].status # "pending"
  /\ props' = Append(props, [asg |-> i, status |-> "pending", done |-> FALSE])
  /\ Quiet /\ UNCHANGED <<bounty, row, unsigned, asg, exclude, prepared, payout, job>>

\* respond reads the proposal, and writes the answer some statements later.
Respond(p, answer) ==
  /\ props[p].status = "pending" /\ props[p].asg \in Live
  /\ Begin("request", Work("answering", Nobody, props[p].asg, p, answer))
  /\ Quiet /\ UNCHANGED books

WriteAnswer ==
  LET j == job["request"] IN
  /\ At("request", "answering")
  /\ props' = [props EXCEPT ![j.p].status = j.how]
  /\ IF j.how = "accepted" THEN Go("request", [j EXCEPT !.at = "agreed"]) ELSE End("request")
  /\ Quiet /\ UNCHANGED <<bounty, row, unsigned, asg, exclude, prepared, payout>>

\* withdraw: one statement, beside whatever else runs.
Withdraw(p) ==
  /\ props[p].status = "pending"
  /\ props' = [props EXCEPT ![p].status = "withdrawn"]
  /\ Quiet /\ UNCHANGED <<bounty, row, unsigned, asg, exclude, prepared, payout, job>>

\* expireProposals: silence is agreement.
ExpireProposal(p) ==
  /\ props[p].status = "pending" /\ props' = [props EXCEPT ![p].status = "silence"]
  /\ Begin("sweep", Work("agreed", Nobody, props[p].asg, p, "ours"))
  /\ Quiet /\ UNCHANGED <<bounty, row, unsigned, asg, exclude, prepared, payout>>

\* Mutant: silence is not an agreement.
RetryAgreed_AcceptedOnly(p) ==
  /\ p \in Agreed(props[p].asg) /\ row.mode = "Draw" /\ props[p].status = "accepted"
  /\ props[p].asg \in Live
  /\ Begin("sweep", Work("agreed", Nobody, props[p].asg, p, "ours"))
  /\ Quiet /\ UNCHANGED books

\* Agreed, but the attestor was unreachable: try again.
RetryAgreed(p) ==
  /\ p \in Agreed(props[p].asg) /\ row.mode = "Draw"
  /\ props[p].asg \in Live    \* otherwise carryOut does nothing
  /\ Begin("sweep", Work("agreed", Nobody, props[p].asg, p, "ours"))
  /\ Quiet /\ UNCHANGED books

\* carryOut: the attestor signs now; in self-assign mode the funder has to.
CarryOut(l) ==
  LET j == job[l] IN
  /\ At(l, "agreed")
  /\ IF j.i \in Live /\ ~(row.mode = "SelfAssign" /\ row.state = "assigned")
       THEN Go(l, Ending(j.i, j.p))
       ELSE End(l)
  /\ Quiet /\ UNCHANGED books

-----------------------------------------------------------------------------
(* The chain is the truth.                                                 *)

InFlight == {"approved", "landed", "submitted", "confirmed"}

\* Mutant: only a bounty with somebody on it is compared with the chain.
Reconcile_Assigned(l) ==
  /\ row.state # "none"
  /\ l = "sweep" => bounty.status \in {"posted", "payable"} /\ row.state = "assigned"
  /\ Begin(l, [Work("reconciling", row.wallet, LiveRow, 0, row.state) EXCEPT
                 !.p = IF LiveRow # 0 /\ asg[LiveRow].status = "pr_submitted" THEN 1 ELSE 0])
  /\ Quiet /\ UNCHANGED books

\* reconcileOne: the rows first, then the account.  The sweep asks for every open
\* bounty; reclaimConfirm asks for the funder's, whatever its state.
Reconcile(l) ==
  /\ row.state # "none"
  /\ l = "sweep" => bounty.status \in {"posted", "payable"} /\ row.state \in {"funded", "assigned"}
  /\ Begin(l, [Work("reconciling", row.wallet, LiveRow, 0, row.state) EXCEPT
                 !.p = IF LiveRow # 0 /\ asg[LiveRow].status = "pr_submitted" THEN 1 ELSE 0])
  /\ Quiet /\ UNCHANGED books

Seen(l, next) == Go(l, next) /\ Quiet /\ UNCHANGED books

\* Mutant: a closed account is taken for the funder's doing.
SeesClosed_AnyCause(l) ==
  /\ At(l, "reconciling") /\ escrow[B] = NoEscrow
  /\ Seen(l, Work("closing", Nobody, job[l].i, 0, IF asg = <<>> THEN "cancelled" ELSE "expired"))

\* A release under way closes the account before its payout row says so.
SeesClosed(l) ==
  /\ At(l, "reconciling") /\ escrow[B] = NoEscrow
  /\ Seen(l, IF payout.state \in InFlight THEN Idle
             ELSE Work("closing", Nobody, job[l].i, 0, IF asg = <<>> THEN "cancelled" ELSE "expired"))

\* It names somebody: whom the agent expects, or somebody else, or, with nobody
\* assigned here, a person the funder chose, who may not have applied.
SeesNamed(l) ==
  LET j == job[l]
      named_ == escrow[B].contributor
      expected == named_ = IF j.user = Nobody THEN asg[j.i].user ELSE j.user
  IN
  /\ At(l, "reconciling") /\ escrow[B] # NoEscrow /\ escrow[B].contributor # Nobody
  /\ Seen(l, CASE j.i # 0 -> IF j.how # "assigned" /\ expected THEN Work("recording", named_, 0, 0, "none") ELSE Idle
               [] j.i = 0 -> IF named_ \in Applicant THEN Work("inserting", named_, 0, 0, "none") ELSE Idle)

\* It names nobody: an assignment that was never signed, or one that was undone.
SeesNobody(l) ==
  LET j == job[l]
      agreement == Agreement(j.i)
      theirs == prepared /\ (j.p = 0 \/ agreement # 0)
  IN
  /\ At(l, "reconciling") /\ escrow[B] # NoEscrow /\ escrow[B].contributor = Nobody
  /\ Seen(l, CASE j.how = "assigned" ->
                    IF theirs THEN Work("unrecording", Nobody, j.i, agreement, "ours")
                              ELSE Work("unrecording", Nobody, j.i, 0, "direct")
               [] j.how = "funded" /\ row.mode = "Draw" /\ j.i # 0 -> Work("attesting", asg[j.i].user, 0, 0, "none")
               [] OTHER -> Idle)

\* recordClosed, then the bounty, then whoever held it.
RecordClosed(l) ==
  /\ At(l, "closing") /\ Go(l, [job[l] EXCEPT !.at = "expiring"])
  /\ row' = [row EXCEPT !.state = "refunded"]
  /\ Quiet /\ UNCHANGED <<bounty, unsigned, asg, props, exclude, prepared, payout>>

CloseBounty(l) ==
  /\ At(l, "expiring")
  /\ bounty' = [bounty EXCEPT !.status = job[l].how]
  /\ IF job[l].i = 0 THEN End(l) ELSE Go(l, [job[l] EXCEPT !.at = "releasing"])
  /\ Quiet /\ UNCHANGED <<row, unsigned, asg, props, exclude, prepared, payout>>

-----------------------------------------------------------------------------
(* The funder's wallet, the contributor's pull request, the payout.        *)

\* The funder's wallet is not bound to the transaction it was given: confirmFunding
\* compares nothing but amount and fee.  (Left out are an escrow that names another
\* attestor, which ours refuses to touch, and one that somebody else has funded.)
FunderSigns(o, deadline) ==
  /\ unsigned /\ unsigned' = FALSE
  /\ Initialize(B, Funder, [amount |-> o.amount, bps |-> 0, minimum |-> 0], Attestor, Attestor, o.mode, deadline)
  /\ UNCHANGED <<bounty, row, asg, props, exclude, prepared, payout, job, late, spent>>

FunderActs ==
  /\ \/ \E k \in Key \ {Funder} : Assign(B, Funder, k)
     \/ Unassign(B, Funder) \/ Cancel(B) \/ Refund(B)
  /\ UNCHANGED <<agent, late, spent>>

\* Anybody but an applicant, whose balance tells whether they were paid.
OutsiderPays(k, n) == PayIn(B, k, n) /\ UNCHANGED <<agent, late, spent>>

TimePasses == Tick /\ UNCHANGED <<agent, late, spent>>

\* The half hour in which an unassignment is taken for the one prepared.
PreparedLapses ==
  /\ prepared /\ prepared' = FALSE
  /\ Quiet /\ UNCHANGED <<bounty, row, unsigned, asg, props, exclude, payout, job>>

\* The pull request hooks of the draw service.
PullOpens(i) ==
  /\ asg[i].status = "active" /\ asg' = [asg EXCEPT ![i].status = "pr_submitted"]
  /\ Quiet /\ UNCHANGED <<bounty, row, unsigned, props, exclude, prepared, payout, job>>

PullCloses(i) ==
  /\ asg[i].status = "pr_submitted" /\ asg' = [asg EXCEPT ![i].status = "active"]
  /\ Quiet /\ UNCHANGED <<bounty, row, unsigned, props, exclude, prepared, payout, job>>

Paying(state) ==
  /\ payout' = [payout EXCEPT !.state = state]
  /\ UNCHANGED <<unsigned, asg, props, exclude, prepared, job, late, spent>>

\* Merged: the gate's wallet fact is the one the escrow's row records.
\* (BountyPayouts has the steps of the gate and of the approval in detail.)
Merge(i) ==
  /\ i \in Live /\ asg[i].status = "pr_submitted" /\ bounty.status = "posted"
  /\ row.state = "assigned" /\ payout.state = "none"
  /\ payout' = [state |-> "awaiting", to |-> row.wallet]
  /\ bounty' = [bounty EXCEPT !.status = "payable"]
  /\ Quiet /\ UNCHANGED <<row, unsigned, asg, props, exclude, prepared, job>>

ApprovePay == payout.state = "awaiting" /\ Paying("approved") /\ UNCHANGED <<chain, bounty, row>>

\* Mutant: the account is not read again.
Releasable_Trusting == escrow[B] # NoEscrow

\* What the attestor compares before it signs a release.
Releasable == escrow[B] # NoEscrow /\ escrow[B].contributor = payout.to /\ escrow[B].amount = bounty.amount

\* The release lands, and is recorded, or its outcome is lost, before or after.
ReleasePay ==
  /\ payout.state \in {"approved", "submitted"} /\ Releasable /\ Release(B, Attestor)
  /\ Paying(IF payout.state = "approved" THEN "landed" ELSE "submitted") /\ UNCHANGED <<bounty, row>>

\* A release from a vault that holds too much fails on the chain, which the attestor
\* reports like an answer that is lost.
LosePay ==
  /\ payout.state \in {"approved", "landed"}
  /\ \/ spent.failures < MaxFailures /\ spent' = [spent EXCEPT !.failures = @ + 1]
     \/ payout.state = "approved" /\ Releasable /\ Overfull(B) /\ UNCHANGED spent
  /\ payout' = [payout EXCEPT !.state = "submitted"]
  /\ UNCHANGED <<chain, bounty, row, unsigned, asg, props, exclude, prepared, job, late>>

RefusePay == payout.state = "approved" /\ ~Releasable /\ Paying("failed") /\ UNCHANGED <<chain, bounty, row>>

\* A 200 whose body cannot be read is taken for a refusal, though the release has landed.
UnreadablePay == payout.state = "landed" /\ Paying("failed") /\ UNCHANGED <<chain, bounty, row>>

FinishPay ==
  /\ payout.state = "landed" /\ Paying("confirmed")
  /\ bounty' = [bounty EXCEPT !.status = "paid"] /\ row' = [row EXCEPT !.state = "released"]
  /\ UNCHANGED chain

\* The agent dies.  The attestor lives in the signer, and finishes what it was asked.
Crash ==
  /\ spent.crashes < MaxCrashes /\ spent' = [spent EXCEPT !.crashes = @ + 1]
  /\ job' = [l \in Lane |-> Idle]
  /\ late' \in {late} \cup {[kind |-> Asked(l), user |-> job[l].user] : l \in {m \in Lane : Asked(m) # "nothing"}}
  /\ UNCHANGED <<chain, books>>

-----------------------------------------------------------------------------
\* What a lane does once it has begun.
Continue(l) ==
  \/ AttestorRefuses(l) \/ AttestorLoses(l) \/ AttestorSigns(l) \/ RecordAssigned(l) \/ RecordUnassigned(l)
  \/ RecordAssignment(l) \/ EndAssignment(l) \/ CarryOut(l)
  \/ SeesClosed(l) \/ SeesNamed(l) \/ SeesNobody(l) \/ RecordClosed(l) \/ CloseBounty(l)
  \/ l = "request" /\ (PrepareFunding \/ ConfirmRow \/ ListBounty \/ UnassignChecked \/ WriteAnswer)

\* reclaim prepares the transaction that FunderActs sends; reclaimConfirm reads the chain.
ReclaimConfirm == Reconcile("request")

\* The funder's and the contributor's signed actions.
Request ==
  \/ \E o \in Offer : Prepare(o)
  \/ Confirm
  \/ \E u \in Applicant : RunDraw(u) \/ AssignConfirm(u)
  \/ \E i \in DOMAIN asg : UnassignRequest(i) \/ UnassignConfirm(i) \/ Propose(i)
  \/ \E p \in DOMAIN props : Respond(p, "accepted") \/ Respond(p, "refused") \/ Withdraw(p)
  \/ ReclaimConfirm

Expire == \E p \in DOMAIN props : ExpireProposal(p)
Retry  == \E p \in DOMAIN props : RetryAgreed(p)

World ==
  \/ \E o \in Offer, deadline \in 0 .. MaxTime : FunderSigns(o, deadline)
  \/ \E k \in Key \ Applicant, n \in Gift : OutsiderPays(k, n)
  \/ FunderActs \/ TimePasses \/ PreparedLapses \/ LateLands \/ LateExpires \/ Crash
  \/ \E i \in DOMAIN asg : PullOpens(i) \/ PullCloses(i) \/ Merge(i)
  \/ ApprovePay \/ ReleasePay \/ LosePay \/ RefusePay \/ UnreadablePay \/ FinishPay

FundedNext ==
  \/ \E l \in Lane : Continue(l)
  \/ Request \/ Expire \/ Retry \/ Reconcile("sweep") \/ World

FundedSpec == FundedInit /\ [][FundedNext]_fvars

\* A handler that began goes on, and every tick of the scheduler has a turn for
\* the agreements and one for the chain.
FairFundedSpec ==
  /\ FundedSpec
  /\ \A l \in Lane : WF_fvars(Continue(l))
  /\ SF_fvars(Retry) /\ SF_fvars(Reconcile("sweep"))

-----------------------------------------------------------------------------
(* Properties.                                                             *)

Received(u) == balance[u] - Wealth[u]

\* Paid, and the answer that said so could not be read.
Misread(u) == payout = [state |-> "failed", to |-> u]

\* An escrow that paid its contributor is never recorded as one the funder took
\* back: a release closes the account before its payout row says confirmed.  There
\* is one exception: the payout says failed, because the answer could not be read.
NeverMistaken == row.state = "refunded" => \A u \in Applicant : Received(u) # 0 => Misread(u)

\* The row names a contributor only if the chain named them, though the answer of
\* the attestor may be lost and the funder may act in between.
OnlyWhatChainSaid == row.wallet # Nobody => row.wallet \in named[B]

\* A contributor receives exactly the figure the bounty advertises, or nothing,
\* even when the funder signed terms the bounty no longer shows.
PaidAsAdvertised == \A u \in Applicant : Received(u) \in {0, bounty.amount}

\* Agreed, not yet carried out, and not overtaken by the end of the assignment, of
\* the bounty, or by a payout.
Outstanding(p) ==
  /\ p \in DOMAIN props /\ p \in Agreed(props[p].asg) /\ props[p].asg \in Live
  /\ row.mode = "Draw" /\ bounty.status \in {"posted", "payable"} /\ payout.state \notin InFlight

\* In draw mode an agreement to unassign is carried out or overtaken, whatever answers
\* of the attestor are lost.
AgreementIsKept == \A p \in 1 .. MaxProposals : Outstanding(p) ~> ~Outstanding(p)

\* A bounty whose escrow is gone is not offered to anybody for ever: the funder's
\* cancellation or refund is noticed, unless the agent died while recording it.
ClosedIsNoticed ==
  bounty.status = "posted" /\ escrow[B] = NoEscrow ~> bounty.status # "posted" \/ spent.crashes > 0

-----------------------------------------------------------------------------
(* The inductive invariant the proofs use, beside the program's own: types, *)
(* what each place of a lane implies of what it carries, whose escrow it   *)
(* is, what an unsigned funding transaction says of the books, and that    *)
(* money which reached a contributor is never forgotten.                   *)

RowState  == {"none", "funding", "failed", "funded", "assigned", "refunded", "released"}
AsgState  == {"active", "pr_submitted", "released"}
Ended     == {"cancelled", "expired"}
WorkPlace == {"attesting", "unattesting", "recording", "unrecording", "inserting", "releasing", "checking",
              "answering", "agreed", "reconciling", "closing", "expiring"}
How       == {"none", "ours", "direct", "accepted", "refused"} \cup RowState \cup AsgState \cup Ended

Working == [at : WorkPlace, user : Key \cup {Nobody}, i : Nat, p : Nat, how : How]
Asking  == [at : {"preparing"}, offer : Offer]
Plain   == [at : {"idle", "confirming", "listing"}]

FundedTypeOK ==
  /\ bounty \in [status : {"none", "funding", "posted", "payable", "paid"} \cup Ended, amount : Nat]
  /\ row \in [state : RowState, wallet : Key \cup {Nobody}, amount : Nat, mode : {"none", "Draw", "SelfAssign"}]
  /\ unsigned \in BOOLEAN
  /\ asg \in Seq([user : Key, status : AsgState, direct : BOOLEAN])
  /\ props \in Seq([asg : Nat, status : {"pending", "accepted", "refused", "withdrawn", "silence"}, done : BOOLEAN])
  /\ exclude \in Key \cup {Nobody} /\ prepared \in BOOLEAN
  /\ payout \in [state : {"none", "awaiting", "failed"} \cup InFlight, to : Key \cup {Nobody}]
  /\ job \in [Lane -> Working \cup Asking \cup Plain]
  /\ late \in [kind : {"none"}] \cup [kind : {"Funded"}, user : Key] \cup [kind : {"Assigned"}, user : Key \cup {Nobody}]

\* The row has left 'funding', which it never enters again.
Settled == row.state \notin {"none", "funding"}

\* Which assignment and which person a lane is about.
AtWork(l) ==
  /\ job[l].at \in {"reconciling", "unattesting", "unrecording", "closing", "expiring"} => job[l].i \in 0 .. Len(asg)
  /\ job[l].at \in {"checking", "releasing"} => job[l].i \in 1 .. Len(asg)
  /\ job[l].at \in {"attesting", "recording", "inserting"} => job[l].user \in Key
  /\ job[l].at = "answering" => job[l].how \in {"accepted", "refused"}
  /\ job[l].at \in {"closing", "expiring"} => job[l].how \in Ended
  /\ job[l].at \in {"preparing", "confirming", "listing"} => l = "request"

\* The sweep compares only what was listed.
SweepSettled ==
  job["sweep"].at \in {"reconciling", "attesting", "inserting", "recording", "closing", "expiring"} => Settled

Numbered == \A p \in DOMAIN props : props[p].asg \in 1 .. Len(asg)

OurEscrow == escrow[B] # NoEscrow => /\ escrow[B].funder = Funder
                                     /\ escrow[B].attestor = Attestor /\ escrow[B].feeTo = Attestor

\* Until an escrow is confirmed, nothing is listed, paid or recorded; while a
\* transaction that would fund it is out, nobody was named in it.
BeforeFunding ==
  /\ row.state = "none" => escrow[B] = NoEscrow /\ ~unsigned
  /\ ~Settled => row.wallet = Nobody /\ payout.state = "none" /\ bounty.status # "posted" /\ ~At("request", "listing")
  /\ payout.state # "none" => bounty.status \notin {"none", "funding"}
  /\ unsigned => /\ escrow[B] = NoEscrow /\ row.wallet = Nobody
                    /\ payout.state = "none" /\ bounty.status # "posted"
                    /\ \A l \in Lane : job[l].at \notin {"confirming", "listing", "inserting", "recording"}

\* Whoever a lane is about to record, the chain named.
NamedOnChain ==
  /\ row.wallet # Nobody => row.wallet \in named[B]
  /\ \A l \in Lane : job[l].at \in {"inserting", "recording"} => job[l].user \in named[B]

\* A contributor was paid once, out of an escrow that is gone for good.
PaidForGood ==
  \A u \in Applicant : Received(u) # 0 =>
     /\ Received(u) = bounty.amount
     /\ payout.state \in {"landed", "submitted", "confirmed", "failed"} /\ payout.to = u
     /\ escrow[B] = NoEscrow /\ ~unsigned

\* An escrow taken for closed pays nobody from then on: it is gone and cannot be funded again,
\* or what is funded under its address is never listed.
Unlisted == payout.state = "none" /\ bounty.status # "posted" /\ job["request"].at \notin {"confirming", "listing"}
Unpayable == /\ \A u \in Applicant : Received(u) # 0 => Misread(u)
             /\ (escrow[B] = NoEscrow /\ ~unsigned) \/ Unlisted
ClosedPaysNobody == row.state = "refunded" \/ (\E l \in Lane : At(l, "closing")) => Unpayable

FundedInductive ==
  /\ TypeOK /\ Backed /\ FeeIsQuoted /\ RemembersAssignment
  /\ FundedTypeOK
  /\ \A l \in Lane : AtWork(l)
  /\ SweepSettled /\ Numbered /\ OurEscrow
  /\ BeforeFunding /\ NamedOnChain
  /\ PaidForGood /\ ClosedPaysNobody
===============================================================================
