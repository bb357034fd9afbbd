------------------------------- MODULE GrainHack -------------------------------
(***************************************************************************)
(* GrainHack payouts: apps/agent/src/grainhack (import, wallets, approval, *)
(* reconcile) composed with the grainhack-signer, its journal and the      *)
(* chain (services/signer/src/grainhack).  The reports it queues, erasure  *)
(* and retention are in PersonalRecords.                                   *)
(*                                                                         *)
(* One event pool in one currency on one network.  A statement is the      *)
(* backend's and genuine; an approval is a person's, over exactly the      *)
(* terms it was signed for.  What a handler reads between two awaits of    *)
(* another service is read in one step, and so is a pair of reads of the   *)
(* database with nothing but reads between them.  The daily cap, expiry of *)
(* an approval and a transfer that cannot be built are refusals that may   *)
(* happen to any request; the five minutes after which a row the signer    *)
(* has no record of is released may have passed at any time.               *)
(***************************************************************************)
EXTENDS Naturals, FiniteSetsExt

CONSTANTS
  Winner, Wallet, Statement, Approval, Call,
  NoStatement, NoWallet, NoApproval, NoTerms,
  Lines,        \* what a statement lists: [amount, held] of each winner, amount 0 for nobody
  Supersedes,   \* the statement a statement replaces
  EventMax,     \* what the signer pays one event at most
  MaxCrashes    \* bound

ASSUME GrainHackConstants ==
  /\ IsFiniteSet(Winner) /\ IsFiniteSet(Statement)
  /\ NoStatement \notin Statement /\ NoWallet \notin Wallet /\ NoApproval \notin Approval
  /\ Lines \in [Statement -> [Winner -> [amount : Nat, held : BOOLEAN]]]
  /\ Supersedes \in [Statement -> Statement \cup {NoStatement}]
  /\ EventMax \in Nat /\ MaxCrashes \in Nat

Terms == [winner : Winner, id : Statement, statement : Statement, amount : Nat, recipient : Wallet \cup {NoWallet}]

ASSUME NoTermsAssumption == NoTerms \notin Terms

VARIABLES
  current,    \* grainhack_statements: the one no other supersedes
  row,        \* grainhack_payouts of the agent
  link,       \* wallet_links, the live ones
  signed,     \* the terms a person approved
  call, rec, frz,   \* the agent in the middle of approvals, of reconcile, of refreeze
  work,       \* the signer in the middle of approvals
  journal,    \* grainhack_payouts of the signer
  tx, paid,   \* the chain: the winner's transaction, how often they were paid
  ledger,     \* grainhack_ledger
  crashes

agentVars  == <<current, row, link, ledger>>   \* its database
chainVars  == <<tx, paid>>
signerVars == <<work, journal>>
midway     == <<call, rec, frz>>
vars == <<agentVars, signed, midway, signerVars, chainVars, crashes>>

Unpaid   == {"held_kyc", "awaiting_wallet", "awaiting_approval", "removed"}
InFlight == {"submitted", "unknown"}
Open     == {"awaiting_wallet", "awaiting_approval", "submitted", "unknown", "failed"}

Idle  == [at |-> "idle", approval |-> NoApproval, answer |-> "none"]
NoRow == [status |-> "none", id |-> NoStatement, statement |-> NoStatement, amount |-> 0, recipient |-> NoWallet]
NoRec == [at |-> "idle", terms |-> NoTerms]
NoFrz == [at |-> "idle", winner |-> NoTerms, wallet |-> NoWallet]
Unrecorded == [status |-> "none", terms |-> NoTerms, approval |-> NoApproval]

Init ==
  /\ current = NoStatement /\ row = [w \in Winner |-> NoRow] /\ link = [w \in Winner |-> NoWallet]
  /\ signed = [a \in Approval |-> NoTerms]
  /\ call = [c \in Call |-> Idle] /\ work = [c \in Call |-> Idle]
  /\ rec = NoRec /\ frz = NoFrz
  /\ journal = [w \in Winner |-> Unrecorded]
  /\ tx = [w \in Winner |-> "none"] /\ paid = [w \in Winner |-> 0]
  /\ ledger = {} /\ crashes = 0

\* termsFor: everything from the agent's own records.
TermsFor(w) ==
  [winner |-> w, id |-> row[w].id, statement |-> row[w].statement, amount |-> row[w].amount, recipient |-> row[w].recipient]

-----------------------------------------------------------------------------
(* The agent: statements and wallets.                                      *)

\* The row of a listed winner: its id is the statement that created it.
Listed(s, w) ==
  LET line    == Lines[s][w]
      status  == IF line.held THEN "held_kyc" ELSE IF link[w] = NoWallet THEN "awaiting_wallet" ELSE "awaiting_approval"
      frozen  == IF row[w].status = "awaiting_approval" THEN row[w].recipient ELSE link[w]
  IN [status    |-> status,
      id        |-> IF row[w] = NoRow THEN s ELSE row[w].id,
      statement |-> s,
      amount    |-> line.amount,
      recipient |-> IF status = "awaiting_approval" THEN frozen ELSE NoWallet]

\* importStatement, in one transaction; discoverStatements imports a chain oldest first.
Import(s) ==
  /\ s # current /\ (current # NoStatement => Supersedes[s] = current)
  /\ current' = s
  /\ row' = [w \in Winner |->
       CASE Lines[s][w].amount > 0 /\ row[w].status \in Unpaid \cup {"none"} -> Listed(s, w)
         [] Lines[s][w].amount = 0 /\ row[w].status \in Unpaid \ {"removed"} ->
              [row[w] EXCEPT !.status = "removed", !.statement = s, !.recipient = NoWallet]
         [] OTHER -> row[w]]
  /\ UNCHANGED <<link, ledger, signed, midway, signerVars, chainVars, crashes>>

\* refreshWallets: one statement.
RefreshWallets ==
  LET moved == {w \in Winner : row[w].status = "awaiting_wallet" /\ link[w] # NoWallet} IN
  /\ moved # {}
  /\ row' = [w \in Winner |->
       IF w \in moved THEN [row[w] EXCEPT !.status = "awaiting_approval", !.recipient = link[w]] ELSE row[w]]
  /\ UNCHANGED <<current, link, ledger, signed, midway, signerVars, chainVars, crashes>>

\* refreeze reads the row and the link, and writes the row whatever it is by then.
RefreezeRead(w) ==
  /\ frz.at = "idle" /\ row[w].status \in {"awaiting_approval", "awaiting_wallet"}
  /\ frz' = [at |-> "read", winner |-> w, wallet |-> link[w]]
  /\ UNCHANGED <<agentVars, signed, call, rec, signerVars, chainVars, crashes>>

RefreezeWrite ==
  LET w == frz.winner IN
  /\ frz.at = "read" /\ frz' = NoFrz
  /\ row' = IF row[w] = NoRow THEN row
            ELSE [row EXCEPT ![w] = [@ EXCEPT !.recipient = frz.wallet,
                    !.status = IF frz.wallet = NoWallet THEN "awaiting_wallet" ELSE "awaiting_approval"]]
  /\ UNCHANGED <<current, link, ledger, signed, call, rec, signerVars, chainVars, crashes>>

-----------------------------------------------------------------------------
(* The agent: approval.                                                    *)

\* approveEvent: the person signs what the verified current statement lists.
Sign(a, w) ==
  /\ signed[a] = NoTerms /\ row[w].status = "awaiting_approval"
  /\ row[w].statement = current /\ link[w] = row[w].recipient
  /\ Lines[current][w] = [amount |-> row[w].amount, held |-> FALSE]
  /\ signed' = [signed EXCEPT ![a] = TermsFor(w)]
  /\ UNCHANGED <<agentVars, midway, signerVars, chainVars, crashes>>

\* approve, up to the claim: the terms are the row's, the link is the recipient.
Approve(c, a) ==
  /\ call[c].at = "idle" /\ work[c].at = "idle" /\ signed[a] # NoTerms
  /\ LET w == signed[a].winner IN
     row[w].status = "awaiting_approval" /\ TermsFor(w) = signed[a] /\ link[w] = row[w].recipient
  /\ call' = [call EXCEPT ![c] = [Idle EXCEPT !.at = "read", !.approval = a]]
  /\ UNCHANGED <<agentVars, signed, rec, frz, signerVars, chainVars, crashes>>

Approved(c) == signed[call[c].approval]
HasRow(t)   == row[t.winner].id = t.id
\* An update by id; the table wants a recipient of a row in this status.
SetStatus(t, status) ==
  row' = IF HasRow(t) /\ row[t.winner].recipient # NoWallet THEN [row EXCEPT ![t.winner].status = status] ELSE row

\* The claim looks at the status alone; then the signer is asked.
Claim(c) ==
  LET t == Approved(c) IN
  /\ call[c].at = "read"
  /\ IF HasRow(t) /\ row[t.winner].status = "awaiting_approval"
       THEN /\ SetStatus(t, "submitted")
            /\ call' = [call EXCEPT ![c].at = "waiting"]
            /\ work' = [work EXCEPT ![c] = [Idle EXCEPT !.at = "asked", !.approval = call[c].approval]]
       ELSE /\ call' = [call EXCEPT ![c] = Idle] /\ UNCHANGED <<row, work>>
  /\ UNCHANGED <<current, link, ledger, signed, rec, frz, journal, chainVars, crashes>>

\* markPaid, in one transaction, with the row as its caller read it.
MarkPaid(t) ==
  IF HasRow(t) /\ row[t.winner].status \in InFlight
    THEN /\ SetStatus(t, "paid")
         /\ ledger' = IF \E l \in ledger : l.winner = t.winner THEN ledger ELSE ledger \cup {[winner |-> t.winner, id |-> t.id, amount |-> t.amount]}
    ELSE UNCHANGED <<row, ledger>>

\* The answer, whatever happened to the row meanwhile: a refusal puts it back,
\* anything that might have been sent or is on record is unknown.
Answered(c) ==
  LET t == Approved(c) IN
  /\ call[c].at = "answered" /\ call' = [call EXCEPT ![c] = Idle]
  /\ \/ call[c].answer = "ok" /\ MarkPaid(t)
     \/ /\ call[c].answer # "ok"
        /\ SetStatus(t, IF call[c].answer = "refused" THEN "awaiting_approval" ELSE "unknown")
        /\ UNCHANGED ledger
  /\ UNCHANGED <<current, link, signed, rec, frz, signerVars, chainVars, crashes>>

\* The signer is unreachable, or its answer does not arrive.
LoseAnswer(c) ==
  /\ call[c].at = "waiting"
  /\ call' = [call EXCEPT ![c].at = "answered", ![c].answer = "unknown"]
  /\ work' \in {work} \cup (IF work[c].at = "asked" THEN {[work EXCEPT ![c] = Idle]} ELSE {})
  /\ UNCHANGED <<agentVars, signed, rec, frz, journal, chainVars, crashes>>

-----------------------------------------------------------------------------
(* The agent: reconcile.                                                   *)

\* mutated: what was sent is paid; and a row without a record waits for the signer.
Verdict_Sent(w) ==
  IF journal[w] = Unrecorded THEN "awaiting_approval"
  ELSE CASE journal[w].status \in {"sent", "confirmed"} -> "paid"
         [] journal[w].status = "failed_unsent" -> "failed"
         [] OTHER -> "unknown"
Verdict_Waits(w) == IF journal[w] = Unrecorded THEN row[w].status ELSE "unknown"

\* What the journal says of a row in flight.
Verdict(w) ==
  IF journal[w] = Unrecorded THEN "awaiting_approval"          \* the signer never recorded it
  ELSE IF journal[w].terms.id # row[w].id THEN "unknown"       \* a person must look
  ELSE CASE journal[w].status = "confirmed" -> "paid"
         [] journal[w].status = "failed_unsent" -> "failed"
         [] OTHER -> "unknown"

ReconcileRead(w) ==
  /\ rec.at = "idle" /\ row[w].status \in InFlight
  /\ Verdict(w) # row[w].status
  /\ rec' = [at |-> Verdict(w), terms |-> TermsFor(w)]
  /\ UNCHANGED <<agentVars, signed, call, frz, signerVars, chainVars, crashes>>

\* 'unknown' is written whatever the row is by now, the others over a row in flight.
ReconcileWrite ==
  /\ rec.at # "idle" /\ rec' = NoRec
  /\ CASE rec.at = "paid" -> MarkPaid(rec.terms)
       [] rec.at = "unknown" -> SetStatus(rec.terms, "unknown") /\ UNCHANGED ledger
       [] OTHER -> /\ IF row[rec.terms.winner].status \in InFlight THEN SetStatus(rec.terms, rec.at) ELSE UNCHANGED row
                   /\ UNCHANGED ledger
  /\ UNCHANGED <<current, link, signed, call, frz, signerVars, chainVars, crashes>>

-----------------------------------------------------------------------------
(* The signer.                                                             *)

Asked(c) == signed[work[c].approval]

\* What these winners' rows of the journal add up to, unit by unit.
Units(W) == UNION {{w} \X (1 .. journal[w].terms.amount) : w \in W}

\* Mutant: what is under way does not count.
Committed_Confirmed == Cardinality(Units({w \in Winner : journal[w].status = "confirmed"}))

\* Payments that count against a cap: every row except one that sent nothing.
Counted(w) == journal[w].status \notin {"none", "failed_unsent"}
Committed  == Cardinality(Units({w \in Winner : Counted(w)}))
PoolOf(s) == MapThenSumSet(LAMBDA w : Lines[s][w].amount, Winner)

\* check: the caps, then one payout per winner, ever.
JournalRefuses(t) ==
  IF Committed + t.amount > EventMax \/ Committed + t.amount > PoolOf(t.statement) THEN "refused"
  ELSE IF journal[t.winner] # Unrecorded THEN "recorded" ELSE "no"

\* The statement names the winner as payable, for this amount.
Payable(t) == Lines[t.statement][t.winner] = [amount |-> t.amount, held |-> FALSE]

Reply(c, answer) ==
  /\ work' = [work EXCEPT ![c] = Idle]
  /\ call' = IF call[c].at = "waiting" THEN [call EXCEPT ![c].at = "answered", ![c].answer = answer] ELSE call

Proceed(c, place) == work' = [work EXCEPT ![c].at = place] /\ UNCHANGED call

Outside == UNCHANGED <<agentVars, signed, rec, frz, crashes>>

\* Refused before anything is recorded, for a reason of the request's own.
Refuse(c) ==
  /\ work[c].at \in {"asked", "checked"} /\ Reply(c, "refused")
  /\ Outside /\ UNCHANGED <<journal, chainVars>>

\* pay, up to the building of the transfer.
Check(c) ==
  LET t == Asked(c)
      j == journal[t.winner]
  IN
  /\ work[c].at = "asked"
  /\ IF ~Payable(t) THEN Reply(c, "refused")
     ELSE IF j.status = "confirmed" /\ j.terms.id = t.id /\ j.approval = work[c].approval THEN Reply(c, "ok")   \* a replay
     ELSE IF JournalRefuses(t) # "no" THEN Reply(c, JournalRefuses(t))
     ELSE Proceed(c, "checked")
  /\ Outside /\ UNCHANGED <<journal, chainVars>>

\* mutated: what check found at the start still holds.
Reserve_Unchecked(c) ==
  /\ work[c].at = "checked" /\ tx' = [tx EXCEPT ![Asked(c).winner] = "signed"]
  /\ journal' = [journal EXCEPT ![Asked(c).winner] = [status |-> "sent", terms |-> Asked(c), approval |-> work[c].approval]]
  /\ Proceed(c, "sent") /\ UNCHANGED <<agentVars, signed, rec, frz, paid, crashes>>

\* reserve checks again and inserts, under one write lock; the row is marked sent
\* at once, unless the process dies in between.
Reserve(c) ==
  LET t == Asked(c) IN
  /\ work[c].at = "checked"
  /\ IF JournalRefuses(t) # "no"
       THEN Reply(c, JournalRefuses(t)) /\ UNCHANGED <<journal, tx, crashes>>
       ELSE /\ tx' = [tx EXCEPT ![t.winner] = "signed"]
            /\ \E status \in {"sent", "reserved"} :
                 /\ journal' = [journal EXCEPT ![t.winner] = [status |-> status, terms |-> t, approval |-> work[c].approval]]
                 /\ IF status = "sent" THEN Proceed(c, "sent") /\ UNCHANGED crashes
                    ELSE /\ crashes < MaxCrashes /\ crashes' = crashes + 1
                         /\ work' = [d \in Call |-> Idle] /\ UNCHANGED call
  /\ UNCHANGED <<agentVars, signed, rec, frz, paid>>

Broadcast(c) ==
  LET w == Asked(c).winner IN
  /\ work[c].at = "sent" /\ Proceed(c, "confirming")
  /\ tx' = IF tx[w] = "signed" THEN [tx EXCEPT ![w] = "live"] ELSE tx
  /\ Outside /\ UNCHANGED <<journal, paid>>

\* mark: an illegal transition throws, and the server answers 400.
Mark(c, status, answer) ==
  LET w == Asked(c).winner IN
  IF journal[w].status = "sent"
    THEN journal' = [journal EXCEPT ![w].status = status] /\ Reply(c, answer)
    ELSE UNCHANGED journal /\ Reply(c, "refused")

Confirmed(c) ==
  /\ work[c].at = "confirming" /\ tx[Asked(c).winner] = "landed" /\ Mark(c, "confirmed", "ok")
  /\ Outside /\ UNCHANGED chainVars

\* Sending or confirming threw, whatever became of the transaction.
Unconfirmed(c) ==
  /\ work[c].at \in {"sent", "confirming"} /\ Mark(c, "unknown", "unknown")
  /\ Outside /\ UNCHANGED chainVars

\* mutated: a timeout is taken for a failure.
Resolve_Silent(w) ==
  /\ journal[w].status \in {"reserved", "sent", "unknown"} /\ tx[w] # "landed"
  /\ journal' = [journal EXCEPT ![w].status = "failed_unsent"]
  /\ UNCHANGED <<agentVars, signed, midway, work, chainVars, crashes>>

\* resolvePayout, by a person, from what the chain says.
Resolve(w) ==
  /\ journal[w].status \in {"reserved", "sent", "unknown"}
  /\ \/ tx[w] = "landed" /\ journal' = [journal EXCEPT ![w].status = "confirmed"]
     \/ tx[w] \in {"failed", "expired"} /\ journal' = [journal EXCEPT ![w].status = "failed_unsent"]
  /\ UNCHANGED <<agentVars, signed, midway, work, chainVars, crashes>>

-----------------------------------------------------------------------------
(* What the public page of the event shows.                                *)

\* publicStatus: held, without a wallet and awaiting approval look the same.
PublicStatus(s) == CASE s = "paid" -> "paid" [] s \in InFlight -> "sending" [] OTHER -> "waiting"

\* Mutant: every payment on the ledger is listed beside the rows.
PublicWinners_AllPayments ==
  {[winner |-> w, status |-> PublicStatus(row[w].status), from |-> "row"] : w \in {v \in Winner : row[v].status \notin {"none", "removed"}}}
    \cup {[winner |-> l.winner, status |-> "paid", from |-> "ledger"] : l \in ledger}

\* publicGrainhackEvent: everybody on a row, and each payment whose row is gone.
PublicWinners ==
  LET listed == {w \in Winner : row[w].status \notin {"none", "removed"}} IN
  {[winner |-> w, status |-> PublicStatus(row[w].status), from |-> "row"] : w \in listed}
    \cup {[winner |-> l.winner, status |-> "paid", from |-> "ledger"] :
            l \in {m \in ledger : m.winner \notin listed \/ row[m.winner].id # m.id}}

-----------------------------------------------------------------------------
(* The world: the chain, the contributors, time, and processes that die.   *)

Chain(w) ==
  /\ \/ tx[w] = "live" /\ tx' = [tx EXCEPT ![w] = "landed"] /\ paid' = [paid EXCEPT ![w] = @ + 1]
     \/ tx[w] = "live" /\ tx' = [tx EXCEPT ![w] = "failed"] /\ UNCHANGED paid
     \/ tx[w] \in {"signed", "live"} /\ tx' = [tx EXCEPT ![w] = "expired"] /\ UNCHANGED paid
  /\ UNCHANGED <<agentVars, signed, midway, signerVars, crashes>>

\* A contributor links a wallet, or another one.
Link(w, x) ==
  /\ link[w] # x /\ link' = [link EXCEPT ![w] = x]
  /\ UNCHANGED <<current, row, ledger, signed, midway, signerVars, chainVars, crashes>>

\* runRetention (PersonalRecords) removes the rows of accounts erased, once nothing is open.
Forget(w) ==
  /\ \A v \in Winner : row[v].status \notin Open
  /\ row[w] # NoRow /\ row' = [row EXCEPT ![w] = NoRow]
  /\ UNCHANGED <<current, link, ledger, signed, midway, signerVars, chainVars, crashes>>

AgentCrash ==
  /\ crashes < MaxCrashes /\ crashes' = crashes + 1
  /\ call' = [c \in Call |-> Idle] /\ rec' = NoRec /\ frz' = NoFrz
  /\ UNCHANGED <<agentVars, signed, signerVars, chainVars>>

SignerCrash ==
  /\ crashes < MaxCrashes /\ crashes' = crashes + 1 /\ work' = [c \in Call |-> Idle]
  /\ UNCHANGED <<agentVars, signed, midway, journal, chainVars>>

-----------------------------------------------------------------------------
Agent(c)  == Claim(c) \/ Answered(c) \/ LoseAnswer(c)
Signer(c) == Refuse(c) \/ Check(c) \/ Reserve(c) \/ Broadcast(c) \/ Confirmed(c) \/ Unconfirmed(c)
Poll      == (\E w \in Winner : ReconcileRead(w)) \/ ReconcileWrite
People    ==
  \/ \E a \in Approval, w \in Winner : Sign(a, w)
  \/ \E c \in Call, a \in Approval : Approve(c, a)
  \/ \E w \in Winner : RefreezeRead(w) \/ Resolve(w) \/ (\E x \in Wallet : Link(w, x))
World ==
  \/ \E w \in Winner : Chain(w) \/ Forget(w)
  \/ AgentCrash \/ SignerCrash

Next ==
  \/ \E c \in Call : Agent(c) \/ Signer(c)
  \/ Poll \/ People \/ World \/ RefreshWallets \/ RefreezeWrite
  \/ \E s \in Statement : Import(s)

Spec == Init /\ [][Next]_vars

\* A handler that began goes on, and the poll comes round to every row in flight.
FairSpec ==
  /\ Spec /\ WF_vars(ReconcileWrite)
  /\ \A w \in Winner : SF_vars(ReconcileRead(w))
  /\ \A c \in Call : WF_vars(Agent(c)) /\ WF_vars(Signer(c))

-----------------------------------------------------------------------------
(* Properties.                                                             *)

\* One payout per winner, ever: across statements, retries, rows that were released,
\* resolved or forgotten, and whatever two processes do at once.
PaidOnce == \A w \in Winner : paid[w] <= 1

\* What is written down of a payout is what happened to it.  The agent records a
\* payment, on the row or on the public ledger, only if it was made, and the public
\* page of the event shows it once, whether its row is still there or not.  What a
\* person resolved as never sent, or the agent shows as failed, was not paid and
\* never will be.
RecordsAreTrue ==
  /\ \A p \in PublicWinners : p.status = "paid" => paid[p.winner] = 1
  /\ \A p, q \in PublicWinners : p.winner = q.winner /\ p.status = "paid" /\ q.status = "paid" => p = q
  /\ \A l \in ledger : paid[l.winner] = 1
  /\ \A w \in Winner :
       row[w].status = "failed" \/ journal[w].status = "failed_unsent" =>
         paid[w] = 0 /\ tx[w] \in {"failed", "expired"}

\* The event pays no more than its ceiling in all, whichever statements its payments
\* were approved under and in whatever order the requests interleave.
WithinEvent == Cardinality(Units({w \in Winner : paid[w] > 0})) <= EventMax

\* The rest of the inductive invariant of the proofs: the types, ...
Row == [status : Unpaid \cup InFlight \cup {"none", "paid", "failed"}, id : Statement \cup {NoStatement},
        statement : Statement \cup {NoStatement}, amount : Nat, recipient : Wallet \cup {NoWallet}]

CallState  == [at : {"idle", "read", "waiting", "answered"}, approval : Approval \cup {NoApproval},
               answer : {"none", "ok", "refused", "recorded", "unknown"}]
WorkState  == [at : {"idle", "asked", "checked", "sent", "confirming"}, approval : Approval \cup {NoApproval}, answer : {"none"}]
RecState   == [at : {"idle", "paid", "unknown", "awaiting_approval", "failed"}, terms : Terms \cup {NoTerms}]
FrzState   == [at : {"idle", "read"}, winner : Winner \cup {NoTerms}, wallet : Wallet \cup {NoWallet}]
JournalRow == [status : {"none", "reserved", "sent", "unknown", "confirmed", "failed_unsent"},
               terms : Terms \cup {NoTerms}, approval : Approval \cup {NoApproval}]
Entry      == [winner : Winner, id : Statement, amount : Nat]

TypeOK ==
  /\ current \in Statement \cup {NoStatement} /\ row \in [Winner -> Row] /\ link \in [Winner -> Wallet \cup {NoWallet}]
  /\ ledger \subseteq Entry /\ signed \in [Approval -> Terms \cup {NoTerms}]
  /\ call \in [Call -> CallState] /\ work \in [Call -> WorkState] /\ rec \in RecState /\ frz \in FrzState
  /\ journal \in [Winner -> JournalRow]
  /\ tx \in [Winner -> {"none", "signed", "live", "landed", "failed", "expired"}] /\ paid \in [Winner -> Nat]
  /\ crashes \in 0 .. MaxCrashes

\* ... what the journal says of the chain, ...
TrueOf(w) ==
  /\ IF journal[w].status = "none" THEN journal[w] = Unrecorded
     ELSE /\ journal[w].approval \in Approval /\ journal[w].terms \in Terms
          /\ signed[journal[w].approval] = journal[w].terms /\ journal[w].terms.winner = w
  /\ tx[w] = "none" <=> journal[w].status = "none"
  /\ journal[w].status = "confirmed" => tx[w] = "landed"
  /\ journal[w].status = "failed_unsent" => tx[w] \in {"failed", "expired"}
  /\ paid[w] = IF tx[w] = "landed" THEN 1 ELSE 0

JournalIsTrue == \A w \in Winner : TrueOf(w)

\* ... what the agent keeps of the journal, on a row, on the ledger or under way, ...
ConfirmedAs(t)  == journal[t.winner].status = "confirmed" /\ journal[t.winner].terms.id = t.id
FailedUnsent(w) == journal[w].status = "failed_unsent"

RowFollows(w) ==
  /\ IF row[w].status = "none" THEN row[w] = NoRow ELSE row[w].id \in Statement /\ row[w].statement \in Statement
  /\ row[w].status = "paid" => ConfirmedAs([winner |-> w, id |-> row[w].id])
  /\ row[w].status = "failed" => FailedUnsent(w)

RecFollows ==
  /\ rec.at # "idle" => rec.terms \in Terms
  /\ rec.at = "paid" => ConfirmedAs(rec.terms)
  /\ rec.at = "failed" => FailedUnsent(rec.terms.winner)

RecordsFollow ==
  /\ \A w \in Winner : RowFollows(w)
  /\ \A l \in ledger : ConfirmedAs(l)
  /\ RecFollows
  /\ frz.at = "read" => frz.winner \in Winner

\* ... and where a request stands.
ShapeOf(c) ==
  /\ call[c].at # "idle" => call[c].approval \in Approval /\ signed[call[c].approval] \in Terms
  /\ call[c].at = "answered" /\ call[c].answer = "ok" => ConfirmedAs(Approved(c))
  /\ work[c].at # "idle" =>
       /\ work[c].approval \in Approval /\ signed[work[c].approval] \in Terms
       /\ call[c].at # "read" /\ (call[c].at = "waiting" => call[c].approval = work[c].approval)
  /\ work[c].at \in {"sent", "confirming"} => journal[Asked(c).winner].approval = work[c].approval

RequestShape == \A c \in Call : ShapeOf(c)

Inductive == TypeOK /\ JournalIsTrue /\ RecordsFollow /\ RequestShape /\ Committed <= EventMax

\* A payout is not left in flight: it is paid, failed or free to be approved again,
\* unless the journal has it in a state only a person may end.
InFlightIsSettled ==
  \A w \in Winner : row[w].status \in InFlight ~>
    row[w].status \notin InFlight \/ (journal[w] # Unrecorded /\ Verdict(w) = "unknown")
===============================================================================
