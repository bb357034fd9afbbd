---------------------------- MODULE InferenceSpend ----------------------------
(***************************************************************************)
(* Paying for inference: the agent's x402 client with its spend ledger     *)
(* (packages/x402/src/client.ts, packages/budget), and the inference       *)
(* signer with a journal of its own (services/signer/src/signer.ts).  The  *)
(* two share no database: each keeps a ceiling of its own, the agent's     *)
(* ledger learns what moved from the signer's answers only, and either     *)
(* process may crash.                                                      *)
(*                                                                         *)
(* A ledger entry, a journal row and a transaction are named by the call   *)
(* they were made for.  One action is the code between two awaits.         *)
(***************************************************************************)
EXTENDS Integers, FiniteSets

CONSTANTS
  Call,          \* inference calls
  Stray,         \* those that reach the signer past this agent's ledger, from another holder of its token
  Quote,         \* quote ids the gateway may hand out
  Amount,        \* the cap each of them quotes
  Phase, PhaseOf,\* the phase each call is booked on
  AgentFee,      \* the fee the agent reserves per payment: 10,000 lamports at its price
  SignerFee,     \* the fee the signer reserves per payment: the same, at a price of its own
  ChainFee,      \* fees the chain may charge
  MaxPerCall,    \* the signer's maxPerCallMicro
  AgentCeiling, Allocation,   \* the agent's lifetime ceiling and the phases' allocations
  SignerCeiling,              \* the signer's lifetime ceiling
  MaxCrashes     \* bound: crashes in a run

ASSUME SpendConstants ==
  /\ IsFiniteSet(Call) /\ Stray \subseteq Call
  /\ Amount \in [Quote -> Nat \ {0}]
  /\ PhaseOf \in [Call -> Phase]
  /\ AgentFee \in Nat /\ SignerFee \in Nat
  /\ ChainFee \subseteq 0 .. SignerFee
  /\ MaxPerCall \in Nat
  /\ AgentCeiling \in Nat /\ Allocation \in [Phase -> Nat] /\ SignerCeiling \in Nat
  /\ MaxCrashes \in Nat

\* The agent's own calls.
Agent == Call \ Stray

NoQuote == "no quote"
ASSUME NoQuoteAssumption == NoQuote \notin Quote

VARIABLES
  step,      \* where each call of the agent's client waits
  quote,     \* the quote the call has recorded
  receipt,   \* inference_calls.status
  note,      \* the status it is about to be given
  entry,     \* inference_spend.status of the call's entry
  paid,      \* inference_spend.amount_micro, as the signer answered it
  fee,       \* inference_spend.fee_micro, likewise
  place,     \* where the signer's handler of the call waits
  answer,    \* what the signer answered it
  asked,     \* the amount its request names, which its row and its transaction have
  row,       \* journal: inference_payments.status of the row it inserted
  rowFee,    \* journal: fee_micro
  net,       \* chain: its transaction
  charged,   \* chain: the fee charged for it
  crashes

agentVars  == <<step, quote, receipt, note, entry, paid, fee>>
signerVars == <<place, answer, asked, row, rowFee>>
chainVars  == <<net, charged>>
vars       == <<agentVars, signerVars, chainVars, crashes>>

Working == {"quoting", "quoted", "crediting", "reserving", "calling", "waiting",
            "releasing", "settling", "paid", "serving", "noting"}

TypeOK ==
  /\ step    \in [Call -> {"idle", "done"} \cup Working]
  /\ quote   \in [Call -> Quote \cup {NoQuote}]
  /\ receipt \in [Call -> {"none", "quoting", "quoted", "failed", "refused_budget", "refused_signer",
                           "payment_unknown", "paid", "served", "paid_not_served"}]
  /\ note    \in [Call -> {"none", "failed", "refused_budget", "refused_signer", "payment_unknown",
                           "served", "paid_not_served"}]
  /\ entry   \in [Call -> {"none", "reserved", "settled", "released"}]
  /\ paid    \in [Call -> 0 .. MaxPerCall]
  /\ fee     \in [Call -> 0 .. SignerFee]
  /\ place   \in [Call -> {"idle", "preparing", "broadcasting", "confirming", "done"}]
  /\ answer  \in [Call -> {"none", "paid", "refused", "unknown", "lost"}]
  /\ asked   \in [Call -> 0 .. MaxPerCall]
  /\ row     \in [Call -> {"none", "reserved", "sent", "confirmed", "failed_unsent"}]
  /\ rowFee  \in [Call -> 0 .. SignerFee]
  /\ net     \in [Call -> {"none", "pending", "landed", "dead"}]
  /\ charged \in [Call -> 0 .. SignerFee]
  /\ crashes \in 0 .. MaxCrashes

Init ==
  /\ step    = [c \in Call |-> "idle"]
  /\ quote   = [c \in Call |-> NoQuote]
  /\ receipt = [c \in Call |-> "none"]
  /\ note    = [c \in Call |-> "none"]
  /\ entry   = [c \in Call |-> "none"]
  /\ paid    = [c \in Call |-> 0]
  /\ fee     = [c \in Call |-> 0]
  /\ place   = [c \in Call |-> "idle"]
  /\ answer  = [c \in Call |-> "none"]
  /\ asked   = [c \in Call |-> 0]
  /\ row     = [c \in Call |-> "none"]
  /\ rowFee  = [c \in Call |-> 0]
  /\ net     = [c \in Call |-> "none"]
  /\ charged = [c \in Call |-> 0]
  /\ crashes = 0

-----------------------------------------------------------------------------
(* What an entry and a row count, one element per micro-unit.              *)

\* What a call reserves before it asks the signer: the cap it was quoted, and a fee.
Reserved(c) == Amount[quote[c]] + AgentFee

\* Mutant: an entry stops counting once it is settled.
LedgerCost_Reserved(c) == IF entry[c] = "reserved" THEN Reserved(c) ELSE 0

\* Mutant: a settled entry counts the cap, whatever the signer paid.
LedgerCost_Cap(c) ==
  CASE entry[c] = "reserved" -> Reserved(c)
    [] entry[c] = "settled"  -> Amount[quote[c]] + fee[c]
    [] OTHER                 -> 0

\* ledger.ts, committedMicro.
LedgerCost(c) ==
  CASE entry[c] = "reserved" -> Reserved(c)
    [] entry[c] = "settled"  -> paid[c] + fee[c]
    [] OTHER                 -> 0

\* journal.ts, committedMicro.
JournalCost(c) ==
  CASE row[c] \in {"reserved", "sent"} -> asked[c] + SignerFee
    [] row[c] = "confirmed"            -> asked[c] + rowFee[c]
    [] OTHER                           -> 0

LedgerUnits(calls) == UNION {{c} \X (1 .. LedgerCost(c)) : c \in calls}
JournalUnits       == UNION {{c} \X (1 .. JournalCost(c)) : c \in Call}

OfPhase(p) == {c \in Call : PhaseOf[c] = p}

-----------------------------------------------------------------------------
(* X402Client.call, up to the payment.                                     *)

Go(c, where) == step' = [step EXCEPT ![c] = where]

\* The receipt is given its last status, and the call throws or returns.
End(c, status) == Go(c, "noting") /\ note' = [note EXCEPT ![c] = status]

\* The call throws, and its receipt stays as it is.
Throw(c) == Go(c, "done") /\ UNCHANGED note

Start(c) ==
  /\ c \in Agent /\ step[c] = "idle"
  /\ receipt' = [receipt EXCEPT ![c] = "quoting"]
  /\ Go(c, "quoting")
  /\ UNCHANGED <<quote, note, entry, paid, fee, signerVars, chainVars, crashes>>

\* The gateway fails, or answers something other than 402.
QuoteFails(c) ==
  /\ step[c] = "quoting"
  /\ End(c, "failed") \/ Throw(c)
  /\ UNCHANGED <<quote, receipt, entry, paid, fee, signerVars, chainVars, crashes>>

\* Recorded on the receipt; quote_id is unique, so a repeated one throws.
RecordQuote(c, q) ==
  /\ step[c] = "quoting"
  /\ IF \E d \in Agent : quote[d] = q THEN Throw(c) /\ UNCHANGED <<quote, receipt>>
     ELSE /\ quote' = [quote EXCEPT ![c] = q]
          /\ receipt' = [receipt EXCEPT ![c] = "quoted"]
          /\ Go(c, "quoted") /\ UNCHANGED note
  /\ UNCHANGED <<entry, paid, fee, signerVars, chainVars, crashes>>

QuoteExpired(c) ==
  /\ step[c] = "quoted"
  /\ End(c, "failed")
  /\ UNCHANGED <<quote, receipt, entry, paid, fee, signerVars, chainVars, crashes>>

\* Surplus credit is believed to be enough: the signer proves the wallet's
\* ownership, unless its ceiling is reached or it cannot be reached.
AskBalanceProof(c) ==
  /\ step[c] = "quoted"
  /\ \/ Cardinality(JournalUnits) < SignerCeiling /\ Go(c, "crediting") /\ UNCHANGED note
     \/ Throw(c)
  /\ UNCHANGED <<quote, receipt, entry, paid, fee, signerVars, chainVars, crashes>>

\* The gateway serves on credit, refuses, or finds the credit short.
SpendCredit(c) ==
  /\ step[c] = "crediting"
  /\ \/ \E status \in {"served", "failed"} : End(c, status)
     \/ Go(c, "reserving") /\ UNCHANGED note
     \/ Throw(c)
  /\ UNCHANGED <<quote, receipt, entry, paid, fee, signerVars, chainVars, crashes>>

PayOnchain(c) ==
  /\ step[c] = "quoted"
  /\ Go(c, "reserving")
  /\ UNCHANGED <<quote, receipt, note, entry, paid, fee, signerVars, chainVars, crashes>>

\* governor.ts, decide.
Fits(c) ==
  /\ Cardinality(LedgerUnits(Call)) + Reserved(c) <= AgentCeiling
  /\ Cardinality(LedgerUnits(OfPhase(PhaseOf[c]))) + Reserved(c) <= Allocation[PhaseOf[c]]

\* Under the advisory lock: the sum that is checked is the sum inserted against.
ReserveBudget(c) ==
  /\ step[c] = "reserving"
  /\ IF Fits(c)
       THEN entry' = [entry EXCEPT ![c] = "reserved"] /\ Go(c, "calling") /\ UNCHANGED note
       ELSE End(c, "refused_budget") /\ UNCHANGED entry
  /\ UNCHANGED <<quote, receipt, paid, fee, signerVars, chainVars, crashes>>

-----------------------------------------------------------------------------
(* Signer.payQuote.                                                        *)

Reply(c, what) == place' = [place EXCEPT ![c] = "done"] /\ answer' = [answer EXCEPT ![c] = what]

\* Mutant: a quote is free again once its payment has been sent.
Existing_Reserved(q) == {d \in Call : row[d] = "reserved" /\ quote[d] = q}

\* The quote's earlier payment, whoever asked for it.
Existing(q) == {d \in Call : row[d] # "none" /\ quote[d] = q}

\* The checks of the request (network, asset, address, expiry) pass, or not;
\* then the journal's transaction: the ceiling, and the row.
Decide(c, q, amount, wellFormed) ==
  IF ~wellFormed \/ amount > MaxPerCall THEN Reply(c, "refused") /\ UNCHANGED <<asked, row, paid, fee>>
  ELSE IF Existing(q) # {}
    THEN \* A confirmed payment is replayed, with the amount it had; any other is a 409.
         /\ UNCHANGED <<asked, row>>
         /\ \E d \in Existing(q) :
              IF row[d] = "confirmed"
                THEN /\ Reply(c, "paid")
                     /\ paid' = [paid EXCEPT ![c] = asked[d]]
                     /\ fee' = [fee EXCEPT ![c] = rowFee[d]]
                ELSE Reply(c, "refused") /\ UNCHANGED <<paid, fee>>
  ELSE /\ UNCHANGED <<paid, fee>>
       /\ IF Cardinality(JournalUnits) + amount + SignerFee > SignerCeiling
            THEN Reply(c, "refused") /\ UNCHANGED <<asked, row>>
            ELSE /\ row' = [row EXCEPT ![c] = "reserved"]
                 /\ asked' = [asked EXCEPT ![c] = amount]
                 /\ place' = [place EXCEPT ![c] = "preparing"]
                 /\ UNCHANGED answer

\* The agent's request arrives, for the cap it was quoted.
RequestPay(c, wellFormed) ==
  /\ step[c] = "calling" /\ place[c] = "idle"
  /\ Go(c, "waiting")
  /\ Decide(c, quote[c], Amount[quote[c]], wellFormed)
  /\ UNCHANGED <<quote, receipt, note, entry, rowFee, chainVars, crashes>>

\* Another client's request arrives, with any quote and any amount; a malformed one
\* changes nothing.
RequestStray(c, q, amount) ==
  /\ c \in Stray /\ place[c] = "idle"
  /\ quote' = [quote EXCEPT ![c] = q]
  /\ Decide(c, q, amount, TRUE)
  /\ UNCHANGED <<step, receipt, note, entry, rowFee, chainVars, crashes>>

PrepareFails(c) ==
  /\ place[c] = "preparing"
  /\ row' = [row EXCEPT ![c] = "failed_unsent"]
  /\ Reply(c, "refused")
  /\ UNCHANGED <<agentVars, asked, rowFee, chainVars, crashes>>

\* Signed: the signature is recorded before anything is broadcast.
Prepare(c) ==
  /\ place[c] = "preparing"
  /\ row' = [row EXCEPT ![c] = "sent"]
  /\ place' = [place EXCEPT ![c] = "broadcasting"]
  /\ UNCHANGED <<agentVars, answer, asked, rowFee, chainVars, crashes>>

Broadcast(c) ==
  /\ place[c] = "broadcasting"
  /\ net' = [net EXCEPT ![c] = "pending"]
  /\ place' = [place EXCEPT ![c] = "confirming"]
  /\ UNCHANGED <<agentVars, answer, asked, row, rowFee, charged, crashes>>

\* Mutant: a failed broadcast is taken for an unsent payment, with a 4xx.
OutcomeUnknown_Refused(c) ==
  /\ place[c] \in {"broadcasting", "confirming"}
  /\ Reply(c, "refused")
  /\ UNCHANGED <<agentVars, asked, row, rowFee, chainVars, crashes>>

\* Mutant: and its row as well.
OutcomeUnknown_Unsent(c) ==
  /\ place[c] \in {"broadcasting", "confirming"}
  /\ Reply(c, "unknown")
  /\ row' = [row EXCEPT ![c] = "failed_unsent"]
  /\ UNCHANGED <<agentVars, asked, rowFee, chainVars, crashes>>

\* Sending, or waiting for the confirmation, throws: a 502, and the row stays sent.
OutcomeUnknown(c) ==
  /\ place[c] \in {"broadcasting", "confirming"}
  /\ Reply(c, "unknown")
  /\ UNCHANGED <<agentVars, asked, row, rowFee, chainVars, crashes>>

\* The fee is the chain's, or the reserve when the chain does not say.  The answer
\* carries amount and fee to the agent, where they are that call's until it is settled.
Confirm(c) ==
  /\ place[c] = "confirming" /\ net[c] = "landed"
  /\ \E f \in {charged[c], SignerFee} :
       /\ rowFee' = [rowFee EXCEPT ![c] = f]
       /\ fee' = [fee EXCEPT ![c] = f]
  /\ paid' = [paid EXCEPT ![c] = asked[c]]
  /\ row' = [row EXCEPT ![c] = "confirmed"]
  /\ Reply(c, "paid")
  /\ UNCHANGED <<step, quote, receipt, note, entry, asked, chainVars, crashes>>

-----------------------------------------------------------------------------
(* X402Client.call, after the payment.                                     *)

\* Mutant: a lost answer throws, and the receipt is left as it was.
Unreachable_Throws(c) ==
  /\ step[c] \in {"calling", "waiting"}
  /\ Throw(c)
  /\ UNCHANGED <<quote, receipt, entry, paid, fee, signerVars, chainVars, crashes>>

\* The request did not get through, or its answer did not.
Unreachable(c) ==
  /\ step[c] \in {"calling", "waiting"}
  /\ End(c, "payment_unknown")
  /\ UNCHANGED <<quote, receipt, entry, paid, fee, signerVars, chainVars, crashes>>

ReadAnswer(c) ==
  /\ step[c] = "waiting" /\ answer[c] \in {"paid", "refused", "unknown"}
  /\ \/ answer[c] = "refused" /\ Go(c, "releasing") /\ UNCHANGED note
     \/ answer[c] = "paid"    /\ Go(c, "settling") /\ UNCHANGED note
     \/ answer[c] = "unknown" /\ End(c, "payment_unknown")
  /\ UNCHANGED <<quote, receipt, entry, paid, fee, signerVars, chainVars, crashes>>

\* A 200 whose body cannot be read is "paid" to the client all the same, with NaN for
\* its amounts: not above any cap, and refused by the ledger's columns.  The call
\* throws out of settle(), and neither the entry nor the receipt is touched.
ReadUnreadable(c) ==
  /\ step[c] = "waiting" /\ answer[c] = "paid"
  /\ Throw(c)
  /\ UNCHANGED <<quote, receipt, entry, paid, fee, signerVars, chainVars, crashes>>

Release(c) ==
  /\ step[c] = "releasing"
  /\ entry' = [entry EXCEPT ![c] = "released"]
  /\ End(c, "refused_signer")
  /\ UNCHANGED <<quote, receipt, paid, fee, signerVars, chainVars, crashes>>

\* At the amount and the fee the signer answered, be they above what was reserved.
Settle(c) ==
  /\ step[c] = "settling"
  /\ entry' = [entry EXCEPT ![c] = "settled"]
  /\ Go(c, "paid")
  /\ UNCHANGED <<quote, receipt, note, paid, fee, signerVars, chainVars, crashes>>

\* Above the cap, the payment is on the books, and the call throws without asking the
\* gateway.
RecordPaid(c) ==
  /\ step[c] = "paid"
  /\ receipt' = [receipt EXCEPT ![c] = "paid"]
  /\ Go(c, IF paid[c] > Amount[quote[c]] THEN "done" ELSE "serving")
  /\ UNCHANGED <<quote, note, entry, paid, fee, signerVars, chainVars, crashes>>

\* The gateway serves it, after a bounded number of retries gives up, or is lost.
Serve(c) ==
  /\ step[c] = "serving"
  /\ (\E status \in {"served", "paid_not_served"} : End(c, status)) \/ Throw(c)
  /\ UNCHANGED <<quote, receipt, entry, paid, fee, signerVars, chainVars, crashes>>

Note(c) ==
  /\ step[c] = "noting"
  /\ receipt' = [receipt EXCEPT ![c] = note[c]]
  /\ Go(c, "done")
  /\ UNCHANGED <<quote, note, entry, paid, fee, signerVars, chainVars, crashes>>

-----------------------------------------------------------------------------
(* The chain, and crashes.                                                 *)

Land(c) ==
  /\ net[c] = "pending"
  /\ net' = [net EXCEPT ![c] = "landed"]
  /\ \E f \in ChainFee : charged' = [charged EXCEPT ![c] = f]
  /\ UNCHANGED <<agentVars, signerVars, crashes>>

\* It fails on the chain, where it is charged for all the same, or expires.
Die(c) ==
  /\ net[c] = "pending"
  /\ net' = [net EXCEPT ![c] = "dead"]
  /\ \E f \in ChainFee \cup {0} : charged' = [charged EXCEPT ![c] = f]
  /\ UNCHANGED <<agentVars, signerVars, crashes>>

AgentCrash ==
  /\ crashes < MaxCrashes /\ crashes' = crashes + 1
  /\ step' = [c \in Call |-> IF step[c] \in Working THEN "done" ELSE step[c]]
  /\ UNCHANGED <<quote, receipt, note, entry, paid, fee, signerVars, chainVars>>

SignerCrash ==
  /\ crashes < MaxCrashes /\ crashes' = crashes + 1
  /\ LET cut == {c \in Call : place[c] \in {"preparing", "broadcasting", "confirming"}} IN
     /\ place'  = [c \in Call |-> IF c \in cut THEN "done" ELSE place[c]]
     /\ answer' = [c \in Call |-> IF c \in cut THEN "lost" ELSE answer[c]]
  /\ UNCHANGED <<agentVars, asked, row, rowFee, chainVars>>

-----------------------------------------------------------------------------
Quoting(c) == QuoteFails(c) \/ \E q \in Quote : RecordQuote(c, q)
Quoted(c)  == QuoteExpired(c) \/ AskBalanceProof(c) \/ SpendCredit(c) \/ PayOnchain(c) \/ ReserveBudget(c)
Paying(c)  == (\E wellFormed \in BOOLEAN : RequestPay(c, wellFormed)) \/ Unreachable(c) \/ ReadAnswer(c) \/ ReadUnreadable(c)
Ending(c)  == Release(c) \/ Settle(c) \/ RecordPaid(c) \/ Serve(c) \/ Note(c)
ClientStep(c) == Quoting(c) \/ Quoted(c) \/ Paying(c) \/ Ending(c)
SignerStep(c) == PrepareFails(c) \/ Prepare(c) \/ Broadcast(c) \/ OutcomeUnknown(c) \/ Confirm(c)

Next ==
  \/ \E c \in Call : Start(c) \/ ClientStep(c) \/ SignerStep(c) \/ Land(c) \/ Die(c)
  \/ \E c \in Call, q \in Quote, amount \in 1 .. MaxPerCall : RequestStray(c, q, amount)
  \/ AgentCrash \/ SignerCrash

Spec == Init /\ [][Next]_vars

\* Every await settles: fetches fail or are aborted, Postgres answers.
FairSpec == Spec /\ \A c \in Call : WF_vars(ClientStep(c)) /\ WF_vars(SignerStep(c))

-----------------------------------------------------------------------------
(* Properties.                                                             *)

\* Its transaction has moved money, or still may.
MayPay(c) == net[c] \in {"pending", "landed"}

\* The gateway is never paid twice on one quote, although a quote may reach the
\* signer again, from whoever holds its token.
OnePaymentPerQuote == \A c, d \in Call : c # d /\ MayPay(c) /\ MayPay(d) => quote[c] # quote[d]

\* What was moved by the transaction of a call, strays included; a transaction counts
\* from the moment it is sent, even one that died.
MovedCost(c) == IF net[c] = "none" THEN 0 ELSE asked[c] + charged[c]
MovedUnits   == UNION {{c} \X (1 .. MovedCost(c)) : c \in Call}

\* What the agent's ledger stopped counting never moves: a reservation is only
\* released when it is certain that nothing was sent, whatever crashed.  And what a
\* settled entry counts is all that was moved for its quote, although the quote may
\* have been paid by another client, at another amount.
NothingUncounted ==
  \A c \in Agent :
    /\ net[c] # "none" => entry[c] \in {"reserved", "settled"}
    /\ entry[c] = "settled" =>
         \A d \in Call : net[d] = "landed" /\ quote[d] = quote[c] => MovedCost(d) <= LedgerCost(c)

\* What was moved of the signer's wallet stays within its own ceiling, whoever asked.
SignerCeilingHolds == Cardinality(MovedUnits) <= SignerCeiling

\* What an entry counts, up to what it reserved.
Lesser(m, n) == IF m <= n THEN m ELSE n
Budgeted(c)  == IF entry[c] = "none" THEN 0 ELSE Lesser(LedgerCost(c), Reserved(c))

BudgetUnits(calls) == UNION {{c} \X (1 .. Budgeted(c)) : c \in calls}

\* The entry counts more than it reserved.
Overrun(c) == entry[c] # "none" /\ LedgerCost(c) > Reserved(c)

\* Up to what they reserved, the entries of the agent's ledger stay within its
\* ceiling, and those of each phase within its allocation.  A settlement may exceed
\* its reservation, and so the ceiling, in two ways only: the signer's fee is above
\* the agent's reserve, or another client had the quote paid above its cap.
BudgetHolds ==
  /\ Cardinality(BudgetUnits(Call)) <= AgentCeiling
  /\ \A p \in Phase : Cardinality(BudgetUnits(OfPhase(p))) <= Allocation[p]
  /\ \A c \in Agent : Overrun(c) =>
       \/ fee[c] > AgentFee
       \/ \E d \in Stray : net[d] = "landed" /\ quote[d] = quote[c] /\ asked[d] > Amount[quote[c]]

\* A receipt says paid, or paid_not_served, only of a quote somebody's transaction paid.
PaidIsPaid ==
  \A c \in Agent : receipt[c] \in {"paid", "paid_not_served"} =>
     \E d \in Call : net[d] = "landed" /\ quote[d] = quote[c]

\* The signer said that it has paid, and the agent's client could not read it.
Misread(c) == step[c] = "done" /\ answer[c] = "paid" /\ receipt[c] = "quoted"

\* Without a crash no reservation is left behind unexplained: it is settled,
\* released, or its receipt says that the outcome is not known.  The one exception is
\* ReadUnreadable: a lost or failed answer, a refusal, or a replay does not end there.
ReservationsResolved ==
  \A c \in Agent :
     entry[c] = "reserved" ~>
       entry[c] # "reserved" \/ receipt[c] = "payment_unknown" \/ Misread(c) \/ crashes > 0

\* Both ledgers are purses: what moves was held first, within the limit.  The agent's
\* is one up to what each call reserved; what is above that, BudgetHolds explains and
\* NothingUncounted has counted.
AgentPurse == INSTANCE SpendLimit WITH
  Claim <- Agent, Limit <- AgentCeiling,
  held  <- [c \in Agent |-> {c} \X (1 .. Budgeted(c))],
  moved <- [c \in Agent |-> {c} \X (1 .. IF net[c] = "none" THEN 0 ELSE Lesser(MovedCost(c), Reserved(c)))]

SignerPurse == INSTANCE SpendLimit WITH
  Claim <- Call, Limit <- SignerCeiling,
  held  <- [c \in Call |-> {c} \X (1 .. JournalCost(c))],
  moved <- [c \in Call |-> {c} \X (1 .. MovedCost(c))]

AgentHoldsFirst  == AgentPurse!Spec
SignerHoldsFirst == SignerPurse!Spec
===============================================================================
