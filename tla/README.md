# Verification of the Grainlify bounty agent

TLA+ specifications of the bounty agent in this repository, their TLC
configurations, and theorems about them checked by TLAPS. The definitions
follow the code under `src/`; `PROJECT.json` names the file and lines behind
each of them, lists the hazards they are for, and gives, for every property, a
mutated definition under which TLC finds it violated.

The code is read as written. Where a comment or a document says something else,
the model follows the code, and the disagreement is in "Where code and words
part" below.

## The system

| Part | Code | State | Operations | What makes it correct |
|---|---|---|---|---|
| Front door and board | `apps/agent/src/server.ts`, `service.ts`, `draw-service.ts`, `fit-service.ts`, `packages/gate` | spent nonces, settings, the repository's switches, bounties and their windows | signed messages, settings, repository switch, propose, seed, apply, a maintainer's draw | a message acts once; an issue announces one bounty, and the agent knows it; a draw can be worked out again from its record |
| Weighted draw | `packages/gate/src/draw.ts` | none | tickets, weighted pick, record of a draw | the odds are the tickets |
| Assignments | `apps/agent/src/draw-service.ts`, `service.ts`, `scheduler.ts` | `bounty_applications`, `bounty_assignments`, the bounty's window and redraw columns, `submissions` | draw, minute sweep, webhooks, unassign, close, deadline | one holder; nobody with a pull request is swept out; no bounty is stranded |
| Gate and payouts | `apps/agent/src/service.ts`, `payout-client.ts` | `payouts`, `payout_approvals`, `bounties` | merge webhook, approve, reject | what is shown was paid, what was paid is known |
| Payout signer | `services/signer/src/payout` | SQLite journal of payouts; the float and attestor keys; the chain | `POST /v1/payout/pay`, `POST /v1/escrow/release` | a bounty is paid at most once, under the caps, after its merge; what moved is in the journal |
| Funded bounties | `apps/agent/src/funded-service.ts`, `escrow-service.ts` | the mirror of the escrow account, unassign proposals | prepare, confirm, assign, draw, unassign, propose and respond, reclaim, reconcile | the mirror says what the chain said, and differences end |
| Escrow program | `contracts/escrow` | one escrow account and vault per bounty | initialize, assign, unassign, release, refund, cancel | locked money goes whole to somebody named, or back to the funder when it may |
| Inference spending | `packages/x402`, `packages/budget`, `services/signer/src/*.ts` | the agent's spend ledger; the inference signer's journal | call, reserve, settle, release; pay, mark | both ceilings hold; no payment is uncounted; no quote is paid twice |
| GrainHack | `apps/agent/src/grainhack`, `services/signer/src/grainhack` | statements, payout rows, a ledger; a journal with event caps | import, refreeze, approve, reconcile; pay, resolve | a winner is paid once, the event keeps to its ceiling, rows agree with the chain |
| Records of a person | `apps/agent/src/events.ts`, `event-sender.ts`, `erasure-service.ts`, `grainhack/backend.ts`, `grainhack/retention.ts`, `service.ts` | wallet links, two outboxes, `account_erasures` | link, queue, deliver, erase, finish, retain | a payment is never forgotten before the backend knows of it; nothing is stuck; an erasure ends |

How they interact: a person signs in at Grainlify, which countersigns a message
for one action and ten minutes; the page posts it to the agent, which spends its
nonce and acts. GitHub posts webhooks to the agent, which records submissions and,
for a merge, runs the gate and inserts a payout. A person's signed approval is
posted to the agent, which claims the payout row and calls the payout signer over
HTTP; the signer checks the approval, GitHub and (for a funded bounty) the escrow
account, holds the money in its journal, and only then sends a transaction. The
signer trusts nothing the agent says: the two share no database. For a funded
bounty the agent asks the attestor, in the signer, to name a contributor on the
chain, the funder acts on the chain from a wallet of their own, and the agent
mirrors what the account says. When the agent asks a model a question it reserves
the quoted price in its own ledger, has the inference signer pay the quote, and
settles the entry with what the signer answers; the signer counts against a
ceiling of its own. GrainHack payouts go from a statement of the backend, by a
person's approval, to a third signer with a journal of its own, and a payment is
reported to the backend through an outbox. A minute timer in the agent releases
overdue holders, draws bounties, reconciles, delivers and finishes erasures;
handlers of the agent share nothing but Postgres rows.

What is hard in it:

* handlers interleave at every `await` (GitHub, the chain, every SQL statement),
  and act on what they read before it;
* a transaction whose confirmation was not seen may still land, or never;
* an HTTP answer may be lost, or arrive without a body that can be read, after the
  work was done;
* any process may crash between two writes, and nothing re-runs a webhook;
* webhooks and signed messages are late, lost, repeated or overtake one another;
* the funder changes the chain without asking the agent;
* caps, nonces and unique indexes are what serialises otherwise independent
  handlers.

## Modules

`PayOnce` — what a payout is for: money for a bounty is held, then paid at most
once, or given up if it did not move. Abstract; no calls, rows or chain.

`PayoutSigner` — the payout signer. One action is the code between two awaits of
a handler: `Request` (the checks of the request), `FetchPull`/`FetchFails`
(GitHub), `ReadEscrow`/`ReadFails` (the account), both of which end in `Reserve`
when they pass; then `Prepare`, `Broadcast`, `ConfirmPay` for a float transfer
and `SignAndSend`, `MarkReleaseSent`, `MarkReleaseConfirmed` for a release, with
`PrepareFails`, `SignFails` and `OutcomeUnknown` as what may throw. The state is
the journal (`row`, `sig`, `day`), what each caller was answered (`reply`),
GitHub (`pull`), the escrow accounts (`escrow`), and a chain (`net`) on which a
sent transaction is pending until `Land` or `Die`, whatever the signer believes.
`Crash` loses every request in flight and keeps the journal.

`BountyPayouts` — the agent's side, composed with `PayoutSigner`: the merge webhook's
gate and payout row, approvals, the claim `proposed → approved`, the HTTP call and how
it ends for the agent (ok, refused, unknown, and `ApproveUnreadable`: an ok whose body
cannot be read, which the client takes for a refusal), and the statements after an ok,
with crashes of the agent at each. `PublicPayments` is what the public page lists.

`DrawOdds` — the draw as arithmetic: `Times` says how often a weight applies to an
applicant, `TicketsFrom` multiplies them, `PickWeighted` takes the candidate a roll
falls on, `RunDraw` is the record that is published. The code computes with
floating-point numbers; here weights are in quarters and tickets in their common
denominator, so that odds can be compared exactly. Products and running sums are
recursive functions, so that they can be reasoned about. `FairOdds` counts the rolls
each candidate wins and compares with their part of the tickets.

`BountyBoard` — what happens before somebody holds a bounty. A request is
delivered (`Deliver`: the message is of the route's kind and in time), spends its
nonce (`Spend`) and acts: `SetSetting`, `ResetSetting`, `SetRepo`, the four steps of
`apply` (`ApplyRead`, `ApplyCheck`, `ApplyWrite`, `Assess`) or the three of a draw
(`DrawRead`, `DrawRecord`, `DrawAssign`), with whatever it has read in `req[r]`. The
commands `bounty propose` and `bounty seed` are processes of their own (`post[b]`)
and may die anywhere. `ParseFit` is what the
assessment makes of a model's answer, `CanManageBounty` who may draw, `InOrder` the order
in which a draw reads its pool. It extends `DrawOdds`.

`BountyAssignment` — one bounty that is not maintainer-funded: applications
(checked, then written), `runDrawFor` in eight statements, the minute sweep
(`recordSubmittedPullRequests`, `releaseStaleAssignments`, extension, draw), the
webhooks for opened, closed and merged pull requests, `unassignByDecision`,
`closeByDecision`, `setAssignmentDeadline`, and a crash. Each handler's record
(`draw[d]`, `hook[h]`, `unassign`, `sweep`) holds what it has read and where it
waits. What the gate knows that this model does not (labels, reviews, wallet
links) is one Boolean choice, `others`. `NewcomersOnly` is a reserved bounty whose
fallback to the open pool is switched off: its draw may then end with nobody drawn,
though there are applicants.

`FundedBounty` — the agent's side of a funded bounty, extending `BountyEscrow`: the
chain is the program's own actions, taken by the funder at any time or by the attestor
when asked. The rows are the mirror (`row`), the assignments, the proposals; `job[l]`
is what a request or the sweep is in the middle of, named for the statement it waits
before. Every exchange with the attestor is refused, lost or signed (`AttestorRefuses`,
`AttestorLoses`, `AttestorSigns`), and a lost one may land later (`late`). While a
funding transaction is out, the funder may sign it, or any other of their own, with any
of the amounts and modes and any deadline (`FunderSigns`), and anybody but an applicant
may pay into the vault (`OutsiderPays`). `Reconcile` reads the rows, then the account,
then `SeesClosed`, `SeesNamed` or `SeesNobody` decides what differs. The payout is here
by its states only (`BountyPayouts` has it in detail); `UnreadablePay` is the release
that landed and is written down as failed, though its money arrived.

`SpendLimit` — a purse with a lifetime limit: hold, move, lower. Abstract.

`InferenceSpend` — the x402 client with its ledger, and the inference signer with its
journal, composed. An entry (`entry`, `fee`), a journal row (`row`, `rowFee`), a
receipt and a transaction (`net`, `charged`) are named by the call they belong to. The
client's actions follow `X402Client.call` from quote to receipt (`step` says where it
waits); the signer's follow `payQuote` (`place`). `Decide` is one step, because the
journal's check and insert are one SQLite transaction; `ReserveBudget` is one step,
because `PgSpendLedger` takes an advisory lock. `Unreachable` is the client giving up
whether or not the signer works on; `ReadUnreadable` is a 200 whose body it cannot
read; `OutcomeUnknown` is a 502 after the signature was recorded. Calls in `Stray`
reach the signer past this agent's ledger, from another holder of its token, for any
amount up to the signer's limit per call (`asked`), so that a replay may answer the
agent with another amount than it was quoted, and `Settle` may exceed the reservation
(the receipt still says paid, the entry counts what was moved). What the chain charges
for fees is any of `ChainFee`. The purse of `SpendLimit` is instantiated twice, for the
agent's ledger and for the signer's journal.

`EscrowPromise` — what the escrow program promises: locked money leaves whole,
to somebody it was promised to, or back to the funder, who may have it if it was
promised to nobody or is late; what somebody added to it (`extra`) stays, and keeps the
rest with it. Abstract.

`BountyEscrow` — the program's six instructions and the clock. An instruction is atomic
on Solana, so each is one action whose conjuncts are its constraints and `require!`s;
`CloseEscrow` closes vault and account, after which the same address may be funded
again. A vault is an ordinary token account: anybody may transfer into it (`PayIn`),
and since closing it fails unless the amount and the fee have emptied it, such a vault
pays nobody any more. `named` is a history variable: everybody named since the escrow
was funded. `Fee` rounds up and has a floor.

`GrainHack` — payouts of an event from statement to chain: `Import` and the rows it
lists, holds or removes, `Refreeze`, an approval checked, claimed, sent and answered,
the signer's own check, journal row, transaction and confirmation, `Reconcile`
reading the journal and writing what it says, `Resolve` by a person, `Forget` for
retention. `Verdict` is the signer's answer about an old payout. An agent's row and
the signer's row are in different databases and only meet through requests, either
side of which may be lost.

`PersonalRecords` — what the agent holds about a person, and how it goes: links, both
outboxes with their senders (`Send` posts, `Stamp` writes the answer), `EraseRead` and
`EraseCommit` (a transaction at read committed reads, others commit, it deletes),
`Finish`, and the retention pass (`RetentionPlan`, `RetentionAct`). Bounties and
GrainHack rows are here by what erasure and retention ask of them.

`…Proofs` modules hold the theorems (`FundedBountyProofs` those about `BountyEscrow`
too); `MC…` modules give the constants model
values; the `.cfg` files choose sizes.

## Runs

| Run | Question |
|---|---|
| `board_odds` | two requests at once and two commands on one issue, every message delivered again, settings changed before a draw: nothing is done twice, the issue announces one bounty that exists, a draw is explained by its record, the odds are the tickets, a capable newcomer leads |
| `assign_draw` | two draws at once, releases, decisions, a close and a crash: one holder |
| `assign_pulls` | webhooks late, lost and out of order: a pool is drawn, winners are told, released holders return to the pool, the sweep records what webhooks did not, a submitted row names its holder's pull request |
| `payouts_escrow` | agent and signer together, two merges and two approvals of a funded bounty whose escrow moves meanwhile: what is shown happened, what was paid is known, an approved payout reaches a known outcome unless the agent crashes |
| `signer_calls` | three calls for two bounties, float and escrow, over the day's cap together, crashes, a day boundary: everything that moves is in the journal and under the cap, an ok is true, a refusal signed nothing, the signer implements `PayOnce` |
| `funded_life` | a funded bounty in either mode from two preparations to its end, the funder free on the chain, somebody paying into the vault, a crash: a release is taken for a refund only where its answer could not be read, the mirror names only whom the chain named, the contributor gets what is advertised or nothing |
| `funded_draw` | draw mode with a proposal to unassign and a failing attestor: an agreement is carried out or overtaken, a closed escrow is noticed |
| `escrow_terms` | one address funded again and again, every key in every role: fees are rounded up, money returns unless somebody paid into the vault, the program implements `EscrowPromise` |
| `inference_calls` | two calls of the agent and a stray, two quotes, unreachable signers, unknown outcomes, a crash of either side: no quote paid twice, no payment uncounted though a quote be paid at another amount, both purses implement `SpendLimit` (the agent's up to what each call reserved), an entry left reserved is explained |
| `grainhack_pool` | two winners whose payouts exceed the ceiling together, two approvals in two requests: nobody twice, the event within its ceiling |
| `grainhack_live` | one winner under three statements, answers lost, a crash, a person who resolves, refreezes and forgets: records agree with the chain, nothing stays in flight unless a person must look |
| `records_erase` | a person who links, works, is paid and leaves, senders whose answers are lost, restarts: a payment is reported, forgotten only when known, no message blocks others, an erasure finishes |

### Bounds

Calls, approvals, days, assignments, extensions, proposals, preparations and
crashes are capped by constants (`MaxDay`, `MaxAssignments`, `MaxExtensions`,
`MaxProposals`, `MaxPrepares`, `MaxFailures`, `MaxCrashes`, `AgentCrashes`,
`MaxTime`); attempts and batches of the outboxes (`MaxAttempts`, `Batch`) are the
code's constants made small.

* Payouts: three calls are enough for two to race while a third replays; two
  days for the daily cap to turn over. The signer's crashes are not bounded.
* Assignments: two draws are all the code has (the scheduler never runs two
  sweeps at once, a maintainer may press Redraw); two people and two
  assignments give a release and a redraw. `PassDeadline` is only
  enabled while another assignment may still be made and no draw is under way: a
  deadline lies days after the draw that set it, and the bound must not be what
  strands a bounty. The bounty is reserved for newcomers, without the fallback, in
  `assign_draw`; in `assign_pulls` it is not, because such a bounty waits for a
  newcomer on purpose (`no_newcomers`), which is no failure of `NotStranded`.
* Board: two requests and six messages are one of every kind of action and two
  that compete; two instants give a window that is open and closed, and a message in
  and out of its time. Three rolls and two applicants put a roll on every side of a
  boundary; a veteran with three wins exceeds the clamp at two. Before the draw an
  admin may switch the assessment on and put a weight back that another value was set for.
* Funded bounty: two preparations let the funder sign older terms than the rows show;
  one applicant and two assignments give an assignment undone and made again; one
  proposal with each of its answers; the funder has enough for either offer, and, after
  the smaller, for a gift (`funded_life`; in `funded_draw` there are none).
  `funded_draw` has no crash, because the code repairs none of the states a crash
  leaves there.
* GrainHack: two winners of two units under a ceiling of three; three statements
  that list, change and drop a winner; one crash of either process.
* Records: one attempt and a batch of one make every given-up message a possible
  obstacle; one person suffices because nothing but the batch relates two people.
* Inference: the agent's ceiling (6) has room for two calls and its phase's
  allocation (4) not, until one has settled below its reservation; the signer's (5) is
  for two only once one is confirmed without a fee. The chain's fee is nothing or 2,
  above the agent's reserve (1) and at the signer's; the other client asks for up to 3
  where 2 and 1 are quoted. So every refusal, and settlements below and above the
  reservation for either cause, happen; one crash can hit either process anywhere. Two
  quotes let a quote be repeated and differ.
* Escrow: terms with a fee that is rounded, one that is not, a floor, and a percentage
  above the limit; two instants after the first give a deadline that has and has not
  passed; a gift of one token, from any key, is as good as any other; one address is
  enough because escrows share only the keys' balances, and `PromiseKept` is proved for
  any number.

Deadlock is not checked where the system may stop: every message spent, every call
answered, every bound reached.

### Fairness

`FairSystemSpec` (`BountyPayouts`) and `FairSpec` (`InferenceSpend`, `GrainHack`): a
handler that was started runs on. Node keeps scheduling it; every fetch has a
timeout or fails, `confirmTransaction` gives up when the blockhash expires, Postgres
answers. A crash ends a handler for good. `FairSpec` of `BountyAssignment`: the
sweep runs every minute, draws and webhook handlers run on. `FairFundedSpec`: begun
work goes on, and the sweep's turn for agreements and for the chain comes again and
again, though a request may be in the way at one moment (strong fairness).
`GrainHack`'s reconcile likewise reads every winner again and again, and
`PersonalRecords`' senders and finisher come round, restarts not falling between
the same two steps for ever. `FairSpec` of `BountyEscrow`: the clock advances, and a
funder who may have a refund asks for it. Nobody has to apply, merge, approve or
press a button, and nothing is assumed of the chain or of GitHub. Liveness is stated
with crashes excepted where the code has no recovery for a handler that died
half-way; the lines that leaves open are below.

### Where code and words part

The model follows the code in each. Four are exceptions that a property names, so that
it excludes every other way to the same end:

* The payout client reads a body with `r.json().catch(() => ({}))`
  (`payout-client.ts:16`): a 200 that is cut off becomes a refusal with status 200, and
  `service.ts:709` writes `failed` for a payout that was paid; the sibling client of
  GrainHack (`grainhack/signer-client.ts:49`) calls the same answer unknown.
  `ShownIsTrue` and `PaidIsKnown` say that this is the only way a payment is lost sight of.
* For a funded bounty the same answer makes reconcile record `refunded` for an escrow
  that paid its contributor, since a failed payout is not in flight
  (`funded-service.ts:880`). `NeverMistaken` excepts it (`Misread`).
* The inference client reads such a 200 as paid, with `NaN` for its amounts
  (`services/signer/src/client.ts:36`): the comparison with the cap lets it pass, the
  ledger's BIGINT column does not, and the entry stays reserved and the receipt quoted
  without a crash. `ReservationsResolved` excepts it (`Misread`).
* `lib.rs:17` says that the funder can always refund alone once the deadline passes,
  and line 328 that this path has to work when Grainlify is gone. A token somebody
  transferred into the vault stops refund, release and cancel alike, because
  `close_vault` (142) fails. `FundsReturn` and `EscrowPromise` except it (`Overfull`).

No property states the others.

* A budget is checked against reservations only: an entry may settle above its own, and
  the ledger exceed its ceiling, when the signer's fee is above the agent's reserve or
  another holder of the token had the quote paid above its cap, whose receipt is then
  replayed to the agent (`packages/x402/src/client.ts:222`,
  `services/signer/src/signer.ts:87`). The excess is counted (`NothingUncounted`) and
  those are its only causes (`BudgetHolds`, proved).
* A bounty cancelled while the sweep works through its list is drawn
  (`draw-service.ts:1449`; line 1065 excludes it); the sweep may redraw between a
  release by decision and `awaiting_redraw` (line 1034 says it waits for a person); an
  exclusion for one draw survives a draw without a winner.
* A bounty may stay in review with no open pull request, when the handler of the
  opening writes after the handler of the closing (`service.ts:488` and 582).
* A paid holder's assignment is never completed, and counts against them
  (`service.ts:715`).
* A bounty that is proposed becomes posted without an application window, so that
  nobody can apply (`service.ts:244`); whether a repository may have bounties is asked in
  two ways (`service.ts:203`).
* `validate` accepts numbers that are used as others (`draw-config.ts:228`); a comment on
  the weights says more than the arithmetic (`draw.ts:86`).
* A GrainHack approval claims the row that a superseding statement has meanwhile
  moved, amount and all: the public ledger then shows an amount other than the one paid
  (`grainhack/service.ts:333`). Whether and how often somebody was paid is not affected
  (`RecordsAreTrue`, `PaidOnce`).
* An erasure deletes spent nonces, so that a request to link a wallet works twice
  (`erasure-service.ts:118`); an assignment won between its read and its delete loses
  its link.

## Proofs

Every safety invariant, action property and refinement that a run checks is also a
theorem, for all values of the constants under the modules' named assumptions
(`ConstantsAssumption`, `RecipientAssumption`, `PayoutTermsAssumption`,
`AssignmentConstants`, `SpendConstants`, `EscrowConstants`,
`FundedConstants`, `GrainHackConstants`, `PersonalRecordsConstants`, `OddsConstants`,
`BoardConstants`, `StoredSettings`, and those that a null value is not a member of a
set). Most say what set a constant belongs to. Those that say more:

* `FundedConstants`: funder, attestor and applicants are different keys.
* `BoardConstants`: a person's completions and abandons together do not exceed their
  assignments, because they are counts of them (`draw-service.ts:730`); `MaxTimes`,
  the common denominator of the tickets, is large enough for everybody's abandons.
* `StoredSettings`: what is stored passed validation when it was stored.

*`PayoutSignerProofs`.* `Inductive` says what each place of a handler implies
about its row and transaction, that two rows never share a bounty, a payout or
an approval, and that the rows of a ledger and day fit its cap. `AtMostOnce`
alone is not inductive: that a second transaction cannot be sent rests on the row
written before the first, and that the row is never given up while its
transaction may land rests on the place the handler is in. From it follow
`PaidAtMostOnce`, `AlwaysAccounted`, `CapHolds`, `TraceableBeforeSent`,
`RefusedUnsent`, `OkIsTrue`, `MergedFirst`, the action property
`RowsOnlyMoveForward`, and `ImplementsPayOnce` (refinement).

*`BountyPayoutsProofs`.* `SystemInductive` is the signer's `Inductive` and, of the
agent, `AgentInductive`. A step of the signer is one of `PayoutSigner` and keeps the
first by its theorem; `SignerFrame` says what such a step leaves of the agent's calls.
The agent's part says what each place of an approve handler knows of the call it made
(`AtStep`), that a payout is claimed by one call for good (`ClaimedOnce`: the
conditional update `proposed → approved`), that no two webhook handlers are past their
gates on the same row (`GatesDiffer`), and that a mirror that says released is right
(`ReleaseIsFinal`). `WhatIsShownIsTrue` and `PaidPayoutsKnown` follow; a
row that says failed belongs to a claim that was refused or was told ok (`OfClaim`).

*`BountyAssignmentProofs`.* Every step either updates rows in place without
bringing one back to life, or inserts one live row where none is
(`AssignmentStep`); `AtMostOneHolder` follows. `SubmittedIsOwn` also needs what a
webhook handler carries past its upsert (`HookShape`). `Inductive` collects both
with the types and the shapes of the handlers' records. `NobodyFallsOut` is proved for
an agent in which no maintainer decides by hand (`~Decides`, as in the run): `PoolKept`
says that only the sweep's own return takes people back, that the row a draw has made
stays live and on the clock until the draw is over, and that an application is won only
while its applicant holds the bounty or is about to be returned. With decisions it is
false, as the attempt to prove it showed: see "What stays open".

*`InferenceSpendProofs`.* The local invariant of a call (`Local`) ties the place of the
signer's handler to its row and answer, the row to the transaction, the answer to the
row, and the client's place to its entry and the answer: it is what makes a release
safe, since a call only releases on a refusal, and a refusal is only given where
nothing was sent. `JournalStep` and `LedgerStep` say that a step either makes no row
(entry) dearer or inserts one that fits; with `UnitsMonotone` and `UnitsGrow` the
signer's ceiling is kept, and the agent's up to what each call reserved
(`BudgetIsKept`): a settlement above that is no step of a purse, and the theorem says
what alone can cause one. `PaymentsCounted` needs that a replayed answer has the amount
and the fee of the row that was confirmed, whoever asked for it. `OneCall`,
`OnlyMovesMove` and `MovesOf` say whose costs a step changes; from them every step is a
hold, a move, a lowering or a stutter of `SpendLimit` (`AgentIsPurse`, up to the
reservations, and `SignerIsPurse`).

*`FundedBountyProofs`.* First the program by itself. Its invariant is `TypeOK`,
`Backed`, `FeeIsQuoted` and `RemembersAssignment`; the last is what makes `cancel`,
which looks at `ever_assigned`, a return of money that was promised to nobody.
`VaultsBacked` bounds a vault from below only, since outsiders may add to it; that a
closing pays exactly what was locked comes from the closing itself, which fails on
anything else. `PromiseKept` maps each instruction to a step of `EscrowPromise`, and
`unassign` to a stutter: a promise is not taken back. Then the agent with it.
`FundedInductive` adds what each place of a request or of the sweep knows of the
account it has read (`AtWork`), what is true of the account before the funding was
confirmed (`BeforeFunding`), that the row and the live assignment name only people the
chain has named (`NamedOnChain`), and the two that a stale read could break: a
contributor who has money got the advertised amount from an account that is gone for
good, under a payout that is in flight or was misread (`PaidForGood`), and nobody can
be paid from one the agent has taken for refunded (`ClosedPaysNobody`). An answer
"Funded" that arrives after another funding names its person still: the proof needed
that, and the invariant says it. `MirrorAndChain` is the invariant;
`PaidNeverRefunded`, `WalletFromChain` and `TheFigureAdvertised` follow, and
`AgentKeepsThePromise` says that the composition still implements `EscrowPromise`.

*`GrainHackProofs`.* `Inductive` says that the journal is true of the chain, that the
agent's rows and its public ledger follow the journal, what each request may assume
where it stands, and that what counts against the ceiling fits it. A winner has one
journal row whatever statements say, and it is not given up while its transaction may
land; so `NoWinnerPaidTwice`, `RecordsTrue`, and, since everything paid is counted,
`EventWithinCeiling`.

*`PersonalRecordsProofs`.* What is stamped delivered was received, a paid row is on the
ledger, and a retention plan holds only rows whose payment the backend knows. The last
is needed because the plan is made in one step and carried out in another:
`PaymentsReported` and `OnlyKnownForgotten`.

*`BountyBoardProofs`.* A nonce that is spent lets nobody else through, whoever is
already past it (`ActedOnOnce`). `AnnouncedOnce` needs that a command past its insert
has its bounty open on the issue and that only one is (`OneOnIssue`), which rests on the
condition of the unique index and not on the earlier look; with the types it is the
inductive `BoardInv`. The second half is about the arithmetic of the draw, for any
number of applicants and rolls. Its sums and products run along a sequence; the
induction they need is had from the least counterexample (`Least`, `Induction`), whose
statement has a set where the library's has an operator, and `Recursion` says what a
recursive function on an interval computes. From there: tickets are products of the
weights (`TicketsAre`), the running sums mark off as many rolls for each candidate as
they have tickets, within one roll (`OddsAreTickets`), and a matched newcomer's twelve
quarters are more than a veteran's nine at most (`StrongNewcomer`). `DrawsInv` says that
every record was made by `RunDraw` from applicants and settings that pass validation,
its winner named unless the draw was simulated (`DrawsFit`); from it
`EveryDrawExplained`, `TheOddsAreTheTickets`, `NewcomersLead`.

Sums of money are sizes of sets of units in `PayoutSigner`, `InferenceSpend` and
`GrainHack`, so that cardinality lemmas stand in for an induction over data there.

Only model-checked: liveness under fairness, which is out of the prover's reach
(`ApprovedIsResolved`, `NotStranded`, `WinnerIsTold`, `PullIsRecorded`, `FundsReturn`,
`AgreementIsKept`, `ClosedIsNoticed`, `ReservationsResolved`, `InFlightIsSettled`,
`NoneIsBlocked`, `ErasureFinishes`).

## What stays open

States the models reach, or that lie just outside them, on which no property rests:
nothing in the repository says what they should be, or a person has to act.

* A crash between two statements that nothing repairs: an approved payout
  (`service.ts:705`), an assignment whose winner is never told
  (`draw-service.ts:900`), a released holder whose application stays won (1401), a
  funding that is confirmed only half (`funded-service.ts:287`), a refunded row of a
  bounty still listed (887), an unassigned person who is signed in again (602), a
  proposed bounty without a comment (`service.ts:223`).
* A decision that releases a holder before their draw has settled the applications
  (`draw-service.ts:1027`, 886): the draw then makes the application won, and nobody
  returns it to the pool.
* A late write over a newer state: payable over paid (`service.ts:600`, the payout stays
  confirmed), a refused application over one in the pool (`draw-service.ts:292`, 364),
  an answer over a withdrawn proposal (`funded-service.ts:743`).
* Something read before a window closed, or before somebody else was named
  (`draw-service.ts:271`, `funded-service.ts:356`, 902).
* The limit of live assignments, looked at on applying and not on winning
  (`draw-service.ts:314`).
* A draw record whose assignment lost the insert to another draw (`draw-service.ts:851`).
* A GrainHack row that waits for a statement or a person (`approve-event.ts:101`,
  `retention.ts:95`), or that a resolution by hand overtook (`journal.ts:238`).
* A journal write that throws after the broadcast is answered 400, which the agent takes
  for nothing sent (`escrow-attestor.ts:173`, `services/signer/src/server.ts:38`).

## Not modelled

* A journal write that fails (a full disk): taken to succeed.
* The surplus credit estimate of the x402 client: whether it is believed to be
  enough is a choice. A quote's fields are its id and its cap; the checks of its
  network, asset, address and expiry are one choice, `wellFormed`.
* Token amounts wider than the balances: a sum that overflows 64 bits is above
  any balance, and the transaction fails either way. Rent and the program's events; mints
  that take a fee of their transfers, with which a vault would hold less than it owes.
* An escrow under the bounty's id that names another attestor (ours refuses to touch it),
  that somebody else has funded (it is theirs to take back), or that the funder opened
  without having asked for a transaction: `confirmFunding` compares amount and fee only,
  and would list the bounty in all three cases (`escrow-service.ts:290`). In
  `FundedBounty` the funder signs any terms, once for each preparation. The outsiders who
  pay into its vault are not applicants, whose balance tells the properties whether they
  were paid.
* Which applicant wins, in `BountyAssignment` and `FundedBounty`: any may
  (`BountyBoard` has the weights). The published draw record of a draw that loses the
  insert to a concurrent one.
* Several bounties at once in `BountyAssignment`, hence the limit of live
  assignments per person, and the operator's repair command `bounty reopen`.
* Pull requests are linked to their issue throughout (an edited description
  never unlinks one); the auto-draw setting is on.
* Pages and views (who may see an applicant's name when), the reads of maintainers
  and admins, GitHub and RPC clients, configuration, formatting, the evidence and the
  issue text a fit assessment is bought with: none changes a state the rest reads.
* In `PersonalRecords`: profile snapshots, logins inside stored pools, the redaction of
  statements, and nonces (they are in `BountyBoard`).
* Deposits and the history of the first GrainHack event, which a person enters by
  command; test marking and dispute notes of funded bounties.
* `Resolve` of `GrainHack` reads the chain in one step; the code asks for the status of
  the transaction and then for the finalized height (`resolve.ts:34`). A pause between
  the two in which the transaction lands and a block past its validity is finalized is
  left out; it would have a payment that landed resolved as never sent.
* Who is a newcomer, in `BountyAssignment`: it depends on other bounties, so a reserved
  draw takes any applicant, and may end with nobody where `NewcomersOnly` is set.
* Migrations, connections, the mock gateway and scripts.
* Signatures: an approval or a message is genuine or it is not.

## Plan

1. `PayoutSigner` with `PayOnce`, and its proofs. Done.
2. `BountyPayouts`, composed with it. Done.
3. `BountyAssignment` and its proofs. Done.
4. `BountyEscrow` with `EscrowPromise`, and its proofs. Done.
5. `InferenceSpend` with `SpendLimit`, and its proofs. Done.
6. `FundedBounty`, composed with `BountyEscrow`. Done.
7. `GrainHack` and `PersonalRecords`. Done.
8. `DrawOdds` and `BountyBoard`, and its proofs. Done.
9. Proofs about `GrainHack`. Done.
10. Proofs about `PersonalRecords` and `FundedBounty`. Done.
11. Proofs about `BountyPayouts` on top of the payout signer's invariant, about the
   arithmetic of `DrawOdds`, and of `PoolIsComplete`. Done.
12. Several bounties in `BountyAssignment`, for the limit of live assignments.
