------------------------------ MODULE BountyBoard ------------------------------
(***************************************************************************)
(* What happens before somebody holds a bounty: a repository is switched   *)
(* on, a bounty is proposed or seeded on an issue, people apply, settings  *)
(* change, a maintainer draws (apps/agent/src/server.ts, service.ts,       *)
(* draw-service.ts, fit-service.ts, cli.ts; packages/gate).                *)
(*                                                                         *)
(* People act through messages that Grainlify signs for one kind of action *)
(* and one short time; what is sent along with one (a setting's value, the *)
(* simulate flag) is part of it here.  A request may be delivered again,   *)
(* several are handled at once, and a step is what lies between two awaits *)
(* that others can tell apart.  Pull requests, deadlines and the minute    *)
(* sweep are in BountyAssignment, funded bounties in FundedBounty.         *)
(***************************************************************************)
EXTENDS DrawOdds

CONSTANTS
  Person, Maintainer,   \* Maintainer: who has write, maintain or admin on the repository
  Bounty,               \* the ids; all of one issue
  Message, Sent,        \* Sent[m]: [kind, action, by, about, value, from, until]
  Request,              \* how many requests are handled at once
  History,              \* the assignments each person had before
  Answer,               \* what a model may answer: the fit and level it names, whatever they are
  Stored,               \* the settings stored before
  Seeded, Proposed,     \* which ids the commands of a run take
  MaxTime               \* bound: of the clock

ASSUME BoardConstants ==
  /\ Maintainer \subseteq Person
  /\ \A m \in Message : Sent[m].kind \in {"apply", "admin", "maintainer"} /\ Sent[m].by \in Person
  /\ \A m \in Message : Sent[m].action \in {"apply", "run_draw"} => Sent[m].about \in Bounty
  /\ IsFiniteSet(Bounty)
  /\ History \in [Person -> [completions: Nat, assignments: Nat, abandons: Nat]]
  /\ \A u \in Person : History[u].completions + History[u].abandons <= History[u].assignments   \* each counts some of them
  /\ \A u \in Person : History[u].abandons + 5 <= MaxTimes
  /\ MaxTime \in Nat
  /\ Answer \subseteq [fit: STRING, level: STRING]
  /\ Seeded \cup Proposed \subseteq Bounty
  /\ NoWinner \notin Person

VARIABLES
  now,         \* the clock
  overrides,   \* bounty_config
  repo,        \* the repository's row
  bounty,      \* bounties
  app,         \* bounty_applications of each bounty, in the order they were made
  holder,      \* who has a live row of bounty_assignments
  draws,       \* bounty_draws
  announced,   \* the bounties whose comment stands on the issue
  post,        \* the process that proposes or seeds each bounty
  spent,       \* how many requests each message's nonce let through
  req          \* the requests under way

rows == <<bounty, app, holder, draws>>
vars == <<now, overrides, repo, rows, announced, post, spent, req>>

Never == -1
Idle == [at |-> "idle"]

-----------------------------------------------------------------------------
(* Settings (draw-config.ts): weights in quarters, numbers, and switches.   *)

\* Of the defaults, those that this module reads.
DRAW_SETTINGS ==
  [fit_strong |-> 8, fit_plausible |-> 4, fit_weak |-> 1, difficulty_above |-> 2,
   prior_completion |-> 6, first_ever_application |-> 6, per_abandon |-> 2,
   reservation_fallback_to_open_pool |-> TRUE, ai_fit_assessment_enabled |-> FALSE,
   max_active_assignments_per_person |-> 1]

Whole == [application_window_hours |-> 1 .. 720, empty_window_extension_hours |-> 0 .. 720, max_window_extensions |-> 0 .. 20,
          assignment_stale_hours |-> 1 .. 2160, assignment_expiry_warning_hours |-> 1 .. 720,
          min_account_age_days |-> 0 .. 3650, max_active_assignments_per_person |-> 1 .. 10,
          funded_bounty_fee_bps |-> 0 .. 1000, funded_bounty_fee_minimum_minor |-> Nat]
Named == [applicant_count_visibility |-> {"hidden", "bucketed", "exact"}, fit_difficulty_tier |-> {"easy", "standard", "advanced"}]
Switch == {"auto_draw_enabled", "reservation_fallback_to_open_pool", "block_org_members", "require_linked_wallet_to_apply",
           "ai_fit_assessment_enabled", "funded_bounties_enabled"}

Validate(key, value) ==
  \/ key \in WeightKey    /\ value \in 0 .. 100 * Quarters
  \/ key \in DOMAIN Whole /\ value \in Whole[key]
  \/ key \in DOMAIN Named /\ value \in Named[key]
  \/ key \in Switch       /\ value \in BOOLEAN

ASSUME StoredSettings == \A key \in DOMAIN Stored : Validate(key, Stored[key])

Config == [key \in DOMAIN DRAW_SETTINGS |-> IF key \in DOMAIN overrides THEN overrides[key] ELSE DRAW_SETTINGS[key]]

-----------------------------------------------------------------------------
(* Repositories (bounty-repos.ts).                                         *)

RepoMayHaveBounties == repo.enabled /\ repo.bountiesEnabled /\ repo.registered

OpenOnIssue == {b \in Bounty : bounty[b].status # "none"}   \* none ends here
WindowOpen(b) == bounty[b].closes > now

-----------------------------------------------------------------------------
NoBounty == [status |-> "none", closes |-> Never, reserved |-> FALSE]

RowOf(b, u) == {i \in DOMAIN app[b] : app[b][i].user = u}
InPool(b)   == {i \in DOMAIN app[b] : app[b][i].status \in {"applied", "lost"}}
Holds(u)    == {b \in Bounty : holder[b] = u}

Init ==
  /\ now = 0 /\ overrides = Stored
  /\ repo = [known |-> FALSE, enabled |-> FALSE, bountiesEnabled |-> FALSE, registered |-> FALSE]
  /\ bounty = [b \in Bounty |-> NoBounty] /\ app = [b \in Bounty |-> <<>>]
  /\ holder = [b \in Bounty |-> NoWinner]
  /\ draws = <<>> /\ announced = {} /\ post = [b \in Bounty |-> "none"]
  /\ spent = [m \in Message |-> 0] /\ req = [r \in Request |-> Idle]

-----------------------------------------------------------------------------
(* The front door (server.ts): every route verifies a message for its own   *)
(* kind of action and spends its nonce before it acts.                     *)

Verified(m, route) == Sent[m].kind = route /\ now \in Sent[m].from .. Sent[m].until

Becomes(r, state) == req' = [req EXCEPT ![r] = state]
At(r, where)      == Becomes(r, [req[r] EXCEPT !.at = where])
Said(r)           == Sent[req[r].msg]
Acting(r, action) == req[r].at = "acting" /\ Said(r).action = action

Deliver(r, m, route) ==
  /\ req[r] = Idle
  /\ Verified(m, route)
  /\ Becomes(r, [at |-> "spending", msg |-> m])
  /\ UNCHANGED <<now, overrides, repo, rows, announced, post, spent>>

\* Mutant: whether the insert found a conflict is not looked at.
Spend_Unchecked(r) ==
  /\ req[r].at = "spending"
  /\ spent' = [spent EXCEPT ![req[r].msg] = @ + 1]
  /\ At(r, "acting")
  /\ UNCHANGED <<now, overrides, repo, rows, announced, post>>

\* INSERT INTO link_nonces ... ON CONFLICT DO NOTHING: only the first goes on.
Spend(r) ==
  /\ req[r].at = "spending"
  /\ IF spent[req[r].msg] = 0
       THEN spent' = [spent EXCEPT ![req[r].msg] = 1] /\ At(r, "acting")
       ELSE Becomes(r, Idle) /\ UNCHANGED spent
  /\ UNCHANGED <<now, overrides, repo, rows, announced, post>>

-----------------------------------------------------------------------------
(* Admin actions.                                                          *)

SetSetting(r) ==
  /\ Acting(r, "set_setting")
  /\ LET key == Said(r).about IN
     overrides' = IF ~Validate(key, Said(r).value) THEN overrides
                  ELSE [k \in DOMAIN overrides \cup {key} |-> IF k = key THEN Said(r).value ELSE overrides[k]]
  /\ Becomes(r, Idle)
  /\ UNCHANGED <<now, repo, rows, announced, post, spent>>

ResetSetting(r) ==
  /\ Acting(r, "reset_setting")
  /\ overrides' = [k \in DOMAIN overrides \ {Said(r).about} |-> overrides[k]]
  /\ Becomes(r, Idle)
  /\ UNCHANGED <<now, repo, rows, announced, post, spent>>

\* addRepo, for one never heard of; an existing row keeps its own allowlisting.
Added == IF repo.known THEN repo ELSE [repo EXCEPT !.known = TRUE, !.enabled = TRUE]

\* setRepoBounties: a repository switched on for the first time is added, if
\* the App is installed on it.
SetRepo(r) ==
  /\ Acting(r, "set_repo_bounties")
  /\ LET on == Said(r).value.enabled IN
     \/ /\ repo.known \/ on
        /\ repo' = [Added EXCEPT !.bountiesEnabled = on, !.registered = Said(r).value.registered]
     \/ ~repo.known /\ UNCHANGED repo
  /\ Becomes(r, Idle)
  /\ UNCHANGED <<now, overrides, rows, announced, post, spent>>

-----------------------------------------------------------------------------
(* Applying (draw-service.ts apply, fit-service.ts).                       *)

ApplyRead(r) ==
  /\ Acting(r, "apply")
  /\ LET b == Said(r).about IN
     IF bounty[b].status = "posted" /\ WindowOpen(b)
       THEN Becomes(r, [at |-> "checking", msg |-> req[r].msg, limit |-> Config.max_active_assignments_per_person,
                      assess |-> Config.ai_fit_assessment_enabled])
       ELSE Becomes(r, Idle)
  /\ UNCHANGED <<now, overrides, repo, rows, announced, post, spent>>

\* Already in the pool: refused, and nothing is written.  At the limit of live
\* assignments, or with no wallet, too new an account or a place in the
\* organisation: the refusal is written.
ApplyCheck(r) ==
  LET b == Said(r).about
      u == Said(r).by IN
  /\ req[r].at = "checking"
  /\ IF \E i \in RowOf(b, u) : app[b][i].status # "rejected_gate" THEN Becomes(r, Idle)
     ELSE \E eligible \in BOOLEAN :
            /\ eligible => Cardinality(Holds(u)) < req[r].limit
            /\ Becomes(r, [at |-> "writing", msg |-> req[r].msg, eligible |-> eligible, assess |-> req[r].assess])
  /\ UNCHANGED <<now, overrides, repo, rows, announced, post, spent>>

\* One row for each person and bounty, inserted or updated.
Upsert(b, u, status) ==
  IF RowOf(b, u) = {}
    THEN app' = [app EXCEPT ![b] = Append(@, [user |-> u, status |-> status, fit |-> "none", level |-> "matched"])]
    ELSE app' = [app EXCEPT ![b] = [i \in DOMAIN @ |-> IF @[i].user = u THEN [@[i] EXCEPT !.status = status] ELSE @[i]]]

ApplyWrite(r) ==
  /\ req[r].at = "writing"
  /\ Upsert(Said(r).about, Said(r).by, IF req[r].eligible THEN "applied" ELSE "rejected_gate")
  /\ IF req[r].eligible THEN At(r, "assessing") ELSE Becomes(r, Idle)
  /\ UNCHANGED <<now, overrides, repo, bounty, holder, draws, announced, post, spent>>

Plausible == [fit |-> "plausible", level |-> "matched"]

\* An answer with a fit or a level that is none of ours counts for nothing.
ParseFit(answer) == IF answer.fit \in Fit /\ answer.level \in Level THEN answer ELSE Plausible

\* What the model answered, if it was asked; switched off, too late or out of
\* budget is 'plausible' too.
Assess(r) ==
  /\ req[r].at = "assessing"
  /\ \E a \in {Plausible} \cup IF req[r].assess THEN {ParseFit(answer) : answer \in Answer} ELSE {} :
       app' = [app EXCEPT ![Said(r).about] =
                 [i \in DOMAIN @ |-> IF @[i].user = Said(r).by THEN [@[i] EXCEPT !.fit = a.fit, !.level = a.level] ELSE @[i]]]
  /\ Becomes(r, Idle)
  /\ UNCHANGED <<now, overrides, repo, bounty, holder, draws, announced, post, spent>>

-----------------------------------------------------------------------------
(* Drawing: a maintainer's run_draw.                                       *)

\* canManageBounty: write, maintain or admin on the repository of the bounty itself.
CanManageBounty(b, u) == bounty[b].status # "none" /\ u \in Maintainer

\* The front door of a maintainer's action, and then runDrawFor: the settings
\* are read once.
DrawRead(r) ==
  /\ Acting(r, "run_draw")
  /\ LET b == Said(r).about IN
     IF CanManageBounty(b, Said(r).by) /\ (Said(r).value \/ holder[b] = NoWinner)
       THEN Becomes(r, [at |-> "drawing", msg |-> req[r].msg, cfg |-> Config])
       ELSE Becomes(r, Idle)
  /\ UNCHANGED <<now, overrides, repo, rows, announced, post, spent>>

Applicant(b, i) ==
  LET row == app[b][i] IN
  [user |-> row.user, fit |-> IF row.fit = "none" THEN "plausible" ELSE row.fit, level |-> row.level,
   completions |-> History[row.user].completions, abandons |-> History[row.user].abandons,
   assignments |-> History[row.user].assignments + Cardinality(Holds(row.user))]

Newcomers(b) == {i \in InPool(b) : History[app[b][i].user].completions = 0}

\* Who may win: on a bounty reserved for newcomers they alone, if there is one.
Eligible(b) == IF bounty[b].reserved /\ Newcomers(b) # {} THEN Newcomers(b) ELSE InPool(b)
NobodyMayWin(b, cfg) == bounty[b].reserved /\ Newcomers(b) = {} /\ ~cfg.reservation_fallback_to_open_pool

\* ORDER BY created_at: the places of a set, the earliest first.
InOrder(places) ==
  CHOOSE order \in [1 .. Cardinality(places) -> places] : \A i, j \in DOMAIN order : i < j => order[i] < order[j]

Applicants(b) ==
  LET order == InOrder(Eligible(b)) IN [i \in DOMAIN order |-> Applicant(b, order[i])]

\* The pool and its history are read and the draw is recorded, with the settings
\* it was made under.  Nobody reads the record before it is complete.
Record(r, cfg, snapshot, roll) ==
  LET b == Said(r).about
      drawn == RunDraw(Applicants(b), cfg, roll)
      simulate == Said(r).value IN
  /\ draws' = Append(draws, [bounty |-> b, config |-> snapshot, reserved |-> bounty[b].reserved, simulation |-> simulate,
                             pool |-> drawn.pool, roll |-> drawn.roll, firstCome |-> drawn.firstCome,
                             winner |-> IF simulate THEN NoWinner ELSE drawn.winner])
  /\ IF simulate \/ drawn.winner = NoWinner THEN Becomes(r, Idle)
     ELSE Becomes(r, [at |-> "assigning", msg |-> req[r].msg, winner |-> drawn.winner])

\* Mutant: the settings are read again for the record.
DrawRecord_ReadAgain(r) ==
  /\ req[r].at = "drawing"
  /\ IF NobodyMayWin(Said(r).about, req[r].cfg) THEN Becomes(r, Idle) /\ UNCHANGED draws
     ELSE \E roll \in 0 .. Rolls - 1 : Record(r, req[r].cfg, Config, roll)
  /\ UNCHANGED <<now, overrides, repo, bounty, app, holder, announced, post, spent>>

DrawRecord(r) ==
  /\ req[r].at = "drawing"
  /\ IF NobodyMayWin(Said(r).about, req[r].cfg) THEN Becomes(r, Idle) /\ UNCHANGED draws
     ELSE \E roll \in 0 .. Rolls - 1 : Record(r, req[r].cfg, req[r].cfg, roll)
  /\ UNCHANGED <<now, overrides, repo, bounty, app, holder, announced, post, spent>>

\* The unique index refuses a second holder; the applications are settled.
DrawAssign(r) ==
  LET b == Said(r).about
      w == req[r].winner IN
  /\ req[r].at = "assigning"
  /\ IF holder[b] # NoWinner THEN UNCHANGED <<holder, app>>
     ELSE /\ holder' = [holder EXCEPT ![b] = w]
          /\ app' = [app EXCEPT ![b] = [i \in DOMAIN @ |->
                       IF i \notin InPool(b) THEN @[i]
                       ELSE [@[i] EXCEPT !.status = IF app[b][i].user = w THEN "won" ELSE "lost"]]]
  /\ Becomes(r, Idle)
  /\ UNCHANGED <<now, overrides, repo, bounty, draws, announced, post, spent>>

-----------------------------------------------------------------------------
(* Posting: proposeBounty, seedBounty and the command line around them.    *)

PostAt(b, where) == post' = [post EXCEPT ![b] = where]

\* proposeBounty looks for an open bounty, asks GitHub for the issue and a model
\* for a price: any of them may end it.
ProposeCheck(b) ==
  /\ b \in Proposed /\ post[b] = "none" /\ repo.enabled
  /\ PostAt(b, IF OpenOnIssue = {} THEN "pricing" ELSE "done")
  /\ UNCHANGED <<now, overrides, repo, rows, announced, spent, req>>

\* The unique index bounties_one_open_per_issue.
InsertBounty(b, status, reserved, next) ==
  IF OpenOnIssue = {}
    THEN bounty' = [bounty EXCEPT ![b] = [status |-> status, closes |-> Never, reserved |-> reserved]] /\ PostAt(b, next)
    ELSE PostAt(b, "done") /\ UNCHANGED bounty

\* Mutant: the comment is posted, and then the row is inserted.
ProposeInsert_AnnouncedFirst(b) ==
  /\ post[b] = "pricing"
  /\ announced' = announced \cup {b}
  /\ InsertBounty(b, "proposed", FALSE, "posting")
  /\ UNCHANGED <<now, overrides, repo, app, holder, draws, spent, req>>

ProposeInsert(b) ==
  /\ post[b] = "pricing"
  /\ \/ InsertBounty(b, "proposed", FALSE, "commenting")
     \/ PostAt(b, "done") /\ UNCHANGED bounty
  /\ UNCHANGED <<now, overrides, repo, app, holder, draws, announced, spent, req>>

ProposeComment(b) ==
  /\ post[b] = "commenting"
  /\ \/ announced' = announced \cup {b} /\ PostAt(b, "posting")
     \/ PostAt(b, "done") /\ UNCHANGED announced
  /\ UNCHANGED <<now, overrides, repo, rows, spent, req>>

ProposePost(b) ==
  /\ post[b] = "posting"
  /\ bounty' = [bounty EXCEPT ![b].status = "posted"]
  /\ PostAt(b, "done")
  /\ UNCHANGED <<now, overrides, repo, app, holder, draws, announced, spent, req>>

\* bounty seed: repoForBounty, the insert, and then the window.
SeedCheck(b) ==
  /\ b \in Seeded /\ post[b] = "none" /\ repo.known /\ RepoMayHaveBounties
  /\ PostAt(b, "seeding")
  /\ UNCHANGED <<now, overrides, repo, rows, announced, spent, req>>

SeedInsert(b) ==
  /\ post[b] = "seeding"
  /\ \E reserved \in BOOLEAN : InsertBounty(b, "posted", reserved, "opening")
  /\ UNCHANGED <<now, overrides, repo, app, holder, draws, announced, spent, req>>

\* A window that is open keeps its close time.
OpenApplications(b) ==
  /\ post[b] = "opening"
  /\ bounty' = [bounty EXCEPT ![b].closes = IF @ = Never THEN now + 1 ELSE @]
  /\ PostAt(b, "done")
  /\ UNCHANGED <<now, overrides, repo, app, holder, draws, announced, spent, req>>

PostStep(b) ==
  \/ ProposeCheck(b) \/ ProposeInsert(b) \/ ProposeComment(b) \/ ProposePost(b)
  \/ SeedCheck(b) \/ SeedInsert(b) \/ OpenApplications(b)

-----------------------------------------------------------------------------
Tick ==
  /\ now < MaxTime
  /\ now' = now + 1
  /\ UNCHANGED <<overrides, repo, rows, announced, post, spent, req>>

AgentCrash ==
  /\ req' = [r \in Request |-> Idle]
  /\ UNCHANGED <<now, overrides, repo, rows, announced, post, spent>>

\* A command that dies; it may be given again, for another id.
CommandCrash(b) ==
  /\ post[b] \notin {"none", "done"}
  /\ PostAt(b, "done")
  /\ UNCHANGED <<now, overrides, repo, rows, announced, spent, req>>

ApplyStep(r) == ApplyRead(r) \/ ApplyCheck(r) \/ ApplyWrite(r) \/ Assess(r)
DrawStep(r)  == DrawRead(r) \/ DrawRecord(r) \/ DrawAssign(r)

Next ==
  \/ \E r \in Request, m \in Message, route \in {"apply", "admin", "maintainer"} : Deliver(r, m, route)
  \/ \E r \in Request : Spend(r) \/ SetSetting(r) \/ ResetSetting(r) \/ SetRepo(r) \/ ApplyStep(r) \/ DrawStep(r)
  \/ \E b \in Bounty : PostStep(b) \/ CommandCrash(b)
  \/ Tick \/ AgentCrash

Spec == Init /\ [][Next]_vars

-----------------------------------------------------------------------------
(* What holds.                                                             *)

\* However often and however late a signed message is delivered, and whoever
\* crashes meanwhile, what it asks for is done at most once.
DoneOnce == \A m \in Message : spent[m] <= 1

\* What an issue says is what the agent has: every announced bounty exists, and
\* no issue announces two, whichever commands run at once and wherever they die.
AnnouncedIsKnown ==
  /\ announced \subseteq OpenOnIssue
  /\ \A b, c \in announced : b = c

\* A draw can be worked out again from its own record, whatever the settings
\* have become since: each candidate's tickets are those that the recorded
\* settings give somebody of that fit, and the winner is whom the roll falls on.
DrawIsExplained ==
  \A d \in DOMAIN draws :
     LET r == draws[d]
         tickets == [i \in DOMAIN r.pool |-> r.pool[i].tickets]
         pick == PickWeighted(r.roll, tickets)
     IN /\ \A i \in DOMAIN r.pool :
             /\ \A key \in DOMAIN r.pool[i].weights : r.pool[i].weights[key].value = r.config[key]
             /\ tickets[i] = TicketsFrom(r.pool[i].weights)
        /\ r.winner # NoWinner =>
             r.winner = r.pool[IF r.firstCome THEN 1 ELSE pick].user /\ (r.firstCome <=> Total(tickets) = 0)

\* The odds are the tickets: of all rolls, each candidate of a recorded draw wins
\* their part of the tickets, to within one roll.
OddsFollowTickets ==
  \A d \in DOMAIN draws :
     LET tickets == [i \in DOMAIN draws[d].pool |-> draws[d].pool[i].tickets]
     IN Total(tickets) > 0 => FairOdds(tickets)

\* draw.ts: wins never outrank capability.  Under the default weights nobody of a
\* lesser fit, however often they won, has more tickets than a newcomer of strong
\* fit, on an issue of the newcomer's level.
NewcomerLeads ==
  \A d \in DOMAIN draws :
     LET pool == draws[d].pool
         newcomer(c) == DOMAIN c.weights = {"fit_strong", "first_ever_application"}
     IN (\A key \in WeightKey : draws[d].config[key] = DRAW_SETTINGS[key]) =>
        \A i, j \in DOMAIN pool : newcomer(pool[i]) /\ pool[j].fit # "strong" => pool[j].tickets <= pool[i].tickets
===============================================================================
