--------------------------- MODULE BountyAssignment ---------------------------
(***************************************************************************)
(* One bounty of the agent, from its applications to a merged pull request *)
(* (apps/agent/src/draw-service.ts, service.ts): who applied, the draw,    *)
(* the assignment it makes, the pull requests GitHub reports by webhook,   *)
(* and the minute sweep that releases, extends and draws.                  *)
(*                                                                         *)
(* The handlers share nothing but Postgres rows.  One action is one        *)
(* statement (or one transaction): another handler may run between any two *)
(* of them, and what a handler read earlier is kept in its own record.     *)
(* The bounty is not a funded one: those are run by funded-service.ts.     *)
(***************************************************************************)
EXTENDS Integers, Sequences, FiniteSets

CONSTANTS
  User, Pull,
  Author,           \* who opened each pull request
  Application,      \* requests to apply
  Applicant,        \* who sent each of them
  Delivery,         \* pull_request webhook deliveries
  ClosedDelivery,   \* those of a closed pull request; the others: opened, pushed to, reopened
  Reopens,          \* is a closed pull request reopened in this run?
  NewcomersOnly,    \* reserved_for_newcomers, without reservation_fallback_to_open_pool
  Drawer,           \* who may run runDrawFor: "sweep", "maintainer"
  Decides,          \* do maintainers unassign and close in this run?
  MaxExtensions,    \* max_window_extensions
  MaxAssignments,   \* bound: assignments made in a run
  MaxCrashes        \* bound: crashes of the agent in a run

ASSUME AssignmentConstants ==
  /\ Author \in [Pull -> User]
  /\ Applicant \in [Application -> User]
  /\ ClosedDelivery \subseteq Delivery /\ Reopens \in BOOLEAN
  /\ Drawer \subseteq {"sweep", "maintainer"}
  /\ NewcomersOnly \in BOOLEAN /\ Decides \in BOOLEAN
  /\ MaxExtensions \in Nat /\ MaxAssignments \in Nat /\ MaxCrashes \in Nat

Nobody == "nobody"
NoPull == "no pull"
ASSUME NobodyAssumption == Nobody \notin User /\ NoPull \notin Pull

VARIABLES
  status,      \* bounties.status
  awaiting,    \* bounties.awaiting_redraw
  excluded,    \* bounties.exclude_login_next_draw
  window,      \* is the application window open, and how often it was extended
  app,         \* bounty_applications.status of each user ("none": not in the pool)
  asg,         \* the bounty's bounty_assignments, in the order they were made
  told,        \* the assignments a bounty_draw_won event was queued for
  sub,         \* submissions.state of each pull request
  payout,      \* is there a live payout row?
  github,      \* GitHub: the pull requests as they are
  applying,    \* applications being checked
  draw,        \* each runDrawFor under way
  sweep,       \* the sweep, and whose applications it still has to return
  hook,        \* each webhook handler
  unassign,    \* an unassignByDecision under way
  crashes

bountyRow == <<status, awaiting, excluded, window>>
drawRows  == <<app, asg, told>>
pullRows  == <<sub, payout>>
vars == <<bountyRow, drawRows, pullRows, github, applying, draw, sweep, hook, unassign, crashes>>

LiveStatus == {"active", "pr_submitted"}
Assignment ==
  [user: User, status: LiveStatus \cup {"released_stale", "released_voluntary"},
   pull: Pull \cup {NoPull}, overdue: BOOLEAN, abandon: BOOLEAN, by: {"sweep", "maintainer"}]

LiveRows    == {i \in 1 .. Len(asg) : asg[i].status \in LiveStatus}
InPool(u)   == app[u] \in {"applied", "lost"}
Subs(u)     == {p \in Pull : Author[p] = u /\ sub[p] # "none"}
OpenSubs(u) == {p \in Subs(u) : sub[p] = "open"}

OnGitHub(p) == github[p] # "none"
Open(p)     == github[p] \in {"open", "reopened"}

DrawIdle == [at |-> "idle", excluded |-> Nobody, winner |-> Nobody, row |-> 0]
HookIdle == [at |-> "idle", pull |-> NoPull, read |-> "none", status |-> "posted"]

DrawState == [at: {"idle", "excluding", "choosing", "assigning", "clearing", "unawaiting", "settling", "telling"},
              excluded: User \cup {Nobody}, winner: User \cup {Nobody}, row: 0 .. MaxAssignments]
SweepState == [at: {"idle", "releasing", "returning", "finding", "counting", "extending", "drawing"},
               back: SUBSET User]
HookState == [at: {"idle", "listing", "submitting", "reviewing", "recording", "resetting", "reopening",
                   "gating", "inserting", "opening", "done"},
              pull: Pull \cup {NoPull}, read: {"none", "open", "closed", "merged"},
              status: {"posted", "in_review", "payable"}]

TypeOK ==
  /\ status   \in {"posted", "in_review", "payable", "paid", "cancelled"}
  /\ awaiting \in BOOLEAN
  /\ excluded \in User \cup {Nobody}
  /\ window   \in [open: BOOLEAN, extensions: 0 .. MaxExtensions]
  /\ app      \in [User -> {"none", "applied", "won", "lost"}]
  /\ asg      \in Seq(Assignment) /\ Len(asg) <= MaxAssignments
  /\ told     \subseteq 1 .. Len(asg)
  /\ sub      \in [Pull -> {"none", "open", "closed", "merged"}]
  /\ payout   \in BOOLEAN
  /\ github   \in [Pull -> {"none", "open", "reopened", "closed", "merged"}]
  /\ applying \subseteq Application
  /\ draw     \in [Drawer -> DrawState]
  /\ sweep    \in SweepState
  /\ hook     \in [Delivery -> HookState]
  /\ unassign \in [at: {"idle", "releasing", "returning", "awaiting"}, row: 0 .. MaxAssignments]
  /\ crashes  \in 0 .. MaxCrashes

Init ==
  /\ status = "posted" /\ awaiting = FALSE /\ excluded = Nobody
  /\ window = [open |-> TRUE, extensions |-> 0]
  /\ app = [u \in User |-> "none"] /\ asg = <<>> /\ told = {}
  /\ sub = [p \in Pull |-> "none"] /\ payout = FALSE
  /\ github = [p \in Pull |-> "none"]
  /\ applying = {}
  /\ draw = [d \in Drawer |-> DrawIdle]
  /\ sweep = [at |-> "idle", back |-> {}]
  /\ hook = [h \in Delivery |-> HookIdle]
  /\ unassign = [at |-> "idle", row |-> 0]
  /\ crashes = 0

-----------------------------------------------------------------------------
(* apply(): the bounty is read first, GitHub is asked about the person, and *)
(* only then is the application written.                                    *)

ApplyCheck(x) ==
  /\ x \notin applying
  /\ status = "posted" /\ window.open /\ app[Applicant[x]] = "none"
  /\ \A i \in LiveRows : asg[i].user # Applicant[x]
  /\ applying' = applying \cup {x}
  /\ UNCHANGED <<bountyRow, drawRows, pullRows, github, draw, sweep, hook, unassign, crashes>>

\* An upsert: what the application has become meanwhile is overwritten.  One
\* refused by the gate is no part of the pool.
ApplyInsert(x, eligible) ==
  /\ x \in applying
  /\ applying' = applying \ {x}
  /\ app' = [app EXCEPT ![Applicant[x]] = IF eligible THEN "applied" ELSE "none"]
  /\ UNCHANGED <<bountyRow, asg, told, pullRows, github, draw, sweep, hook, unassign, crashes>>

-----------------------------------------------------------------------------
(* runDrawFor.                                                             *)

DrawAt(d, where) == draw' = [draw EXCEPT ![d].at = where]

\* The draw is over, and with it the sweep's part that waited for it.
DrawEnds(d) ==
  /\ draw' = [draw EXCEPT ![d] = DrawIdle]
  /\ sweep' = IF d = "sweep" THEN [sweep EXCEPT !.at = "idle"] ELSE sweep

\* Started by the sweep for a due bounty, or by a maintainer's run_draw.  The
\* bounty need only exist: its status is not looked at.
CheckLive(d) ==
  /\ draw[d].at = "idle"
  /\ d = "sweep" => sweep.at = "drawing"
  /\ IF LiveRows = {} THEN DrawAt(d, "excluding") /\ UNCHANGED sweep ELSE DrawEnds(d)
  /\ UNCHANGED <<bountyRow, drawRows, pullRows, github, applying, hook, unassign, crashes>>

ReadExcluded(d) ==
  /\ draw[d].at = "excluding"
  /\ draw' = [draw EXCEPT ![d] = [@ EXCEPT !.at = "choosing", !.excluded = excluded]]
  /\ UNCHANGED <<bountyRow, drawRows, pullRows, github, applying, sweep, hook, unassign, crashes>>

\* The pool is read and the draw is recorded.  Any applicant may win: a pool
\* whose tickets are all zero falls back to its first.  Of a reserved bounty
\* the newcomers are drawn from; who is one changes with other bounties, and
\* without the fallback a pool that has none ends the draw (no_newcomers).
Choose(d) ==
  LET pool == {u \in User : InPool(u) /\ u # draw[d].excluded} IN
  /\ draw[d].at = "choosing"
  /\ \/ pool = {} /\ DrawEnds(d)
     \/ NewcomersOnly /\ DrawEnds(d)
     \/ \E u \in pool : draw' = [draw EXCEPT ![d] = [@ EXCEPT !.at = "assigning", !.winner = u]] /\ UNCHANGED sweep
  /\ UNCHANGED <<bountyRow, drawRows, pullRows, github, applying, hook, unassign, crashes>>

Assign(d) ==
  /\ Len(asg) < MaxAssignments
  /\ asg' = Append(asg, [user |-> draw[d].winner, status |-> "active", pull |-> NoPull,
                         overdue |-> FALSE, abandon |-> FALSE, by |-> d])
  /\ draw' = [draw EXCEPT ![d] = [@ EXCEPT !.at  = IF draw[d].excluded = Nobody THEN "unawaiting" ELSE "clearing",
                                           !.row = Len(asg) + 1]]
  /\ UNCHANGED sweep

\* Mutant: no unique index, the check made before the draw is trusted.
InsertAssignment_NoIndex(d) ==
  /\ draw[d].at = "assigning"
  /\ Assign(d)
  /\ UNCHANGED <<bountyRow, app, told, pullRows, github, applying, hook, unassign, crashes>>

\* The unique index bounty_assignments_one_active refuses a second live row:
\* the insert throws and the draw ends there.
InsertAssignment(d) ==
  /\ draw[d].at = "assigning"
  /\ IF LiveRows = {} THEN Assign(d) ELSE DrawEnds(d) /\ UNCHANGED asg
  /\ UNCHANGED <<bountyRow, app, told, pullRows, github, applying, hook, unassign, crashes>>

ClearExclusion(d) ==
  /\ draw[d].at = "clearing"
  /\ excluded' = Nobody
  /\ DrawAt(d, "unawaiting")
  /\ UNCHANGED <<status, awaiting, window, drawRows, pullRows, github, applying, sweep, hook, unassign, crashes>>

ClearAwaiting(d) ==
  /\ draw[d].at = "unawaiting"
  /\ awaiting' = FALSE
  /\ DrawAt(d, "settling")
  /\ UNCHANGED <<status, excluded, window, drawRows, pullRows, github, applying, sweep, hook, unassign, crashes>>

SettleApplications(d) ==
  /\ draw[d].at = "settling"
  /\ app' = [u \in User |-> IF ~InPool(u) THEN app[u]
                            ELSE IF u = draw[d].winner THEN "won" ELSE "lost"]
  /\ DrawAt(d, "telling")
  /\ UNCHANGED <<bountyRow, asg, told, pullRows, github, applying, sweep, hook, unassign, crashes>>

\* Mutant: nothing is queued for the winner.
TellWinner_Nobody(d) ==
  /\ draw[d].at = "telling"
  /\ DrawEnds(d)
  /\ UNCHANGED <<bountyRow, drawRows, pullRows, github, applying, hook, unassign, crashes>>

\* bounty_draw_won, for the assignment this draw made.
TellWinner(d) ==
  /\ draw[d].at = "telling"
  /\ told' = told \cup {draw[d].row}
  /\ DrawEnds(d)
  /\ UNCHANGED <<bountyRow, app, asg, pullRows, github, applying, hook, unassign, crashes>>

DrawStep(d) ==
  \/ ReadExcluded(d) \/ Choose(d) \/ InsertAssignment(d) \/ ClearExclusion(d)
  \/ ClearAwaiting(d) \/ SettleApplications(d) \/ TellWinner(d)

-----------------------------------------------------------------------------
(* closeDueWindows: one sweep at a time, every minute.                     *)

SweepAt(where) == sweep' = [sweep EXCEPT !.at = where]

\* Mutant: only the webhook records a pull request.
RecordSubmitted_Never ==
  /\ sweep.at = "idle"
  /\ SweepAt("releasing")
  /\ UNCHANGED <<bountyRow, drawRows, pullRows, github, applying, draw, hook, unassign, crashes>>

\* Mutant: whoever opened the pull request.
RecordSubmitted_AnyAuthor ==
  /\ sweep.at = "idle"
  /\ SweepAt("releasing")
  /\ \/ \E i \in LiveRows, p \in Pull :
          /\ asg[i].status = "active" /\ sub[p] = "open"
          /\ asg' = [asg EXCEPT ![i].status = "pr_submitted", ![i].pull = p]
     \/ UNCHANGED asg
  /\ UNCHANGED <<bountyRow, app, told, pullRows, github, applying, draw, hook, unassign, crashes>>

\* recordSubmittedPullRequests: the holder's own pull request, as recorded.
RecordSubmitted ==
  /\ sweep.at = "idle"
  /\ SweepAt("releasing")
  /\ LET missed == {i \in LiveRows : asg[i].status = "active" /\ OpenSubs(asg[i].user) # {}} IN
     IF missed = {} THEN UNCHANGED asg
     ELSE \E i \in missed : \E p \in OpenSubs(asg[i].user) :
            asg' = [asg EXCEPT ![i].status = "pr_submitted", ![i].pull = p]
  /\ UNCHANGED <<bountyRow, app, told, pullRows, github, applying, draw, hook, unassign, crashes>>

\* A released holder's application is drawn from again.
BackToPool(u) == app' = IF app[u] = "won" THEN [app EXCEPT ![u] = "lost"] ELSE app

\* Who the deadline releases, in one statement; nobody with a pull request
\* recorded is counted as having abandoned it.
Stale == {i \in LiveRows : asg[i].status = "active" /\ asg[i].overdue /\ OpenSubs(asg[i].user) = {}}

ReleaseStale ==
  /\ sweep.at = "releasing"
  /\ asg' = [i \in 1 .. Len(asg) |->
               IF i \in Stale
                 THEN [asg[i] EXCEPT !.status = "released_stale", !.abandon = (Subs(asg[i].user) = {})]
                 ELSE asg[i]]
  /\ sweep' = [at |-> "returning", back |-> {asg[i].user : i \in Stale}]
  /\ UNCHANGED <<bountyRow, app, told, pullRows, github, applying, draw, hook, unassign, crashes>>

\* Mutant: the application of a released holder stays 'won'.
ReturnToPool_Forgotten ==
  /\ sweep.at = "returning"
  /\ sweep' = [at |-> "finding", back |-> {}]
  /\ UNCHANGED <<bountyRow, drawRows, pullRows, github, applying, draw, hook, unassign, crashes>>

\* Their applications go back to the pool, one statement each.
ReturnToPool ==
  /\ sweep.at = "returning"
  /\ \/ \E u \in sweep.back :
          /\ BackToPool(u)
          /\ sweep' = [sweep EXCEPT !.back = @ \ {u}]
     \/ sweep.back = {} /\ SweepAt("finding") /\ UNCHANGED app
  /\ UNCHANGED <<bountyRow, asg, told, pullRows, github, applying, draw, hook, unassign, crashes>>

Due == status = "posted" /\ ~awaiting /\ ~window.open /\ LiveRows = {}

FindDue ==
  /\ sweep.at = "finding"
  /\ SweepAt(IF Due THEN "counting" ELSE "idle")
  /\ UNCHANGED <<bountyRow, drawRows, pullRows, github, applying, draw, hook, unassign, crashes>>

\* Mutant: those who lost an earlier draw are not counted.
CountPool_OnlyApplied ==
  /\ sweep.at = "counting"
  /\ SweepAt(IF \E u \in User : app[u] = "applied" THEN "drawing" ELSE "idle")
  /\ UNCHANGED <<bountyRow, drawRows, pullRows, github, applying, draw, hook, unassign, crashes>>

CountPool ==
  /\ sweep.at = "counting"
  /\ SweepAt(IF \E u \in User : InPool(u) THEN "drawing"
             ELSE IF window.extensions < MaxExtensions THEN "extending" ELSE "idle")
  /\ UNCHANGED <<bountyRow, drawRows, pullRows, github, applying, draw, hook, unassign, crashes>>

Extend ==
  /\ sweep.at = "extending"
  /\ window' = [open |-> TRUE, extensions |-> window.extensions + 1]
  /\ SweepAt("idle")
  /\ UNCHANGED <<status, awaiting, excluded, drawRows, pullRows, github, applying, draw, hook, unassign, crashes>>

SweepStep == RecordSubmitted \/ ReleaseStale \/ ReturnToPool \/ FindDue \/ CountPool \/ Extend

-----------------------------------------------------------------------------
(* Webhooks: each fetches the pull request afresh and then works from what *)
(* it has read.                                                            *)

HookAt(h, where) == hook' = [hook EXCEPT ![h].at = where]
HookEnds(h) == hook' = [hook EXCEPT ![h] = [HookIdle EXCEPT !.at = "done"]]

\* onPullRequestActivity; delivered at any time after the pull request was opened.
Activity(h, p) ==
  /\ h \notin ClosedDelivery /\ hook[h].at = "idle" /\ OnGitHub(p)
  /\ IF Open(p) THEN hook' = [hook EXCEPT ![h] = [@ EXCEPT !.at = "listing", !.pull = p, !.read = "open"]]
     ELSE HookEnds(h)
  /\ UNCHANGED <<bountyRow, drawRows, pullRows, github, applying, draw, sweep, unassign, crashes>>

\* onPullRequestClosed; the pull request may have been reopened since.
Closed(h, p) ==
  /\ h \in ClosedDelivery /\ hook[h].at = "idle" /\ github[p] \in {"closed", "merged", "reopened"}
  /\ hook' = [hook EXCEPT ![h] = [@ EXCEPT !.at = "listing", !.pull = p,
                                           !.read = IF github[p] = "merged" THEN "merged" ELSE "closed"]]
  /\ UNCHANGED <<bountyRow, drawRows, pullRows, github, applying, draw, sweep, unassign, crashes>>

ListBounties(h) ==
  /\ hook[h].at = "listing"
  /\ IF status \in {"posted", "in_review", "payable"}
       THEN hook' = [hook EXCEPT ![h] = [@ EXCEPT !.at = "submitting", !.status = status]]
       ELSE HookEnds(h)
  /\ UNCHANGED <<bountyRow, drawRows, pullRows, github, applying, draw, sweep, unassign, crashes>>

\* upsertSubmission.
Submit(h) ==
  /\ hook[h].at = "submitting"
  /\ sub' = [sub EXCEPT ![hook[h].pull] = hook[h].read]
  /\ HookAt(h, CASE hook[h].read = "open" -> "reviewing"
                 [] hook[h].read = "closed" -> "resetting"
                 [] hook[h].read = "merged" -> "gating")
  /\ UNCHANGED <<bountyRow, drawRows, payout, github, applying, draw, sweep, unassign, crashes>>

\* Only if the bounty was posted when it was listed, and still is.
MarkInReview(h) ==
  /\ hook[h].at = "reviewing"
  /\ status' = IF hook[h].status = "posted" /\ status = "posted" THEN "in_review" ELSE status
  /\ HookAt(h, "recording")
  /\ UNCHANGED <<awaiting, excluded, window, drawRows, pullRows, github, applying, draw, sweep, unassign, crashes>>

\* The holder's own pull request is recorded on the assignment.
RecordPull(h) ==
  /\ hook[h].at = "recording"
  /\ asg' = [i \in 1 .. Len(asg) |->
               IF asg[i].status = "active" /\ asg[i].user = Author[hook[h].pull]
                 THEN [asg[i] EXCEPT !.status = "pr_submitted", !.pull = hook[h].pull]
                 ELSE asg[i]]
  /\ HookEnds(h)
  /\ UNCHANGED <<bountyRow, app, told, pullRows, github, applying, draw, sweep, unassign, crashes>>

\* Closed unmerged: the holder is live again.
ResetHolder(h) ==
  /\ hook[h].at = "resetting"
  /\ asg' = [i \in 1 .. Len(asg) |->
               IF asg[i].status = "pr_submitted" /\ asg[i].pull = hook[h].pull
                 THEN [asg[i] EXCEPT !.status = "active"] ELSE asg[i]]
  /\ HookAt(h, "reopening")
  /\ UNCHANGED <<bountyRow, app, told, pullRows, github, applying, draw, sweep, unassign, crashes>>

\* reopenAfterUnmergedClose, one transaction.
Reopenable ==
  /\ status = "in_review"
  /\ \A p \in Pull : sub[p] \in {"none", "closed"}
  /\ \E p \in Pull : sub[p] = "closed"

ReopenBounty ==
  /\ status' = "posted"
  /\ asg' = [i \in 1 .. Len(asg) |->
               IF asg[i].status = "pr_submitted" THEN [asg[i] EXCEPT !.status = "active"] ELSE asg[i]]

Reopen(h) ==
  /\ hook[h].at = "reopening"
  /\ IF Reopenable THEN ReopenBounty ELSE UNCHANGED <<status, asg>>
  /\ HookEnds(h)
  /\ UNCHANGED <<awaiting, excluded, window, app, told, pullRows, github, applying, draw, sweep, unassign, crashes>>

\* Merged: the gate, as far as this model's state decides it.
Gate(h, others) ==
  /\ hook[h].at = "gating"
  /\ IF /\ others
        /\ hook[h].status \in {"posted", "in_review"}
        /\ \E i \in LiveRows : asg[i].user = Author[hook[h].pull]
        /\ ~payout
       THEN HookAt(h, "inserting") ELSE HookEnds(h)
  /\ UNCHANGED <<bountyRow, drawRows, pullRows, github, applying, draw, sweep, unassign, crashes>>

\* The unique index payouts_one_live_per_bounty makes the second insert throw.
InsertPayout(h) ==
  /\ hook[h].at = "inserting"
  /\ payout' = TRUE
  /\ IF payout THEN HookEnds(h) ELSE HookAt(h, "opening")
  /\ UNCHANGED <<bountyRow, drawRows, sub, github, applying, draw, sweep, unassign, crashes>>

MarkPayable(h) ==
  /\ hook[h].at = "opening"
  /\ status' = "payable"
  /\ HookEnds(h)
  /\ UNCHANGED <<awaiting, excluded, window, drawRows, pullRows, github, applying, draw, sweep, unassign, crashes>>

\* A person approves the payout and it is confirmed (module BountyPayouts).
Pay ==
  /\ payout /\ status # "paid"
  /\ status' = "paid"
  /\ UNCHANGED <<awaiting, excluded, window, drawRows, pullRows, github, applying, draw, sweep, hook, unassign, crashes>>

HookStep(h) ==
  \/ ListBounties(h) \/ Submit(h) \/ MarkInReview(h) \/ RecordPull(h) \/ ResetHolder(h) \/ Reopen(h)
  \/ (\E others \in BOOLEAN : Gate(h, others)) \/ InsertPayout(h) \/ MarkPayable(h)

-----------------------------------------------------------------------------
(* Decisions of a maintainer or the operator.                              *)

\* unassignByDecision: refused unless somebody holds the bounty with no pull
\* request recorded.
UnassignRead ==
  /\ unassign.at = "idle"
  /\ \E i \in LiveRows : asg[i].status = "active" /\ unassign' = [at |-> "releasing", row |-> i]
  /\ UNCHANGED <<bountyRow, drawRows, pullRows, github, applying, draw, sweep, hook, crashes>>

\* By the row's id, whatever its status is by now.
UnassignRelease ==
  /\ unassign.at = "releasing"
  /\ asg' = [asg EXCEPT ![unassign.row].status = "released_voluntary", ![unassign.row].abandon = FALSE]
  /\ unassign' = [unassign EXCEPT !.at = "returning"]
  /\ UNCHANGED <<bountyRow, app, told, pullRows, github, applying, draw, sweep, hook, crashes>>

UnassignReturn ==
  /\ unassign.at = "returning"
  /\ BackToPool(asg[unassign.row].user)
  /\ unassign' = [unassign EXCEPT !.at = "awaiting"]
  /\ UNCHANGED <<bountyRow, asg, told, pullRows, github, applying, draw, sweep, hook, crashes>>

UnassignAwait ==
  /\ unassign.at = "awaiting"
  /\ excluded' = asg[unassign.row].user
  /\ awaiting' = TRUE
  /\ unassign' = [at |-> "idle", row |-> 0]
  /\ UNCHANGED <<status, window, drawRows, pullRows, github, applying, draw, sweep, hook, crashes>>

\* closeByDecision, one transaction.
Close ==
  /\ status = "posted"
  /\ \A i \in LiveRows : asg[i].status = "active"
  /\ status' = "cancelled"
  /\ IF LiveRows = {} THEN UNCHANGED <<asg, app>>
     ELSE \E i \in LiveRows :
            /\ asg' = [asg EXCEPT ![i].status = "released_voluntary", ![i].abandon = FALSE]
            /\ BackToPool(asg[i].user)
  /\ UNCHANGED <<awaiting, excluded, window, told, pullRows, github, applying, draw, sweep, hook, unassign, crashes>>

\* setAssignmentDeadline: the live assignment's deadline moves to the future.
MoveDeadline ==
  /\ \E i \in LiveRows : asg[i].overdue /\ asg' = [asg EXCEPT ![i].overdue = FALSE]
  /\ UNCHANGED <<bountyRow, app, told, pullRows, github, applying, draw, sweep, hook, unassign, crashes>>

Decide == Decides /\ (UnassignRead \/ UnassignRelease \/ UnassignReturn \/ UnassignAwait \/ Close \/ MoveDeadline)

-----------------------------------------------------------------------------
(* The world: clocks, GitHub, crashes.                                     *)

CloseWindow ==
  /\ window.open
  /\ window' = [window EXCEPT !.open = FALSE]
  /\ UNCHANGED <<status, awaiting, excluded, drawRows, pullRows, github, applying, draw, sweep, hook, unassign, crashes>>

\* A deadline passes: days after the draw that set it.  Bounded so that a
\* redraw always has a row left.
PassDeadline ==
  /\ Len(asg) < MaxAssignments
  /\ \A d \in Drawer : draw[d].at = "idle"
  /\ \E i \in LiveRows : ~asg[i].overdue /\ asg' = [asg EXCEPT ![i].overdue = TRUE]
  /\ UNCHANGED <<bountyRow, app, told, pullRows, github, applying, draw, sweep, hook, unassign, crashes>>

PullChange(p) ==
  /\ \/ github[p] = "none" /\ github' = [github EXCEPT ![p] = "open"]
     \/ Open(p) /\ \E s \in {"closed", "merged"} : github' = [github EXCEPT ![p] = s]
     \/ Reopens /\ github[p] = "closed" /\ github' = [github EXCEPT ![p] = "reopened"]
  /\ UNCHANGED <<bountyRow, drawRows, pullRows, applying, draw, sweep, hook, unassign, crashes>>

\* The agent dies; a webhook it had accepted is not processed again.
AgentCrash ==
  /\ crashes < MaxCrashes
  /\ crashes' = crashes + 1
  /\ applying' = {}
  /\ draw' = [d \in Drawer |-> DrawIdle]
  /\ sweep' = [at |-> "idle", back |-> {}]
  /\ hook' = [h \in Delivery |-> IF hook[h].at = "idle" THEN HookIdle ELSE [HookIdle EXCEPT !.at = "done"]]
  /\ unassign' = [at |-> "idle", row |-> 0]
  /\ UNCHANGED <<bountyRow, drawRows, pullRows, github>>

-----------------------------------------------------------------------------
Next ==
  \/ \E x \in Application : ApplyCheck(x) \/ \E eligible \in BOOLEAN : ApplyInsert(x, eligible)
  \/ \E d \in Drawer : CheckLive(d) \/ DrawStep(d)
  \/ SweepStep
  \/ \E h \in Delivery, p \in Pull : Activity(h, p) \/ Closed(h, p)
  \/ \E h \in Delivery : HookStep(h)
  \/ Pay \/ Decide \/ CloseWindow \/ PassDeadline
  \/ \E p \in Pull : PullChange(p)
  \/ AgentCrash

Spec == Init /\ [][Next]_vars

\* The sweep runs every minute, and a handler that was started runs on; nobody
\* has to apply, to press a button or to touch a pull request.
FairSpec ==
  /\ Spec
  /\ WF_vars(SweepStep)
  /\ \A d \in Drawer : WF_vars(DrawStep(d) \/ (d = "sweep" /\ CheckLive(d)))
  /\ \A h \in Delivery : WF_vars(HookStep(h))

-----------------------------------------------------------------------------
(* What holds.                                                             *)

\* At most one person holds a bounty, although the draw looks for a holder long
\* before it inserts one, and two draws may run at once.
OneHolder == \A i, j \in LiveRows : i = j

\* An assignment marked as submitted names a pull request of its own holder that
\* was submitted to this bounty.
PrBelongsToHolder ==
  \A i \in LiveRows : asg[i].status = "pr_submitted" =>
     asg[i].pull # NoPull /\ Author[asg[i].pull] = asg[i].user /\ sub[asg[i].pull] # "none"

\* What each place of a draw, a webhook handler, an unassignment and the sweep
\* says of what it carries.
DrawShape ==
  \A d \in Drawer :
     /\ draw[d].at \in {"assigning", "clearing", "unawaiting", "settling", "telling"} => draw[d].winner \in User
     /\ draw[d].at \in {"clearing", "unawaiting", "settling", "telling"} => draw[d].row \in 1 .. Len(asg)

HookShape ==
  \A h \in Delivery :
     /\ hook[h].at \notin {"idle", "done"} => hook[h].pull \in Pull /\ hook[h].read # "none"
     /\ hook[h].at \in {"reviewing", "recording"} => sub[hook[h].pull] # "none"

UnassignShape == unassign.at # "idle" => unassign.row \in 1 .. Len(asg)

SweepShape == sweep.at = "extending" => window.extensions < MaxExtensions

\* The inductive invariant of the proofs.
Inductive == TypeOK /\ DrawShape /\ HookShape /\ UnassignShape /\ SweepShape /\ OneHolder /\ PrBelongsToHolder

\* Nothing is under way.
Quiet ==
  /\ sweep.at = "idle" /\ unassign.at = "idle" /\ applying = {}
  /\ \A d \in Drawer : draw[d].at = "idle"
  /\ \A h \in Delivery : hook[h].at \in {"idle", "done"}

\* Nobody falls out of later draws: between sweeps, an application is 'won' only
\* while its applicant holds the bounty, unless the agent died.
PoolIsComplete ==
  Quiet /\ crashes = 0 => \A u \in User : app[u] = "won" => \E i \in LiveRows : asg[i].user = u

\* A posted bounty whose window has closed, that nobody holds and that has a
\* pool, is drawn: somebody holds it again, or it is no longer open to a draw.
Waiting == Due /\ \E u \in User : InPool(u)
NotStranded == Waiting ~> ~Waiting

\* Whoever is assigned is told so, unless the agent died.
WinnerIsTold == \A i \in 1 .. MaxAssignments : i <= Len(asg) ~> i \in told \/ crashes > 0

\* A holder whose open pull request is recorded on the bounty is not left on the
\* clock, whatever became of the webhook's own update.
PullIsRecorded ==
  \A i \in 1 .. MaxAssignments :
     (i \in LiveRows /\ asg[i].status = "active" /\ OpenSubs(asg[i].user) # {})
       ~> ~(i \in LiveRows /\ asg[i].status = "active" /\ OpenSubs(asg[i].user) # {})
===============================================================================
