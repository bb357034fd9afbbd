------------------------ MODULE BountyAssignmentProofs ------------------------
(***************************************************************************)
(* Proofs about BountyAssignment, for every set of people, pull requests,  *)
(* webhook deliveries and draws.                                           *)
(***************************************************************************)
EXTENDS BountyAssignment, SequenceTheorems, TLAPS

USE AssignmentConstants, NobodyAssumption

\* Rows updated in place are still a sequence of rows.
LEMMA UpdateRows ==
  ASSUME NEW n \in Nat, NEW f \in [1 .. n -> Assignment]
  PROVE  f \in Seq(Assignment) /\ Len(f) = n /\ DOMAIN f = 1 .. n
  OBVIOUS

\* What an update in place must leave alone: the number of the rows, whose they
\* are, and that a row which is not live stays so.
UpdatesRows ==
  /\ asg' \in Seq(Assignment)
  /\ Len(asg') = Len(asg)
  /\ \A i \in 1 .. Len(asg) :
       /\ asg'[i].user = asg[i].user
       /\ asg'[i].status \in LiveStatus => asg[i].status \in LiveStatus
       /\ asg'[i].status = "pr_submitted" =>
            \/ asg[i].status = "pr_submitted" /\ asg'[i].pull = asg[i].pull
            \/ asg'[i].pull \in Pull /\ Author[asg'[i].pull] = asg[i].user /\ sub[asg'[i].pull] # "none"

\* The draw's insert: one row more, and no other is live.
InsertsRow ==
  /\ LiveRows = {}
  /\ Len(asg) < MaxAssignments
  /\ \E r \in Assignment : r.status = "active" /\ asg' = Append(asg, r)

\* However a step changes the assignments, it does one of the two.
LEMMA AssignmentStep == Inductive /\ [Next]_vars => UpdatesRows \/ InsertsRow
<1> SUFFICES ASSUME Inductive, [Next]_vars PROVE UpdatesRows \/ InsertsRow
  OBVIOUS
<1>t. asg \in Seq(Assignment) /\ Len(asg) \in Nat /\ asg \in [1 .. Len(asg) -> Assignment]
  BY DEF Inductive, TypeOK
<1>0. ASSUME UNCHANGED asg PROVE UpdatesRows
  BY <1>0, <1>t DEF UpdatesRows
\* A row's record as it is after the step, given row by row.
<1>u. ASSUME asg' \in [1 .. Len(asg) -> Assignment],
             \A i \in 1 .. Len(asg) :
               /\ asg'[i].user = asg[i].user
               /\ asg'[i].status \in LiveStatus => asg[i].status \in LiveStatus
               /\ asg'[i].status = "pr_submitted" =>
                    \/ asg[i].status = "pr_submitted" /\ asg'[i].pull = asg[i].pull
                    \/ asg'[i].pull \in Pull /\ Author[asg'[i].pull] = asg[i].user /\ sub[asg'[i].pull] # "none"
      PROVE  UpdatesRows
  BY <1>u, <1>t, UpdateRows DEF UpdatesRows
<1> HIDE DEF UpdatesRows
<1>r. ASSUME NEW i \in 1 .. Len(asg), asg' = [asg EXCEPT ![i].status = "released_voluntary", ![i].abandon = FALSE]
      PROVE  UpdatesRows
  <2>1. asg' \in [1 .. Len(asg) -> Assignment]
    <3>1. asg[i] \in Assignment
      BY <1>t
    <3>2. [asg[i] EXCEPT !.status = "released_voluntary"] \in Assignment
      BY <3>1 DEF Assignment
    <3>3. [[asg[i] EXCEPT !.status = "released_voluntary"] EXCEPT !.abandon = FALSE] \in Assignment
      BY <3>2 DEF Assignment
    <3> QED BY <1>r, <1>t, <3>3
  <2>2. \A j \in 1 .. Len(asg) : asg'[j].user = asg[j].user /\ (asg'[j] = asg[j] \/ asg'[j].status = "released_voluntary")
    BY <1>r, <1>t DEF Assignment
  <2> QED BY <2>1, <2>2, <1>u DEF LiveStatus
<1>d. ASSUME NEW i \in 1 .. Len(asg), NEW late \in BOOLEAN, asg' = [asg EXCEPT ![i].overdue = late]
      PROVE  UpdatesRows
  BY <1>d, <1>t, <1>u DEF Assignment, LiveStatus
<1>p. ASSUME NEW i \in 1 .. Len(asg), asg[i].status = "active", NEW p \in Pull, Author[p] = asg[i].user, sub[p] # "none",
             asg' = [asg EXCEPT ![i].status = "pr_submitted", ![i].pull = p]
      PROVE  UpdatesRows
  <2> DEFINE recorded == [[asg[i] EXCEPT !.status = "pr_submitted"] EXCEPT !.pull = p]
  <2>1. asg[i] \in Assignment
    BY <1>t
  <2>2. [asg[i] EXCEPT !.status = "pr_submitted"] \in Assignment
    BY <2>1 DEF Assignment, LiveStatus
  <2>3. /\ recorded \in Assignment /\ recorded.user = asg[i].user
        /\ recorded.status = "pr_submitted" /\ recorded.pull = p
    BY <2>1, <2>2 DEF Assignment
  <2>4. asg' = [asg EXCEPT ![i] = recorded]
    BY <1>p, <1>t
  <2> HIDE DEF recorded
  <2>5. asg' \in [1 .. Len(asg) -> Assignment]
    BY <2>3, <2>4, <1>t
  <2>6. asg'[i] = recorded /\ \A j \in 1 .. Len(asg) : j # i => asg'[j] = asg[j]
    BY <2>4, <1>t
  <2> QED BY <2>3, <2>5, <2>6, <1>p, <1>u DEF LiveStatus
<1>b. ASSUME NEW Chosen \in SUBSET (1 .. Len(asg)),
             asg' = [i \in 1 .. Len(asg) |->
                       IF asg[i].status = "pr_submitted" /\ i \in Chosen
                         THEN [asg[i] EXCEPT !.status = "active"] ELSE asg[i]]
      PROVE  UpdatesRows
  <2> DEFINE back(i) == [asg[i] EXCEPT !.status = "active"]
  <2>1. \A i \in 1 .. Len(asg) : /\ back(i) \in Assignment /\ back(i).user = asg[i].user
                                 /\ back(i).status = "active"
    BY <1>t DEF Assignment, LiveStatus
  <2>2. \A i \in 1 .. Len(asg) : asg'[i] = asg[i] \/ (asg[i].status = "pr_submitted" /\ asg'[i] = back(i))
    BY <1>b
  <2>3. asg' \in [1 .. Len(asg) -> Assignment]
    BY <2>1, <1>b, <1>t
  <2> HIDE DEF back
  <2> QED BY <2>1, <2>2, <2>3, <1>u DEF LiveStatus
<1>1. ASSUME NEW d \in Drawer, CheckLive(d) \/ DrawStep(d) PROVE UpdatesRows \/ InsertsRow
  <2>1. CASE InsertAssignment(d)
    <3>1. CASE LiveRows = {}
      BY <2>1, <3>1, <1>t DEF InsertAssignment, Assign, InsertsRow, Assignment, LiveStatus, Inductive, DrawShape
    <3>2. CASE LiveRows # {}
      BY <2>1, <3>2, <1>0 DEF InsertAssignment
    <3> QED BY <3>1, <3>2
  <2> QED
    BY <1>1, <2>1, <1>0 DEF CheckLive, DrawStep, ReadExcluded, Choose, ClearExclusion, ClearAwaiting,
       SettleApplications, TellWinner, drawRows
<1>2. CASE SweepStep
  <2>1. CASE RecordSubmitted
    BY <2>1, <1>0, <1>p DEF RecordSubmitted, LiveRows, OpenSubs, Subs
  <2>2. CASE ReleaseStale
    <3> DEFINE released(i) == [[asg[i] EXCEPT !.status = "released_stale"] EXCEPT !.abandon = (Subs(asg[i].user) = {})]
    <3>1. \A i \in 1 .. Len(asg) : released(i) \in Assignment
      <4> TAKE i \in 1 .. Len(asg)
      <4>1. [asg[i] EXCEPT !.status = "released_stale"] \in Assignment
        BY <1>t DEF Assignment
      <4>2. (Subs(asg[i].user) = {}) \in BOOLEAN
        OBVIOUS
      <4> HIDE DEF Assignment
      <4> QED BY <4>1, <4>2 DEF Assignment
    <3>2. \A i \in 1 .. Len(asg) : released(i).user = asg[i].user /\ released(i).status = "released_stale"
      BY <1>t DEF Assignment
    <3>3. asg' = [i \in 1 .. Len(asg) |-> IF i \in Stale THEN released(i) ELSE asg[i]]
      BY <2>2 DEF ReleaseStale
    <3> HIDE DEF released
    <3>4. asg' \in [1 .. Len(asg) -> Assignment]
      BY <3>1, <3>3, <1>t
    <3>5. \A i \in 1 .. Len(asg) : asg'[i] = asg[i] \/ asg'[i] = released(i)
      BY <3>3
    <3> QED BY <3>2, <3>4, <3>5, <1>u DEF LiveStatus
  <2> QED
    BY <1>2, <2>1, <2>2, <1>0 DEF SweepStep, ReturnToPool, FindDue, CountPool, Extend, drawRows
<1>3. ASSUME NEW h \in Delivery, HookStep(h) PROVE UpdatesRows
  <2>1. CASE RecordPull(h)
    <3> DEFINE p == hook[h].pull
               recorded(i) == [[asg[i] EXCEPT !.status = "pr_submitted"] EXCEPT !.pull = p]
               affected(i) == asg[i].status = "active" /\ asg[i].user = Author[p]
    <3>1. p \in Pull /\ sub[p] # "none"
      BY <2>1 DEF RecordPull, Inductive, HookShape
    <3>2. \A i \in 1 .. Len(asg) : /\ recorded(i) \in Assignment /\ recorded(i).user = asg[i].user
                                   /\ recorded(i).status = "pr_submitted" /\ recorded(i).pull = p
      <4> TAKE i \in 1 .. Len(asg)
      <4>1. asg[i] \in Assignment
        BY <1>t
      <4>2. [asg[i] EXCEPT !.status = "pr_submitted"] \in Assignment
        BY <4>1 DEF Assignment, LiveStatus
      <4> QED BY <3>1, <4>1, <4>2 DEF Assignment
    <3>3. asg' = [i \in 1 .. Len(asg) |-> IF affected(i) THEN recorded(i) ELSE asg[i]]
      BY <2>1 DEF RecordPull
    <3> HIDE DEF recorded, p
    <3>4. asg' \in [1 .. Len(asg) -> Assignment]
      BY <3>2, <3>3, <1>t
    <3>5. \A i \in 1 .. Len(asg) : asg'[i] = asg[i] \/ (affected(i) /\ asg'[i] = recorded(i))
      BY <3>3
    <3> QED BY <3>1, <3>2, <3>4, <3>5, <1>u DEF LiveStatus
  <2>2. CASE ResetHolder(h)
    <3> DEFINE Chosen == {i \in 1 .. Len(asg) : asg[i].pull = hook[h].pull}
    <3>1. asg' = [i \in 1 .. Len(asg) |->
                    IF asg[i].status = "pr_submitted" /\ i \in Chosen
                      THEN [asg[i] EXCEPT !.status = "active"] ELSE asg[i]]
      BY <2>2 DEF ResetHolder
    <3> QED BY <3>1, <1>b
  <2>3. CASE Reopen(h)
    <3>1. CASE UNCHANGED asg
      BY <3>1, <1>0
    <3>2. CASE ReopenBounty
      <4>1. asg' = [i \in 1 .. Len(asg) |->
                      IF asg[i].status = "pr_submitted" /\ i \in 1 .. Len(asg)
                        THEN [asg[i] EXCEPT !.status = "active"] ELSE asg[i]]
        BY <3>2 DEF ReopenBounty
      <4> QED BY <4>1, <1>b
    <3> QED BY <2>3, <3>1, <3>2 DEF Reopen
  <2> QED
    BY <1>3, <2>1, <2>2, <2>3, <1>0 DEF HookStep, ListBounties, Submit, MarkInReview, Gate, InsertPayout,
       MarkPayable, drawRows
<1>4. CASE Decide
  <2>1. CASE UnassignRelease
    BY <2>1, <1>r DEF UnassignRelease, Inductive, UnassignShape
  <2>2. CASE Close
    BY <2>2, <1>0, <1>r DEF Close, LiveRows
  <2>3. CASE MoveDeadline
    BY <2>3, <1>d DEF MoveDeadline, LiveRows
  <2> QED
    BY <1>4, <2>1, <2>2, <2>3, <1>0 DEF Decide, UnassignRead, UnassignReturn, UnassignAwait, drawRows
<1>5. CASE PassDeadline
  BY <1>5, <1>d DEF PassDeadline, LiveRows
<1>6. ASSUME NEW x \in Application, ApplyCheck(x) \/ \E eligible \in BOOLEAN : ApplyInsert(x, eligible)
      PROVE  UpdatesRows
  BY <1>6, <1>0 DEF ApplyCheck, ApplyInsert, drawRows
<1>7. ASSUME NEW h \in Delivery, NEW p \in Pull, Activity(h, p) \/ Closed(h, p) PROVE UpdatesRows
  BY <1>7, <1>0 DEF Activity, Closed, drawRows
<1>8. CASE Pay \/ CloseWindow \/ (\E p \in Pull : PullChange(p)) \/ AgentCrash \/ UNCHANGED vars
  BY <1>8, <1>0 DEF Pay, CloseWindow, PullChange, AgentCrash, drawRows, vars
<1> QED
  BY <1>1, <1>2, <1>3, <1>4, <1>5, <1>6, <1>7, <1>8 DEF Next
\* A submission, once written, is never forgotten.
LEMMA SubmissionStep == Inductive /\ [Next]_vars => \A p \in Pull : sub[p] # "none" => sub'[p] # "none"
<1> SUFFICES ASSUME Inductive, [Next]_vars, NEW p \in Pull, sub[p] # "none" PROVE sub'[p] # "none"
  OBVIOUS
<1>1. ASSUME NEW h \in Delivery, HookStep(h) PROVE sub'[p] # "none"
  <2>1. CASE Submit(h)
    BY <2>1 DEF Submit, Inductive, TypeOK, HookShape
  <2> QED
    BY <1>1, <2>1 DEF HookStep, ListBounties, MarkInReview, RecordPull, ResetHolder, Reopen, Gate, InsertPayout,
       MarkPayable, pullRows
<1>2. ASSUME NEW d \in Drawer, CheckLive(d) \/ DrawStep(d) PROVE sub'[p] # "none"
  BY <1>2 DEF CheckLive, DrawStep, ReadExcluded, Choose, InsertAssignment, ClearExclusion, ClearAwaiting,
     SettleApplications, TellWinner, pullRows
<1>3. CASE SweepStep \/ Decide
  BY <1>3 DEF SweepStep, RecordSubmitted, ReleaseStale, ReturnToPool, FindDue, CountPool, Extend,
     Decide, UnassignRead, UnassignRelease, UnassignReturn, UnassignAwait, Close, MoveDeadline, pullRows
<1>4. CASE Pay \/ CloseWindow \/ PassDeadline \/ (\E q \in Pull : PullChange(q)) \/ AgentCrash \/ UNCHANGED vars
  BY <1>4 DEF Pay, CloseWindow, PassDeadline, PullChange, AgentCrash, pullRows, vars
<1>5. ASSUME NEW x \in Application, ApplyCheck(x) \/ \E eligible \in BOOLEAN : ApplyInsert(x, eligible)
      PROVE  sub'[p] # "none"
  BY <1>5 DEF ApplyCheck, ApplyInsert, pullRows
<1>6. ASSUME NEW h \in Delivery, NEW q \in Pull, Activity(h, q) \/ Closed(h, q) PROVE sub'[p] # "none"
  BY <1>6 DEF Activity, Closed, pullRows
<1> QED
  BY <1>1, <1>2, <1>3, <1>4, <1>5, <1>6 DEF Next

\* The bounty never gets a second holder: rows updated in place do not come back
\* to life, and a row is inserted only where none is live.
LEMMA HolderStep == Inductive /\ [Next]_vars => OneHolder'
<1> SUFFICES ASSUME Inductive, [Next]_vars PROVE OneHolder'
  OBVIOUS
<1>t. asg \in Seq(Assignment) /\ Len(asg) \in Nat
  BY DEF Inductive, TypeOK
<1>1. CASE UpdatesRows
  <2>1. LiveRows' \subseteq LiveRows
    BY <1>1, <1>t DEF UpdatesRows, LiveRows
  <2> QED BY <2>1 DEF Inductive, OneHolder
<1>2. CASE InsertsRow
  <2>1. PICK r \in Assignment : asg' = Append(asg, r)
    BY <1>2 DEF InsertsRow
  <2>2. Len(asg') = Len(asg) + 1 /\ \A i \in 1 .. Len(asg) : asg'[i] = asg[i]
    BY <2>1, <1>t
  <2>3. LiveRows' \subseteq {Len(asg) + 1}
    BY <1>2, <2>2, <1>t DEF InsertsRow, LiveRows
  <2> QED BY <2>3 DEF OneHolder
<1> QED BY <1>1, <1>2, AssignmentStep

\* A submitted assignment keeps naming a pull request of its holder.
LEMMA PullStep == Inductive /\ [Next]_vars => PrBelongsToHolder'
<1> SUFFICES ASSUME Inductive, [Next]_vars, NEW i \in LiveRows', asg'[i].status = "pr_submitted"
             PROVE  asg'[i].pull # NoPull /\ Author[asg'[i].pull] = asg'[i].user /\ sub'[asg'[i].pull] # "none"
  BY DEF PrBelongsToHolder
<1>t. asg \in Seq(Assignment) /\ Len(asg) \in Nat /\ \A j \in 1 .. Len(asg) : asg[j] \in Assignment
  BY DEF Inductive, TypeOK
<1>1. CASE UpdatesRows
  <2>1. i \in 1 .. Len(asg) /\ i \in LiveRows
    BY <1>1, <1>t DEF UpdatesRows, LiveRows
  <2>2. CASE asg[i].status = "pr_submitted" /\ asg'[i].pull = asg[i].pull
    <3>1. asg[i].pull \in Pull /\ Author[asg[i].pull] = asg[i].user /\ sub[asg[i].pull] # "none"
      BY <2>1, <2>2, <1>t DEF Inductive, PrBelongsToHolder, Assignment
    <3> QED BY <1>1, <2>1, <2>2, <3>1, SubmissionStep DEF UpdatesRows
  <2>3. CASE asg'[i].pull \in Pull /\ Author[asg'[i].pull] = asg[i].user /\ sub[asg'[i].pull] # "none"
    BY <1>1, <2>1, <2>3, SubmissionStep DEF UpdatesRows
  <2> QED BY <1>1, <2>1, <2>2, <2>3 DEF UpdatesRows
<1>2. CASE InsertsRow
  <2>1. PICK r \in Assignment : r.status = "active" /\ asg' = Append(asg, r)
    BY <1>2 DEF InsertsRow
  <2>2. Len(asg') = Len(asg) + 1 /\ asg'[Len(asg) + 1] = r /\ \A j \in 1 .. Len(asg) : asg'[j] = asg[j]
    BY <2>1, <1>t
  <2> QED BY <1>2, <2>1, <2>2, <1>t DEF InsertsRow, LiveRows
<1> QED BY <1>1, <1>2, AssignmentStep
-----------------------------------------------------------------------------
(* The types, and what each handler carries.                               *)

\* The assignments stay rows, within the bound, and none disappears.
LEMMA RowsStep ==
  Inductive /\ [Next]_vars =>
    asg' \in Seq(Assignment) /\ Len(asg') \in Nat /\ Len(asg) <= Len(asg') /\ Len(asg') <= MaxAssignments
<1> SUFFICES ASSUME Inductive, [Next]_vars
             PROVE asg' \in Seq(Assignment) /\ Len(asg') \in Nat /\ Len(asg) <= Len(asg') /\ Len(asg') <= MaxAssignments
  OBVIOUS
<1>t. asg \in Seq(Assignment) /\ Len(asg) \in Nat /\ Len(asg) <= MaxAssignments
  BY DEF Inductive, TypeOK
<1>1. CASE UpdatesRows
  BY <1>1, <1>t DEF UpdatesRows
<1>2. CASE InsertsRow
  BY <1>2, <1>t DEF InsertsRow
<1> QED BY <1>1, <1>2, AssignmentStep

\* What a runDrawFor carries stays well formed: the winner is a person, and the
\* row it has made is one of the bounty's.
DrawOK == draw \in [Drawer -> DrawState] /\ DrawShape

LEMMA DrawTypes == Inductive /\ [Next]_vars => DrawOK'
<1> SUFFICES ASSUME Inductive, [Next]_vars PROVE DrawOK'
  OBVIOUS
<1>a. Len(asg') \in Nat /\ Len(asg) \in Nat /\ Len(asg) <= Len(asg') /\ Len(asg') <= MaxAssignments
  BY RowsStep DEF Inductive, TypeOK
<1>t. draw \in [Drawer -> DrawState] /\ DrawShape
  BY DEF Inductive, TypeOK
<1>e. excluded \in User \cup {Nobody}
  BY DEF Inductive, TypeOK
<1>0. ASSUME UNCHANGED draw PROVE DrawOK'
  BY <1>0, <1>a, <1>t DEF DrawOK, DrawShape
\* One draw's record is replaced.
<1>r. ASSUME NEW d \in Drawer, NEW r \in DrawState, draw' = [draw EXCEPT ![d] = r],
             r.at \in {"assigning", "clearing", "unawaiting", "settling", "telling"} => r.winner \in User,
             r.at \in {"clearing", "unawaiting", "settling", "telling"} => r.row \in 1 .. Len(asg')
      PROVE  DrawOK'
  <2>1. draw' \in [Drawer -> DrawState]
    BY <1>r, <1>t
  <2>2. draw'[d] = r /\ \A e \in Drawer \ {d} : draw'[e] = draw[e]
    BY <1>r, <1>t
  <2>3. DrawShape'
    BY <1>r, <2>2, <1>a, <1>t DEF DrawShape
  <2> QED BY <2>1, <2>3 DEF DrawOK
<1>idle. ASSUME NEW d \in Drawer, DrawEnds(d) PROVE DrawOK'
  <2>1. DrawIdle \in DrawState /\ DrawIdle.at = "idle"
    BY DEF DrawIdle, DrawState
  <2>2. draw' = [draw EXCEPT ![d] = DrawIdle]
    BY <1>idle DEF DrawEnds
  <2> QED BY <1>r, <2>1, <2>2
\* It moves on with what it carries.
<1>m. ASSUME NEW d \in Drawer, NEW w \in {"excluding", "unawaiting", "settling", "telling"}, DrawAt(d, w),
             w = "excluding" \/ draw[d].at \in {"clearing", "unawaiting", "settling"}
      PROVE  DrawOK'
  <2> DEFINE r == [draw[d] EXCEPT !.at = w]
  <2>1. r \in DrawState
    BY <1>t DEF DrawState
  <2>2. r.at = w /\ r.winner = draw[d].winner /\ r.row = draw[d].row
    BY <1>t DEF DrawState
  <2>3. draw' = [draw EXCEPT ![d] = r]
    BY <1>m DEF DrawAt
  <2>4. w # "excluding" => r.winner \in User /\ r.row \in 1 .. Len(asg')
    BY <1>m, <1>a, <1>t, <2>2 DEF DrawShape
  <2> HIDE DEF r
  <2> QED BY <1>r, <1>m, <2>1, <2>2, <2>3, <2>4
<1>1. ASSUME NEW d \in Drawer, CheckLive(d) PROVE DrawOK'
  BY <1>1, <1>m, <1>idle DEF CheckLive
<1>2. ASSUME NEW d \in Drawer, ReadExcluded(d) PROVE DrawOK'
  <2> DEFINE r == [draw[d] EXCEPT !.at = "choosing", !.excluded = excluded]
  <2>1. r \in DrawState /\ r.at = "choosing"
    BY <1>t, <1>e DEF DrawState
  <2>2. draw' = [draw EXCEPT ![d] = r]
    BY <1>2 DEF ReadExcluded
  <2> HIDE DEF r
  <2> QED BY <1>r, <2>1, <2>2
<1>3. ASSUME NEW d \in Drawer, Choose(d) PROVE DrawOK'
  <2>1. CASE DrawEnds(d)
    BY <2>1, <1>idle
  <2>2. ASSUME NEW u \in User, draw' = [draw EXCEPT ![d] = [@ EXCEPT !.at = "assigning", !.winner = u]]
        PROVE  DrawOK'
    <3> DEFINE r == [draw[d] EXCEPT !.at = "assigning", !.winner = u]
    <3>1. r \in DrawState /\ r.at = "assigning" /\ r.winner = u
      BY <1>t DEF DrawState
    <3>2. draw' = [draw EXCEPT ![d] = r]
      BY <2>2
    <3> HIDE DEF r
    <3> QED BY <1>r, <3>1, <3>2
  <2> QED BY <1>3, <2>1, <2>2 DEF Choose
<1>4. ASSUME NEW d \in Drawer, InsertAssignment(d) PROVE DrawOK'
  <2>1. CASE DrawEnds(d)
    BY <2>1, <1>idle
  <2>2. CASE Assign(d)
    <3> DEFINE w == IF draw[d].excluded = Nobody THEN "unawaiting" ELSE "clearing"
               r == [draw[d] EXCEPT !.at = w, !.row = Len(asg) + 1]
    <3>1. w \in {"unawaiting", "clearing"}
      OBVIOUS
    <3>2. Len(asg') = Len(asg) + 1
      BY <2>2 DEF Assign, Inductive, TypeOK
    <3>3. Len(asg) + 1 \in 0 .. MaxAssignments /\ Len(asg) + 1 \in 1 .. Len(asg')
      BY <3>2, <1>a
    <3>4. draw' = [draw EXCEPT ![d] = r]
      BY <2>2 DEF Assign
    <3>5. draw[d].winner \in User
      BY <1>4, <1>t DEF InsertAssignment, DrawShape
    <3> HIDE DEF w
    <3>6. r \in DrawState /\ r.winner = draw[d].winner /\ r.row = Len(asg) + 1
      BY <1>t, <3>1, <3>3 DEF DrawState
    <3> HIDE DEF r
    <3> QED BY <1>r, <3>3, <3>4, <3>5, <3>6
  <2> QED BY <1>4, <2>1, <2>2 DEF InsertAssignment
<1>5. ASSUME NEW d \in Drawer, ClearExclusion(d) \/ ClearAwaiting(d) \/ SettleApplications(d) PROVE DrawOK'
  BY <1>5, <1>m DEF ClearExclusion, ClearAwaiting, SettleApplications
<1>6. ASSUME NEW d \in Drawer, TellWinner(d) PROVE DrawOK'
  BY <1>6, <1>idle DEF TellWinner
<1>7. CASE AgentCrash
  BY <1>7 DEF AgentCrash, DrawOK, DrawShape, DrawIdle, DrawState
<1>8. CASE SweepStep \/ Decide
  BY <1>8, <1>0 DEF SweepStep, RecordSubmitted, ReleaseStale, ReturnToPool, FindDue, CountPool, Extend,
     Decide, UnassignRead, UnassignRelease, UnassignReturn, UnassignAwait, Close, MoveDeadline
<1>9. ASSUME NEW h \in Delivery, HookStep(h) PROVE DrawOK'
  BY <1>9, <1>0 DEF HookStep, ListBounties, Submit, MarkInReview, RecordPull, ResetHolder, Reopen, Gate,
     InsertPayout, MarkPayable
<1>10. CASE Pay \/ CloseWindow \/ PassDeadline \/ (\E q \in Pull : PullChange(q)) \/ UNCHANGED vars
  BY <1>10, <1>0 DEF Pay, CloseWindow, PassDeadline, PullChange, vars
<1>11. ASSUME NEW x \in Application, ApplyCheck(x) \/ \E eligible \in BOOLEAN : ApplyInsert(x, eligible)
       PROVE  DrawOK'
  BY <1>11, <1>0 DEF ApplyCheck, ApplyInsert
<1>12. ASSUME NEW h \in Delivery, NEW q \in Pull, Activity(h, q) \/ Closed(h, q) PROVE DrawOK'
  BY <1>12, <1>0 DEF Activity, Closed
<1> QED
  BY <1>1, <1>2, <1>3, <1>4, <1>5, <1>6, <1>7, <1>8, <1>9, <1>10, <1>11, <1>12 DEF Next, DrawStep

\* What a webhook handler carries stays well formed: it works on a pull request
\* it has read, and past the upsert that pull request is a submission.
HookOK == hook \in [Delivery -> HookState] /\ HookShape

LEMMA HookTypes == Inductive /\ [Next]_vars => HookOK'
<1> SUFFICES ASSUME Inductive, [Next]_vars PROVE HookOK'
  OBVIOUS
<1>t. hook \in [Delivery -> HookState] /\ HookShape /\ sub \in [Pull -> {"none", "open", "closed", "merged"}]
  BY DEF Inductive, TypeOK
<1>s. \A p \in Pull : sub[p] # "none" => sub'[p] # "none"
  BY SubmissionStep
<1>i. HookIdle \in HookState /\ HookIdle.at = "idle"
  BY DEF HookIdle, HookState
<1>d. [HookIdle EXCEPT !.at = "done"] \in HookState /\ [HookIdle EXCEPT !.at = "done"].at = "done"
  BY DEF HookIdle, HookState
<1>0. ASSUME UNCHANGED hook PROVE HookOK'
  <2>1. HookShape'
    BY <1>0, <1>s, <1>t DEF HookShape, HookState
  <2> QED BY <2>1, <1>0, <1>t DEF HookOK
\* One handler's record is replaced.
<1>r. ASSUME NEW h \in Delivery, NEW r \in HookState, hook' = [hook EXCEPT ![h] = r],
             r.at \notin {"idle", "done"} => r.pull \in Pull /\ r.read # "none",
             r.at \in {"reviewing", "recording"} => sub'[r.pull] # "none"
      PROVE  HookOK'
  <2>1. hook' \in [Delivery -> HookState]
    BY <1>r, <1>t
  <2>2. hook'[h] = r /\ \A g \in Delivery \ {h} : hook'[g] = hook[g]
    BY <1>r, <1>t
  <2>3. HookShape'
    BY <1>r, <2>2, <1>s, <1>t DEF HookShape, HookState
  <2> QED BY <2>1, <2>3 DEF HookOK
<1>e. ASSUME NEW h \in Delivery, HookEnds(h) PROVE HookOK'
  BY <1>e, <1>d, <1>r DEF HookEnds
\* It moves on with what it carries.
<1>m. ASSUME NEW h \in Delivery,
             NEW w \in {"reviewing", "recording", "resetting", "reopening", "gating", "inserting", "opening"},
             HookAt(h, w), hook[h].at \notin {"idle", "done"},
             w \in {"reviewing", "recording"} => sub'[hook[h].pull] # "none"
      PROVE  HookOK'
  <2> DEFINE r == [hook[h] EXCEPT !.at = w]
  <2>1. r \in HookState
    BY <1>t DEF HookState
  <2>2. r.at = w /\ r.pull = hook[h].pull /\ r.read = hook[h].read
    BY <1>t DEF HookState
  <2>3. hook' = [hook EXCEPT ![h] = r]
    BY <1>m DEF HookAt
  <2>4. r.pull \in Pull /\ r.read # "none"
    BY <1>m, <1>t, <2>2 DEF HookShape
  <2> HIDE DEF r
  <2> QED BY <1>r, <1>m, <2>1, <2>2, <2>3, <2>4
\* It has read a pull request.
<1>b. ASSUME NEW h \in Delivery, NEW p \in Pull, NEW what \in {"open", "closed", "merged"},
             hook' = [hook EXCEPT ![h] = [@ EXCEPT !.at = "listing", !.pull = p, !.read = what]]
      PROVE  HookOK'
  <2> DEFINE r == [hook[h] EXCEPT !.at = "listing", !.pull = p, !.read = what]
  <2>a. [hook[h] EXCEPT !.at = "listing"] \in HookState
    BY <1>t DEF HookState
  <2>b. [[hook[h] EXCEPT !.at = "listing"] EXCEPT !.pull = p] \in HookState
    BY <2>a DEF HookState
  <2>c. [[[hook[h] EXCEPT !.at = "listing"] EXCEPT !.pull = p] EXCEPT !.read = what] \in HookState
    BY <2>b DEF HookState
  <2>1. r \in HookState
    BY <2>c
  <2>2. r.at = "listing" /\ r.pull = p /\ r.read = what
    BY <1>t DEF HookState
  <2>3. hook' = [hook EXCEPT ![h] = r]
    BY <1>b
  <2> HIDE DEF r
  <2> QED BY <1>r, <2>1, <2>2, <2>3
<1>1. ASSUME NEW h \in Delivery, NEW p \in Pull, Activity(h, p) \/ Closed(h, p) PROVE HookOK'
  BY <1>1, <1>b, <1>e DEF Activity, Closed
<1>2. ASSUME NEW h \in Delivery, HookStep(h) PROVE HookOK'
  <2>1. CASE ListBounties(h)
    <3>1. CASE HookEnds(h)
      BY <3>1, <1>e
    <3>2. CASE hook' = [hook EXCEPT ![h] = [@ EXCEPT !.at = "submitting", !.status = status]]
               /\ status \in {"posted", "in_review", "payable"}
      <4> DEFINE r == [hook[h] EXCEPT !.at = "submitting", !.status = status]
      <4>a. [hook[h] EXCEPT !.at = "submitting"] \in HookState
        BY <1>t DEF HookState
      <4>b. [[hook[h] EXCEPT !.at = "submitting"] EXCEPT !.status = status] \in HookState
        BY <4>a, <3>2 DEF HookState
      <4>1. r \in HookState
        BY <4>b
      <4>2. r.at = "submitting" /\ r.pull = hook[h].pull /\ r.read = hook[h].read
        BY <1>t DEF HookState
      <4>3. hook' = [hook EXCEPT ![h] = r]
        BY <3>2
      <4>4. r.pull \in Pull /\ r.read # "none"
        BY <2>1, <1>t, <4>2 DEF ListBounties, HookShape
      <4> HIDE DEF r
      <4> QED BY <1>r, <4>1, <4>2, <4>3, <4>4
    <3> QED BY <2>1, <3>1, <3>2 DEF ListBounties
  <2>2. CASE Submit(h)
    <3>1. hook[h].at = "submitting" /\ hook[h].pull \in Pull /\ hook[h].read \in {"open", "closed", "merged"}
      BY <2>2, <1>t DEF Submit, HookShape, HookState
    <3>2. sub'[hook[h].pull] # "none"
      BY <2>2, <3>1, <1>t DEF Submit
    <3>3. HookAt(h, "reviewing") \/ HookAt(h, "resetting") \/ HookAt(h, "gating")
      BY <2>2, <3>1 DEF Submit
    <3> QED BY <3>1, <3>2, <3>3, <1>m
  <2>3. CASE MarkInReview(h)
    <3>1. hook[h].pull \in Pull /\ sub[hook[h].pull] # "none"
      BY <2>3, <1>t DEF MarkInReview, HookShape
    <3> QED BY <2>3, <3>1, <1>s, <1>m DEF MarkInReview
  <2>4. CASE RecordPull(h) \/ Reopen(h) \/ MarkPayable(h)
    BY <2>4, <1>e DEF RecordPull, Reopen, MarkPayable
  <2>5. CASE ResetHolder(h)
    BY <2>5, <1>m DEF ResetHolder
  <2>6. CASE (\E others \in BOOLEAN : Gate(h, others)) \/ InsertPayout(h)
    BY <2>6, <1>m, <1>e DEF Gate, InsertPayout
  <2> QED BY <1>2, <2>1, <2>2, <2>3, <2>4, <2>5, <2>6 DEF HookStep
<1>3. CASE AgentCrash
  <2>1. hook' \in [Delivery -> HookState] /\ \A h \in Delivery : hook'[h].at \in {"idle", "done"}
    BY <1>3, <1>i, <1>d DEF AgentCrash
  <2> QED BY <2>1 DEF HookOK, HookShape
<1>4. ASSUME NEW d \in Drawer, CheckLive(d) \/ DrawStep(d) PROVE HookOK'
  BY <1>4, <1>0 DEF CheckLive, DrawStep, ReadExcluded, Choose, InsertAssignment, ClearExclusion, ClearAwaiting,
     SettleApplications, TellWinner
<1>5. CASE SweepStep \/ Decide
  BY <1>5, <1>0 DEF SweepStep, RecordSubmitted, ReleaseStale, ReturnToPool, FindDue, CountPool, Extend,
     Decide, UnassignRead, UnassignRelease, UnassignReturn, UnassignAwait, Close, MoveDeadline
<1>6. CASE Pay \/ CloseWindow \/ PassDeadline \/ (\E q \in Pull : PullChange(q)) \/ UNCHANGED vars
  BY <1>6, <1>0 DEF Pay, CloseWindow, PassDeadline, PullChange, vars
<1>7. ASSUME NEW x \in Application, ApplyCheck(x) \/ \E eligible \in BOOLEAN : ApplyInsert(x, eligible)
      PROVE  HookOK'
  BY <1>7, <1>0 DEF ApplyCheck, ApplyInsert
<1> QED
  BY <1>1, <1>2, <1>3, <1>4, <1>5, <1>6, <1>7 DEF Next

LEMMA RowUser == Inductive => \A i \in 1 .. Len(asg) : asg[i].user \in User
<1> SUFFICES ASSUME Inductive, NEW i \in 1 .. Len(asg) PROVE asg[i].user \in User
  OBVIOUS
<1>1. asg[i] \in Assignment
  BY DEF Inductive, TypeOK
<1> QED BY <1>1 DEF Assignment

\* The sweep, the window it extends, and an unassignment under way.
StepOK ==
  /\ sweep \in SweepState
  /\ window \in [open: BOOLEAN, extensions: 0 .. MaxExtensions]
  /\ unassign \in [at: {"idle", "releasing", "returning", "awaiting"}, row: 0 .. MaxAssignments]
  /\ SweepShape /\ UnassignShape

LEMMA StepTypes == Inductive /\ [Next]_vars => StepOK'
<1> SUFFICES ASSUME Inductive, [Next]_vars PROVE StepOK'
  OBVIOUS
<1>a. Len(asg') \in Nat /\ Len(asg) \in Nat /\ Len(asg) <= Len(asg') /\ Len(asg') <= MaxAssignments
  BY RowsStep DEF Inductive, TypeOK
<1>t. StepOK
  BY DEF Inductive, TypeOK, StepOK
<1>0. ASSUME UNCHANGED <<sweep, window, unassign>> PROVE StepOK'
  BY <1>0, <1>a, <1>t DEF StepOK, SweepShape, UnassignShape
\* Only the sweep moves, and not to an extension.
<1>m. ASSUME NEW w \in {"idle", "releasing", "finding", "counting", "drawing"}, SweepAt(w), UNCHANGED <<window, unassign>>
      PROVE  StepOK'
  <2>1. sweep' \in SweepState /\ sweep'.at = w
    BY <1>m, <1>t DEF SweepAt, StepOK, SweepState
  <2> QED BY <2>1, <1>m, <1>a, <1>t DEF StepOK, SweepShape, UnassignShape
\* Only the unassignment moves.
<1>u. ASSUME UNCHANGED <<sweep, window>>, UnassignShape',
             unassign' \in [at: {"idle", "releasing", "returning", "awaiting"}, row: 0 .. MaxAssignments]
      PROVE  StepOK'
  BY <1>u, <1>t DEF StepOK, SweepShape
<1>1. ASSUME NEW d \in Drawer, CheckLive(d) \/ DrawStep(d) PROVE StepOK'
  <2>1. UNCHANGED <<window, unassign>> /\ (UNCHANGED sweep \/ SweepAt("idle"))
    BY <1>1 DEF CheckLive, DrawStep, ReadExcluded, Choose, InsertAssignment, Assign, ClearExclusion, ClearAwaiting,
       SettleApplications, TellWinner, DrawEnds, SweepAt, bountyRow
  <2> QED BY <2>1, <1>0, <1>m
<1>2. CASE SweepStep
  <2>1. CASE RecordSubmitted \/ FindDue
    BY <2>1, <1>m DEF RecordSubmitted, FindDue, bountyRow
  <2>2. CASE ReleaseStale
    <3>a. \A i \in 1 .. Len(asg) : asg[i].user \in User
      BY RowUser
    <3>1. {asg[i].user : i \in Stale} \subseteq User
      BY <3>a DEF Stale, LiveRows
    <3>2. sweep' \in SweepState /\ sweep'.at = "returning" /\ UNCHANGED <<window, unassign>>
      BY <2>2, <3>1 DEF ReleaseStale, SweepState, bountyRow
    <3> QED BY <3>2, <1>a, <1>t DEF StepOK, SweepShape, UnassignShape
  <2>3. CASE ReturnToPool
    <3>1. sweep.at = "returning" /\ UNCHANGED <<window, unassign>>
      BY <2>3 DEF ReturnToPool, bountyRow
    <3>2. CASE SweepAt("finding")
      BY <3>1, <3>2, <1>m
    <3>3. ASSUME NEW u \in User, sweep' = [sweep EXCEPT !.back = @ \ {u}]
          PROVE  StepOK'
      <4>1. sweep' \in SweepState /\ sweep'.at = "returning"
        BY <3>1, <3>3, <1>t DEF StepOK, SweepState
      <4> QED BY <3>1, <4>1, <1>a, <1>t DEF StepOK, SweepShape, UnassignShape
    <3>4. sweep.back \subseteq User
      BY <1>t DEF StepOK, SweepState
    <3> QED BY <2>3, <3>2, <3>3, <3>4 DEF ReturnToPool
  <2>4. CASE CountPool
    <3>1. CASE SweepAt("extending") /\ window.extensions < MaxExtensions
      <4>1. sweep' \in SweepState /\ sweep'.at = "extending" /\ UNCHANGED <<window, unassign>>
        BY <2>4, <3>1, <1>t DEF CountPool, SweepAt, StepOK, SweepState, bountyRow
      <4> QED BY <3>1, <4>1, <1>a, <1>t DEF StepOK, SweepShape, UnassignShape
    <3>2. CASE SweepAt("drawing") \/ SweepAt("idle")
      BY <2>4, <3>2, <1>m DEF CountPool, bountyRow
    <3> QED BY <2>4, <3>1, <3>2 DEF CountPool
  <2>5. CASE Extend
    <3>1. window.extensions + 1 \in 0 .. MaxExtensions
      BY <2>5, <1>t DEF Extend, StepOK, SweepShape
    <3>2. window' \in [open: BOOLEAN, extensions: 0 .. MaxExtensions]
      BY <2>5, <3>1 DEF Extend
    <3>3. sweep' \in SweepState /\ sweep'.at = "idle" /\ UNCHANGED unassign
      BY <2>5, <1>t DEF Extend, SweepAt, StepOK, SweepState
    <3> QED BY <3>2, <3>3, <1>a, <1>t DEF StepOK, SweepShape, UnassignShape
  <2> QED BY <1>2, <2>1, <2>2, <2>3, <2>4, <2>5 DEF SweepStep
<1>3. CASE Decide
  <2>1. CASE UnassignRead
    <3>1. UNCHANGED <<sweep, window>> /\ \E i \in LiveRows : unassign' = [at |-> "releasing", row |-> i]
      BY <2>1 DEF UnassignRead, bountyRow
    <3>2. PICK i \in 1 .. Len(asg) : unassign' = [at |-> "releasing", row |-> i]
      BY <3>1 DEF LiveRows
    <3>3. i \in 0 .. MaxAssignments /\ i \in 1 .. Len(asg')
      BY <3>2, <1>a
    <3> QED BY <3>1, <3>2, <3>3, <1>u DEF UnassignShape
  <2>2. ASSUME NEW w \in {"returning", "awaiting"}, unassign.at # "idle", unassign' = [unassign EXCEPT !.at = w],
               UNCHANGED <<sweep, window>>
        PROVE  StepOK'
    <3>1. unassign' \in [at: {"idle", "releasing", "returning", "awaiting"}, row: 0 .. MaxAssignments]
      BY <2>2, <1>t DEF StepOK
    <3>2. unassign'.row = unassign.row /\ unassign.row \in 1 .. Len(asg)
      BY <2>2, <1>t DEF StepOK, UnassignShape
    <3> QED BY <2>2, <3>1, <3>2, <1>a, <1>u DEF UnassignShape
  <2>3. CASE UnassignRelease \/ UnassignReturn
    BY <2>3, <2>2 DEF UnassignRelease, UnassignReturn, bountyRow
  <2>4. CASE UnassignAwait
    BY <2>4, <1>u DEF UnassignAwait, UnassignShape
  <2>5. CASE Close \/ MoveDeadline
    BY <2>5, <1>0 DEF Close, MoveDeadline, bountyRow
  <2> QED BY <1>3, <2>1, <2>3, <2>4, <2>5 DEF Decide
<1>4. CASE CloseWindow
  <2>1. window' \in [open: BOOLEAN, extensions: 0 .. MaxExtensions] /\ window'.extensions = window.extensions
    BY <1>4, <1>t DEF CloseWindow, StepOK
  <2> QED BY <1>4, <2>1, <1>a, <1>t DEF CloseWindow, StepOK, SweepShape, UnassignShape
<1>5. CASE AgentCrash
  BY <1>5, <1>t DEF AgentCrash, StepOK, SweepState, SweepShape, UnassignShape, bountyRow
<1>6. ASSUME NEW h \in Delivery, HookStep(h) PROVE StepOK'
  BY <1>6, <1>0 DEF HookStep, ListBounties, Submit, MarkInReview, RecordPull, ResetHolder, Reopen, Gate,
     InsertPayout, MarkPayable, bountyRow
<1>7. ASSUME NEW h \in Delivery, NEW p \in Pull, Activity(h, p) \/ Closed(h, p) PROVE StepOK'
  BY <1>7, <1>0 DEF Activity, Closed, bountyRow
<1>8. CASE Pay \/ PassDeadline \/ (\E q \in Pull : PullChange(q)) \/ UNCHANGED vars
  BY <1>8, <1>0 DEF Pay, PassDeadline, PullChange, bountyRow, vars
<1>9. ASSUME NEW x \in Application, ApplyCheck(x) \/ \E eligible \in BOOLEAN : ApplyInsert(x, eligible)
      PROVE  StepOK'
  BY <1>9, <1>0 DEF ApplyCheck, ApplyInsert, bountyRow
<1> QED
  BY <1>1, <1>2, <1>3, <1>4, <1>5, <1>6, <1>7, <1>8, <1>9 DEF Next

\* The rows that carry nothing but a value of their own.
Rest ==
  /\ status   \in {"posted", "in_review", "payable", "paid", "cancelled"}
  /\ awaiting \in BOOLEAN
  /\ excluded \in User \cup {Nobody}
  /\ app      \in [User -> {"none", "applied", "won", "lost"}]
  /\ told     \subseteq 1 .. Len(asg)
  /\ sub      \in [Pull -> {"none", "open", "closed", "merged"}]
  /\ payout   \in BOOLEAN
  /\ github   \in [Pull -> {"none", "open", "reopened", "closed", "merged"}]
  /\ applying \subseteq Application
  /\ crashes  \in 0 .. MaxCrashes

LEMMA RestTypes == Inductive /\ [Next]_vars => Rest'
<1> SUFFICES ASSUME Inductive, [Next]_vars PROVE Rest'
  OBVIOUS
<1>a. Len(asg') \in Nat /\ Len(asg) \in Nat /\ Len(asg) <= Len(asg')
  BY RowsStep DEF Inductive, TypeOK
<1>t. Rest
  BY DEF Inductive, TypeOK, Rest
<1>u. \A i \in 1 .. Len(asg) : asg[i].user \in User
  BY RowUser
<1> USE DEF bountyRow, drawRows, pullRows
<1>0. ASSUME UNCHANGED <<status, awaiting, excluded, app, told, sub, payout, github, applying, crashes>>
      PROVE  Rest'
  BY <1>0, <1>a, <1>t DEF Rest
<1>1. ASSUME NEW d \in Drawer, CheckLive(d) \/ DrawStep(d) PROVE Rest'
  <2>1. CASE SettleApplications(d)
    <3>1. app' \in [User -> {"none", "applied", "won", "lost"}]
      BY <2>1, <1>t DEF SettleApplications, Rest
    <3> QED BY <2>1, <3>1, <1>a, <1>t DEF SettleApplications, Rest
  <2>2. CASE TellWinner(d)
    <3>1. draw[d].row \in 1 .. Len(asg)
      BY <2>2 DEF TellWinner, Inductive, DrawShape
    <3> QED BY <2>2, <3>1, <1>a, <1>t DEF TellWinner, Rest
  <2>3. CASE ClearExclusion(d)
    BY <2>3, <1>a, <1>t DEF ClearExclusion, Rest
  <2>4. CASE ClearAwaiting(d)
    BY <2>4, <1>a, <1>t DEF ClearAwaiting, Rest
  <2>5. CASE CheckLive(d) \/ ReadExcluded(d) \/ Choose(d) \/ InsertAssignment(d)
    BY <2>5, <1>0 DEF CheckLive, ReadExcluded, Choose, InsertAssignment
  <2> QED BY <1>1, <2>1, <2>2, <2>3, <2>4, <2>5 DEF DrawStep
\* An application goes back to the pool.
<1>b. ASSUME NEW u \in User, BackToPool(u) PROVE app' \in [User -> {"none", "applied", "won", "lost"}]
  BY <1>b, <1>t DEF BackToPool, Rest
<1>2. CASE SweepStep
  <2>1. CASE ReturnToPool
    <3>1. sweep.back \subseteq User
      BY DEF Inductive, TypeOK, SweepState
    <3>2. app' \in [User -> {"none", "applied", "won", "lost"}]
      BY <2>1, <3>1, <1>b, <1>t DEF ReturnToPool, Rest
    <3> QED BY <2>1, <3>2, <1>a, <1>t DEF ReturnToPool, Rest
  <2>2. CASE RecordSubmitted \/ ReleaseStale \/ FindDue \/ CountPool \/ Extend
    BY <2>2, <1>0 DEF RecordSubmitted, ReleaseStale, FindDue, CountPool, Extend
  <2> QED BY <1>2, <2>1, <2>2 DEF SweepStep
<1>3. ASSUME NEW h \in Delivery, HookStep(h) PROVE Rest'
  <2>1. CASE Submit(h)
    <3>1. hook[h].read \in {"open", "closed", "merged"}
      BY <2>1 DEF Submit, Inductive, TypeOK, HookState, HookShape
    <3> QED BY <2>1, <3>1, <1>a, <1>t DEF Submit, Rest
  <2>2. CASE MarkInReview(h) \/ Reopen(h) \/ MarkPayable(h)
    <3>1. CASE MarkInReview(h)
      BY <3>1, <1>a, <1>t DEF MarkInReview, Rest
    <3>2. CASE Reopen(h)
      <4>1. status' \in {status, "posted"}
        BY <3>2 DEF Reopen, ReopenBounty
      <4> QED BY <3>2, <4>1, <1>a, <1>t DEF Reopen, Rest
    <3>3. CASE MarkPayable(h)
      BY <3>3, <1>a, <1>t DEF MarkPayable, Rest
    <3> QED BY <2>2, <3>1, <3>2, <3>3
  <2>3. CASE InsertPayout(h)
    BY <2>3, <1>a, <1>t DEF InsertPayout, Rest
  <2>4. CASE ListBounties(h) \/ RecordPull(h) \/ ResetHolder(h) \/ (\E others \in BOOLEAN : Gate(h, others))
    BY <2>4, <1>0 DEF ListBounties, RecordPull, ResetHolder, Gate
  <2> QED BY <1>3, <2>1, <2>2, <2>3, <2>4 DEF HookStep
<1>4. CASE Decide
  <2>1. CASE UnassignReturn
    <3>1. asg[unassign.row].user \in User
      BY <2>1, <1>u DEF UnassignReturn, Inductive, UnassignShape
    <3> QED BY <2>1, <3>1, <1>b, <1>a, <1>t DEF UnassignReturn, Rest
  <2>2. CASE UnassignAwait
    <3>1. asg[unassign.row].user \in User
      BY <2>2, <1>u DEF UnassignAwait, Inductive, UnassignShape
    <3> QED BY <2>2, <3>1, <1>a, <1>t DEF UnassignAwait, Rest
  <2>3. CASE Close
    <3>1. app' \in [User -> {"none", "applied", "won", "lost"}]
      BY <2>3, <1>b, <1>u, <1>t DEF Close, LiveRows, Rest
    <3> QED BY <2>3, <3>1, <1>a, <1>t DEF Close, Rest
  <2>4. CASE UnassignRead \/ UnassignRelease \/ MoveDeadline
    BY <2>4, <1>0 DEF UnassignRead, UnassignRelease, MoveDeadline
  <2> QED BY <1>4, <2>1, <2>2, <2>3, <2>4 DEF Decide
<1>5. ASSUME NEW x \in Application, ApplyCheck(x) \/ \E eligible \in BOOLEAN : ApplyInsert(x, eligible)
      PROVE  Rest'
  <2>1. CASE ApplyCheck(x)
    BY <2>1, <1>a, <1>t DEF ApplyCheck, Rest
  <2>2. CASE \E eligible \in BOOLEAN : ApplyInsert(x, eligible)
    BY <2>2, <1>a, <1>t DEF ApplyInsert, Rest
  <2> QED BY <1>5, <2>1, <2>2
<1>6. CASE \E q \in Pull : PullChange(q)
  <2>1. github' \in [Pull -> {"none", "open", "reopened", "closed", "merged"}]
    BY <1>6, <1>t DEF PullChange, Rest
  <2> QED BY <1>6, <2>1, <1>a, <1>t DEF PullChange, Rest
<1>7. CASE Pay
  BY <1>7, <1>a, <1>t DEF Pay, Rest
<1>8. CASE AgentCrash
  <2>1. crashes' \in 0 .. MaxCrashes /\ applying' = {}
    BY <1>8, <1>t DEF AgentCrash, Rest
  <2> QED BY <1>8, <2>1, <1>a, <1>t DEF AgentCrash, Rest
<1>9. ASSUME NEW h \in Delivery, NEW p \in Pull, Activity(h, p) \/ Closed(h, p) PROVE Rest'
  BY <1>9, <1>0 DEF Activity, Closed
<1>10. CASE CloseWindow \/ PassDeadline \/ UNCHANGED vars
  BY <1>10, <1>0 DEF CloseWindow, PassDeadline, vars
<1> QED
  BY <1>1, <1>2, <1>3, <1>4, <1>5, <1>6, <1>7, <1>8, <1>9, <1>10 DEF Next
-----------------------------------------------------------------------------
LEMMA InductiveInit == Init => Inductive
<1> SUFFICES ASSUME Init PROVE Inductive
  OBVIOUS
<1>1. draw \in [Drawer -> DrawState] /\ DrawShape
  BY DEF Init, DrawIdle, DrawState, DrawShape
<1>2. hook \in [Delivery -> HookState] /\ HookShape
  BY DEF Init, HookIdle, HookState, HookShape
<1>3. sweep \in SweepState /\ window \in [open: BOOLEAN, extensions: 0 .. MaxExtensions]
  BY DEF Init, SweepState
<1>4. unassign \in [at: {"idle", "releasing", "returning", "awaiting"}, row: 0 .. MaxAssignments]
  BY DEF Init
<1>5. asg = <<>> /\ asg \in Seq(Assignment) /\ Len(asg) = 0
  BY DEF Init
<1>6. LiveRows = {}
  BY <1>5 DEF LiveRows
<1>a. app \in [User -> {"none", "applied", "won", "lost"}] /\ sub \in [Pull -> {"none", "open", "closed", "merged"}]
  BY DEF Init
<1>b. github \in [Pull -> {"none", "open", "reopened", "closed", "merged"}]
  BY DEF Init
<1>c. awaiting \in BOOLEAN /\ payout \in BOOLEAN
  BY DEF Init
<1>d. crashes \in 0 .. MaxCrashes
  BY DEF Init
<1>e. told \subseteq 1 .. Len(asg) /\ applying \subseteq Application
  BY DEF Init
<1>f. excluded \in User \cup {Nobody} /\ status \in {"posted", "in_review", "payable", "paid", "cancelled"}
  BY DEF Init
<1>7. Rest
  BY <1>a, <1>b, <1>c, <1>d, <1>e, <1>f DEF Rest
<1>8. TypeOK
  BY <1>1, <1>2, <1>3, <1>4, <1>5, <1>7 DEF Rest, TypeOK
<1> QED
  BY <1>1, <1>2, <1>6, <1>8 DEF Init, Inductive, UnassignShape, SweepShape, OneHolder, PrBelongsToHolder

LEMMA InductiveStep == Inductive /\ [Next]_vars => Inductive'
<1> SUFFICES ASSUME Inductive, [Next]_vars PROVE Inductive'
  OBVIOUS
<1>1. TypeOK'
  BY RowsStep, DrawTypes, HookTypes, StepTypes, RestTypes DEF DrawOK, HookOK, StepOK, Rest, TypeOK
<1> QED
  BY <1>1, DrawTypes, HookTypes, StepTypes, HolderStep, PullStep DEF DrawOK, HookOK, StepOK, Inductive

LEMMA InductiveHolds == Spec => []Inductive
<1> QED BY InductiveInit, InductiveStep, PTL DEF Spec

\* Every variable keeps its type, so that what a handler carries from one
\* statement to the next is always a row, a pull request or a person of the bounty.
THEOREM TypeCorrect == Spec => []TypeOK
<1>1. Inductive => TypeOK
  BY DEF Inductive
<1> QED BY <1>1, InductiveHolds, PTL

\* At most one person holds the bounty, whatever draws, sweeps, decisions and
\* crashes interleave: draw-service.ts's check and its insert are statements apart.
THEOREM AtMostOneHolder == Spec => []OneHolder
<1>1. Inductive => OneHolder
  BY DEF Inductive
<1> QED BY <1>1, InductiveHolds, PTL

\* An assignment marked as submitted names a pull request its own holder opened
\* and that is recorded on this bounty.
THEOREM SubmittedIsOwn == Spec => []PrBelongsToHolder
<1>1. Inductive => PrBelongsToHolder
  BY DEF Inductive
<1> QED BY <1>1, InductiveHolds, PTL

-----------------------------------------------------------------------------
(* Nobody falls out of the pool, as long as nobody decides anything by hand. *)

\* The places of a draw that has inserted its assignment.
Placed == {"clearing", "unawaiting", "settling", "telling"}

\* Only the sweep's own return takes people back, and the sweep waits for its draw;
\* the row a draw has made stays live, and on the clock, until the draw is over;
\* and an application is 'won' while its applicant holds the bounty or the sweep
\* is about to return it.
SweepKept ==
  /\ sweep.at # "returning" => sweep.back = {}
  /\ \A d \in Drawer : d = "sweep" /\ draw[d].at # "idle" => sweep.at = "drawing"

Holding(d) ==
  /\ asg[draw[d].row].status \in LiveStatus
  /\ ~asg[draw[d].row].overdue
  /\ asg[draw[d].row].user = draw[d].winner
DrawsKept  == \A d \in Drawer : draw[d].at \in Placed => Holding(d)

Has(u)   == \E i \in LiveRows : asg[i].user = u
WonKept  == \A u \in User : app[u] = "won" => u \in sweep.back \/ Has(u)
PoolKept == SweepKept /\ DrawsKept /\ WonKept
PoolInv  == unassign.at = "idle" /\ (crashes = 0 => PoolKept)

\* A step that leaves whose the rows are, who is live and who is late.
RowsStay ==
  /\ Len(asg') \in Nat /\ Len(asg) <= Len(asg')
  /\ \A i \in 1 .. Len(asg) : /\ asg'[i].user = asg[i].user /\ asg'[i].overdue = asg[i].overdue
                              /\ asg[i].status \in LiveStatus => asg'[i].status \in LiveStatus

\* What of the types these proofs use.
LEMMA Types ==
  Inductive => /\ asg \in Seq(Assignment) /\ Len(asg) \in Nat /\ \A i \in 1 .. Len(asg) : asg[i] \in Assignment
               /\ draw \in [Drawer -> DrawState] /\ DrawShape
               /\ app \in [User -> {"none", "applied", "won", "lost"}]
               /\ sweep \in SweepState
  BY DEF Inductive, TypeOK

\* Whoever holds the bounty holds it still.
LEMMA HasStays == ASSUME Inductive, RowsStay, NEW u, Has(u) PROVE Has(u)'
<1>1. PICK i \in LiveRows : asg[i].user = u
  BY DEF Has
<1>2. Len(asg) \in Nat /\ Len(asg') \in Nat
  BY Types DEF RowsStay
<1>3. i \in 1 .. Len(asg) /\ asg[i].status \in LiveStatus
  BY DEF LiveRows
<1> QED BY <1>1, <1>2, <1>3 DEF Has, LiveRows, RowsStay

\* The row that a draw has made stays as the draw left it.
LEMMA HoldingStays ==
  ASSUME Inductive, RowsStay, NEW d \in Drawer, draw[d].at \in Placed, Holding(d), draw'[d] = draw[d]
  PROVE  Holding(d)'
<1>1. draw[d].row \in 1 .. Len(asg)
  BY Types DEF DrawShape, Placed
<1> QED BY <1>1 DEF Holding, RowsStay

\* A step of neither a draw nor the sweep, that makes nobody a winner.
LEMMA OthersKeep ==
  ASSUME Inductive, PoolKept, RowsStay, UNCHANGED <<draw, sweep>>,
         \A u \in User : app'[u] = "won" => app[u] = "won"
  PROVE  PoolKept'
<1>1. SweepKept'
  BY DEF PoolKept, SweepKept
<1>2. DrawsKept'
  BY HoldingStays DEF PoolKept, DrawsKept
<1>3. WonKept'
  BY HasStays DEF PoolKept, WonKept
<1> QED BY <1>1, <1>2, <1>3 DEF PoolKept

\* A step of the sweep: it is not waiting for its draw.
LEMMA SweepKeeps ==
  ASSUME Inductive, PoolKept, RowsStay, UNCHANGED draw, sweep.at # "drawing",
         sweep'.at # "returning" => sweep'.back = {},
         \A u \in User : app'[u] = "won" => app[u] = "won" /\ (u \in sweep.back => u \in sweep'.back \/ Has(u)')
  PROVE  PoolKept'
<1>1. SweepKept'
  BY DEF PoolKept, SweepKept
<1>2. DrawsKept'
  BY HoldingStays DEF PoolKept, DrawsKept
<1>3. WonKept'
  BY HasStays DEF PoolKept, WonKept
<1> QED BY <1>1, <1>2, <1>3 DEF PoolKept

\* A step of draw d, which ends (and with it the sweep's wait) or goes on.
LEMMA DrawKeeps ==
  ASSUME Inductive, PoolKept, RowsStay, NEW d \in Drawer, NEW state, draw' = [draw EXCEPT ![d] = state],
         d = "sweep" => sweep.at = "drawing",
         \/ UNCHANGED sweep
         \/ state.at = "idle" /\ sweep' = IF d = "sweep" THEN [sweep EXCEPT !.at = "idle"] ELSE sweep,
         state.at \in Placed => Holding(d)',
         \A u \in User : app'[u] = "won" => app[u] = "won" \/ Has(u)'
  PROVE  PoolKept'
<1>t. draw \in [Drawer -> DrawState] /\ sweep \in SweepState
  BY Types
<1>a. draw'[d] = state /\ \A e \in Drawer : e # d => draw'[e] = draw[e]
  BY <1>t
<1>b. sweep'.back = sweep.back /\ (sweep' = sweep \/ (state.at = "idle" /\ d = "sweep" /\ sweep'.at = "idle"))
  BY <1>t DEF SweepState
<1>1. SweepKept'
  <2>1. sweep.at = "drawing" => sweep.back = {}
    BY DEF PoolKept, SweepKept
  <2>2. sweep'.at # "returning" => sweep'.back = {}
    BY <1>b, <2>1 DEF PoolKept, SweepKept
  <2>3. ASSUME NEW e \in Drawer, e = "sweep", draw'[e].at # "idle" PROVE sweep'.at = "drawing"
    BY <1>a, <1>b, <2>3 DEF PoolKept, SweepKept
  <2> QED BY <2>2, <2>3 DEF SweepKept
<1>2. DrawsKept'
  <2>1. ASSUME NEW e \in Drawer, draw'[e].at \in Placed PROVE Holding(e)'
    BY <1>a, <2>1, HoldingStays DEF PoolKept, DrawsKept
  <2> QED BY <2>1 DEF DrawsKept
<1>3. WonKept'
  BY <1>b, HasStays DEF PoolKept, WonKept
<1> QED BY <1>1, <1>2, <1>3 DEF PoolKept

\* Statements that change rows in place, row by row.
LEMMA InPlace ==
  ASSUME Inductive, [Next]_vars, DOMAIN asg' = 1 .. Len(asg),
         \A i \in 1 .. Len(asg) : /\ asg'[i].user = asg[i].user /\ asg'[i].overdue = asg[i].overdue
                                  /\ asg[i].status \in LiveStatus => asg'[i].status \in LiveStatus
  PROVE  RowsStay
<1>1. asg' \in Seq(Assignment) /\ Len(asg') \in Nat /\ Len(asg) <= Len(asg')
  BY RowsStep
<1> QED BY <1>1 DEF RowsStay

\* So do statements that change no row.
LEMMA Same == ASSUME Inductive, UNCHANGED asg PROVE RowsStay
  BY Types DEF RowsStay

\* A pull request recorded on an assignment, or taken off it.
LEMMA Recorded ==
  ASSUME Inductive, NEW i \in 1 .. Len(asg), NEW p \in Pull
  PROVE  LET new == [asg[i] EXCEPT !.status = "pr_submitted", !.pull = p] IN
         new.user = asg[i].user /\ new.overdue = asg[i].overdue /\ new.status \in LiveStatus
<1>1. asg[i] \in Assignment
  BY Types
<1> QED BY <1>1 DEF Assignment, LiveStatus

LEMMA Taken ==
  ASSUME Inductive, NEW i \in 1 .. Len(asg)
  PROVE  LET new == [asg[i] EXCEPT !.status = "active"] IN
         new.user = asg[i].user /\ new.overdue = asg[i].overdue /\ new.status \in LiveStatus
<1>1. asg[i] \in Assignment
  BY Types
<1> QED BY <1>1 DEF Assignment, LiveStatus

\* A webhook handler changes rows in place, and none of them dies.
LEMMA HookRows == ASSUME Inductive, [Next]_vars, NEW h \in Delivery, HookStep(h) PROVE RowsStay
<1>t. asg \in Seq(Assignment) /\ Len(asg) \in Nat /\ DOMAIN asg = 1 .. Len(asg)
  BY Types
<1>1. CASE RecordPull(h)
  <2>1. hook[h].pull \in Pull
    BY <1>1 DEF RecordPull, Inductive, HookShape
  <2> DEFINE p == hook[h].pull
             new(i) == [asg[i] EXCEPT !.status = "pr_submitted", !.pull = p]
             affected(i) == asg[i].status = "active" /\ asg[i].user = Author[p]
  <2>2. asg' = [i \in 1 .. Len(asg) |-> IF affected(i) THEN new(i) ELSE asg[i]]
    BY <1>1 DEF RecordPull
  <2>3. \A i \in 1 .. Len(asg) : new(i).user = asg[i].user /\ new(i).overdue = asg[i].overdue /\ new(i).status \in LiveStatus
    BY <2>1, Recorded
  <2> HIDE DEF new, affected
  <2>4. DOMAIN asg' = 1 .. Len(asg) /\ \A i \in 1 .. Len(asg) : asg'[i] = new(i) \/ asg'[i] = asg[i]
    BY <2>2
  <2> QED BY <2>3, <2>4, InPlace
<1> DEFINE back(i) == [asg[i] EXCEPT !.status = "active"]
<1>b. ASSUME NEW Chosen, asg' = [i \in 1 .. Len(asg) |-> IF asg[i].status = "pr_submitted" /\ i \in Chosen THEN back(i) ELSE asg[i]]
      PROVE  RowsStay
  <2>1. \A i \in 1 .. Len(asg) : back(i).user = asg[i].user /\ back(i).overdue = asg[i].overdue /\ back(i).status \in LiveStatus
    BY Taken
  <2> HIDE DEF back
  <2>2. DOMAIN asg' = 1 .. Len(asg) /\ \A i \in 1 .. Len(asg) : asg'[i] = back(i) \/ asg'[i] = asg[i]
    BY <1>b
  <2> QED BY <2>1, <2>2, InPlace
<1>2. CASE ResetHolder(h)
  <2> DEFINE Chosen == {i \in 1 .. Len(asg) : asg[i].pull = hook[h].pull}
  <2>1. asg' = [i \in 1 .. Len(asg) |-> IF asg[i].status = "pr_submitted" /\ i \in Chosen THEN back(i) ELSE asg[i]]
    BY <1>2 DEF ResetHolder
  <2> HIDE DEF back, Chosen
  <2> QED BY <2>1, <1>b
<1>3. CASE Reopen(h)
  <2>1. CASE UNCHANGED asg
    BY <2>1, Same
  <2>2. CASE ReopenBounty
    <3>1. asg' = [i \in 1 .. Len(asg) |-> IF asg[i].status = "pr_submitted" /\ i \in 1 .. Len(asg) THEN back(i) ELSE asg[i]]
      BY <2>2 DEF ReopenBounty
    <3> HIDE DEF back
    <3> QED BY <3>1, <1>b
  <2> QED BY <1>3, <2>1, <2>2 DEF Reopen
<1> QED
  BY <1>1, <1>2, <1>3, Same DEF HookStep, ListBounties, Submit, MarkInReview, Gate, InsertPayout, MarkPayable, drawRows

\* A webhook handler touches neither applications nor draws.
LEMMA HookKeeps == ASSUME Inductive, PoolKept, [Next]_vars, NEW h \in Delivery, HookStep(h) PROVE PoolKept'
<1>1. RowsStay
  BY HookRows
<1>2. UNCHANGED <<app, draw, sweep>>
  BY DEF HookStep, ListBounties, Submit, MarkInReview, RecordPull, ResetHolder, Reopen, Gate, InsertPayout, MarkPayable, drawRows
<1> QED BY <1>1, <1>2, OthersKeep

\* The sweep: it records a pull request, releases whoever is late and takes them
\* back into the pool.
LEMMA SweepStepKeeps == ASSUME Inductive, PoolKept, [Next]_vars, SweepStep PROVE PoolKept'
<1>t. sweep \in SweepState
  BY Types
<1>1. CASE RecordSubmitted
  <2>1. RowsStay
    <3>1. ASSUME NEW i \in LiveRows, NEW p \in OpenSubs(asg[i].user), asg' = [asg EXCEPT ![i].status = "pr_submitted", ![i].pull = p]
          PROVE  RowsStay
      <4> DEFINE new == [asg[i] EXCEPT !.status = "pr_submitted", !.pull = p]
      <4>1. i \in 1 .. Len(asg) /\ p \in Pull /\ DOMAIN asg = 1 .. Len(asg)
        BY Types DEF LiveRows, OpenSubs, Subs
      <4>2. new.user = asg[i].user /\ new.overdue = asg[i].overdue /\ new.status \in LiveStatus
        BY <4>1, Recorded
      <4>3. asg' = [asg EXCEPT ![i] = new]
        BY <3>1, <4>1
      <4> HIDE DEF new
      <4>4. DOMAIN asg' = 1 .. Len(asg) /\ \A j \in 1 .. Len(asg) : asg'[j] = IF j = i THEN new ELSE asg[j]
        BY <4>1, <4>3
      <4> QED BY <4>2, <4>4, InPlace
    <3> QED BY <1>1, <3>1, Same DEF RecordSubmitted
  <2>2. UNCHANGED <<app, draw>> /\ sweep.at = "idle" /\ sweep'.at = "releasing" /\ sweep'.back = sweep.back
    BY <1>1, <1>t DEF RecordSubmitted, SweepAt, SweepState
  <2>3. sweep.back = {}
    BY <2>2 DEF PoolKept, SweepKept
  <2> QED BY <2>1, <2>2, <2>3, SweepKeeps
<1>2. CASE ReleaseStale
  <2> DEFINE new(i) == [asg[i] EXCEPT !.status = "released_stale", !.abandon = (Subs(asg[i].user) = {})]
  <2>1. asg' = [i \in 1 .. Len(asg) |-> IF i \in Stale THEN new(i) ELSE asg[i]]
    BY <1>2 DEF ReleaseStale
  <2> HIDE DEF new
  <2>2. Len(asg) \in Nat /\ Len(asg') \in Nat /\ Len(asg) <= Len(asg')
    BY Types, RowsStep
  <2>3. \A i \in 1 .. Len(asg) : i \notin Stale => asg'[i] = asg[i]
    BY <2>1
  <2>4. /\ sweep.at = "releasing" /\ sweep'.at = "returning" /\ sweep'.back = {asg[i].user : i \in Stale}
        /\ UNCHANGED <<app, draw>>
    BY <1>2 DEF ReleaseStale
  <2>5. SweepKept'
    BY <2>4 DEF PoolKept, SweepKept
  <2>6. ASSUME NEW d \in Drawer, draw[d].at \in Placed PROVE Holding(d)'
    <3>1. draw[d].row \in 1 .. Len(asg) /\ Holding(d)
      BY <2>6, Types DEF PoolKept, DrawsKept, DrawShape, Placed
    <3>2. draw[d].row \notin Stale
      BY <3>1 DEF Holding, Stale
    <3> QED BY <2>3, <2>4, <3>1, <3>2 DEF Holding
  <2>7. ASSUME NEW u \in User, app[u] = "won" PROVE u \in sweep'.back \/ Has(u)'
    <3>1. sweep.back = {}
      BY <2>4 DEF PoolKept, SweepKept
    <3>2. PICK i \in LiveRows : asg[i].user = u
      BY <2>7, <3>1 DEF PoolKept, WonKept, Has
    <3>3. CASE i \in Stale
      BY <2>4, <3>2, <3>3
    <3>4. CASE i \notin Stale
      <4>1. i \in 1 .. Len(asg) /\ i \in 1 .. Len(asg') /\ asg'[i] = asg[i] /\ asg[i].status \in LiveStatus
        BY <2>2, <2>3, <3>4 DEF LiveRows
      <4> QED BY <3>2, <4>1 DEF Has, LiveRows
    <3> QED BY <3>3, <3>4
  <2> QED BY <2>4, <2>5, <2>6, <2>7 DEF PoolKept, DrawsKept, WonKept
<1>3. CASE ReturnToPool
  <2>1. RowsStay /\ UNCHANGED draw /\ sweep.at = "returning"
    BY <1>3, Same DEF ReturnToPool
  <2>2. ASSUME NEW u \in sweep.back, BackToPool(u), sweep' = [sweep EXCEPT !.back = @ \ {u}] PROVE PoolKept'
    <3>1. sweep'.at = "returning" /\ sweep'.back = sweep.back \ {u}
      BY <2>1, <2>2, <1>t DEF SweepState
    <3>2. ASSUME NEW v \in User, app'[v] = "won" PROVE app[v] = "won" /\ v # u
      BY <2>2, <3>2, Types DEF BackToPool
    <3> QED BY <2>1, <3>1, <3>2, SweepKeeps
  <2>3. CASE sweep.back = {} /\ SweepAt("finding") /\ UNCHANGED app
    <3>1. sweep'.back = {}
      BY <2>3, <1>t DEF SweepAt, SweepState
    <3> QED BY <2>1, <2>3, <3>1, SweepKeeps
  <2> QED BY <1>3, <2>2, <2>3 DEF ReturnToPool
<1>4. CASE FindDue \/ CountPool \/ Extend
  <2>1. UNCHANGED <<asg, app, draw>> /\ sweep.at \in {"finding", "counting", "extending"}
    BY <1>4 DEF FindDue, CountPool, Extend, drawRows
  <2>2. sweep'.back = sweep.back
    BY <1>4, <1>t DEF FindDue, CountPool, Extend, SweepAt, SweepState
  <2>3. sweep.back = {}
    BY <2>1 DEF PoolKept, SweepKept
  <2> QED BY <2>1, <2>2, <2>3, Same, SweepKeeps
<1> QED BY <1>1, <1>2, <1>3, <1>4 DEF SweepStep

\* A draw: what it inserts is its winner's, live and not late, and so it stays
\* until the draw has marked the application 'won'.
LEMMA DrawStepKeeps ==
  ASSUME Inductive, PoolKept, [Next]_vars, NEW d \in Drawer, CheckLive(d) \/ DrawStep(d)
  PROVE  PoolKept'
<1>t. draw \in [Drawer -> DrawState] /\ DrawShape /\ draw[d] \in DrawState
  BY Types
<1>w. d = "sweep" => sweep.at = "drawing"
  BY DEF CheckLive, DrawStep, ReadExcluded, Choose, InsertAssignment, ClearExclusion, ClearAwaiting, SettleApplications,
         TellWinner, PoolKept, SweepKept
\* It ends, or goes on with what it carries, and changes no row.
<1>e. ASSUME DrawEnds(d), UNCHANGED <<asg, app>> PROVE PoolKept'
  BY <1>e, <1>w, Same, DrawKeeps DEF DrawEnds, DrawIdle, Placed
<1>g. ASSUME NEW state, draw' = [draw EXCEPT ![d] = state], UNCHANGED <<asg, app, sweep>>, state.at \notin Placed
      PROVE  PoolKept'
  BY <1>g, <1>w, Same, DrawKeeps
<1>p. ASSUME NEW where, DrawAt(d, where), draw[d].at \in Placed, UNCHANGED <<asg, sweep>>,
             \A u \in User : app'[u] = "won" => app[u] = "won" \/ Has(u)'
      PROVE  PoolKept'
  <2> DEFINE state == [draw[d] EXCEPT !.at = where]
  <2>1. draw' = [draw EXCEPT ![d] = state] /\ state.row = draw[d].row /\ state.winner = draw[d].winner
    BY <1>p, <1>t DEF DrawAt, DrawState
  <2> HIDE DEF state
  <2>2. draw'[d] = state
    BY <2>1, <1>t
  <2>3. Holding(d)'
    BY <1>p, <2>1, <2>2 DEF PoolKept, DrawsKept, Holding
  <2> QED BY <1>p, <1>w, <2>1, <2>3, Same, DrawKeeps
<1>1. CASE CheckLive(d)
  <2>1. CASE DrawAt(d, "excluding") /\ UNCHANGED sweep
    <3> DEFINE state == [draw[d] EXCEPT !.at = "excluding"]
    <3>1. draw' = [draw EXCEPT ![d] = state] /\ state.at = "excluding"
      BY <2>1, <1>t DEF DrawAt, DrawState
    <3> HIDE DEF state
    <3> QED BY <1>1, <2>1, <3>1, <1>g DEF CheckLive, Placed, drawRows
  <2> QED BY <1>1, <2>1, <1>e DEF CheckLive, drawRows
<1>2. CASE ReadExcluded(d)
  <2> DEFINE state == [draw[d] EXCEPT !.at = "choosing", !.excluded = excluded]
  <2>1. draw' = [draw EXCEPT ![d] = state] /\ state.at = "choosing"
    BY <1>2, <1>t DEF ReadExcluded, DrawState
  <2> HIDE DEF state
  <2> QED BY <1>2, <2>1, <1>g DEF ReadExcluded, Placed, drawRows
<1>3. CASE Choose(d)
  <2>1. ASSUME NEW u \in User, draw' = [draw EXCEPT ![d] = [@ EXCEPT !.at = "assigning", !.winner = u]], UNCHANGED sweep
        PROVE  PoolKept'
    <3> DEFINE state == [draw[d] EXCEPT !.at = "assigning", !.winner = u]
    <3>1. draw' = [draw EXCEPT ![d] = state] /\ state.at = "assigning"
      BY <2>1, <1>t DEF DrawState
    <3> HIDE DEF state
    <3> QED BY <1>3, <2>1, <3>1, <1>g DEF Choose, Placed, drawRows
  <2> QED BY <1>3, <2>1, <1>e DEF Choose, drawRows
<1>4. CASE InsertAssignment(d)
  <2>1. CASE LiveRows # {}
    BY <1>4, <2>1, <1>e DEF InsertAssignment
  <2>2. CASE LiveRows = {}
    <3> DEFINE row == [user |-> draw[d].winner, status |-> "active", pull |-> NoPull, overdue |-> FALSE, abandon |-> FALSE, by |-> d]
               where == IF draw[d].excluded = Nobody THEN "unawaiting" ELSE "clearing"
               state == [draw[d] EXCEPT !.at = where, !.row = Len(asg) + 1]
    <3>1. asg' = Append(asg, row) /\ draw' = [draw EXCEPT ![d] = state] /\ UNCHANGED <<app, sweep>>
      BY <1>4, <2>2 DEF InsertAssignment, Assign
    <3>2. state.row = Len(asg) + 1 /\ state.winner = draw[d].winner
      BY <1>t DEF DrawState
    <3>3. row.user = draw[d].winner /\ row.status \in LiveStatus /\ row.overdue = FALSE
      BY DEF LiveStatus
    <3> HIDE DEF row, state
    <3>4. /\ Len(asg) \in Nat /\ Len(asg') = Len(asg) + 1 /\ asg'[Len(asg) + 1] = row
          /\ \A i \in 1 .. Len(asg) : asg'[i] = asg[i]
      <4>1. row \in Assignment
        BY <1>4, <1>t DEF row, InsertAssignment, Assignment, LiveStatus, DrawShape
      <4> QED BY <3>1, <4>1, Types
    <3>5. RowsStay
      BY <3>4 DEF RowsStay
    <3>6. Holding(d)'
      <4>1. draw'[d] = state
        BY <3>1, <1>t
      <4> QED BY <3>2, <3>3, <3>4, <4>1 DEF Holding
    <3> QED BY <3>1, <3>5, <3>6, <1>w, DrawKeeps
  <2> QED BY <2>1, <2>2
<1>5. CASE ClearExclusion(d) \/ ClearAwaiting(d)
  <2>1. PICK where \in {"unawaiting", "settling"} : DrawAt(d, where)
    BY <1>5 DEF ClearExclusion, ClearAwaiting
  <2>2. draw[d].at \in Placed /\ UNCHANGED <<asg, sweep, app>>
    BY <1>5 DEF ClearExclusion, ClearAwaiting, Placed, drawRows
  <2> QED BY <2>1, <2>2, <1>p
<1>6. CASE SettleApplications(d)
  <2>1. draw[d].at \in Placed /\ DrawAt(d, "telling") /\ UNCHANGED <<asg, sweep>>
    BY <1>6 DEF SettleApplications, Placed
  <2>2. draw[d].row \in LiveRows /\ asg[draw[d].row].user = draw[d].winner
    BY <2>1, <1>t DEF PoolKept, DrawsKept, Holding, DrawShape, Placed, LiveRows
  <2>4. ASSUME NEW u \in User, app'[u] = "won" PROVE app[u] = "won" \/ u = draw[d].winner
    BY <1>6, <2>4 DEF SettleApplications
  <2>5. \A u \in User : u = draw[d].winner => Has(u)'
    BY <2>1, <2>2 DEF Has, LiveRows
  <2> QED BY <2>1, <2>4, <2>5, <1>p
<1>7. CASE TellWinner(d)
  BY <1>7, <1>e DEF TellWinner
<1> QED BY <1>1, <1>2, <1>3, <1>4, <1>5, <1>6, <1>7 DEF DrawStep

\* The rest: who applies, what passes, what GitHub does.
LEMMA WorldKeeps ==
  ASSUME Inductive, PoolKept, [Next]_vars,
         \/ \E x \in Application : ApplyCheck(x) \/ \E eligible \in BOOLEAN : ApplyInsert(x, eligible)
         \/ \E h \in Delivery, p \in Pull : Activity(h, p) \/ Closed(h, p)
         \/ Pay \/ CloseWindow \/ PassDeadline \/ (\E p \in Pull : PullChange(p)) \/ UNCHANGED vars
  PROVE  PoolKept'
<1>1. CASE PassDeadline
  <2>1. UNCHANGED <<app, draw, sweep>> /\ \A d \in Drawer : draw[d].at = "idle"
    BY <1>1 DEF PassDeadline
  <2>2. PICK i \in LiveRows : asg' = [asg EXCEPT ![i].overdue = TRUE]
    BY <1>1 DEF PassDeadline
  <2>3. /\ Len(asg) \in Nat /\ Len(asg') = Len(asg)
        /\ \A j \in 1 .. Len(asg) : asg'[j].user = asg[j].user /\ asg'[j].status = asg[j].status
    <3>1. i \in 1 .. Len(asg) /\ \A j \in 1 .. Len(asg) : asg[j] \in Assignment
      BY Types DEF LiveRows
    <3> DEFINE late == [asg[i] EXCEPT !.overdue = TRUE]
    <3>2. late.user = asg[i].user /\ late.status = asg[i].status /\ late \in Assignment
      BY <3>1 DEF Assignment
    <3>3. asg' = [asg EXCEPT ![i] = late]
      BY <2>2
    <3> HIDE DEF late
    <3> QED BY <3>1, <3>2, <3>3, Types
  <2>4. SweepKept' /\ DrawsKept'
    BY <2>1 DEF PoolKept, SweepKept, DrawsKept, Placed
  <2>5. ASSUME NEW u, Has(u) PROVE Has(u)'
    BY <2>3, <2>5 DEF Has, LiveRows
  <2>6. WonKept'
    BY <2>1, <2>5 DEF PoolKept, WonKept
  <2> QED BY <2>4, <2>6 DEF PoolKept
<1>2. ASSUME NEW x \in Application, NEW eligible \in BOOLEAN, ApplyInsert(x, eligible) PROVE PoolKept'
  <2>1. UNCHANGED <<asg, draw, sweep>>
    BY <1>2 DEF ApplyInsert
  <2>2. ASSUME NEW u \in User, app'[u] = "won" PROVE app[u] = "won"
    BY <1>2, <2>2, Types DEF ApplyInsert
  <2> QED BY <2>1, <2>2, Same, OthersKeep
<1>3. CASE UNCHANGED <<asg, app, draw, sweep>>
  BY <1>3, Same, OthersKeep
<1> QED BY <1>1, <1>2, <1>3 DEF ApplyCheck, Activity, Closed, Pay, CloseWindow, PullChange, vars, drawRows

\* At first nobody has won anything.
LEMMA PoolInit == Init => PoolInv
<1> SUFFICES ASSUME Init PROVE PoolInv
  OBVIOUS
<1>1. sweep.back = {} /\ unassign.at = "idle"
  BY DEF Init
<1>2. \A d \in Drawer : draw[d].at = "idle"
  BY DEF Init, DrawIdle
<1>3. \A u \in User : app[u] # "won"
  BY DEF Init
<1> QED BY <1>1, <1>2, <1>3 DEF PoolInv, PoolKept, SweepKept, DrawsKept, WonKept, Placed

\* After a crash the invariant promises nothing of the pool.
LEMMA PoolStep == ASSUME ~Decides, Inductive, PoolInv, [Next]_vars PROVE PoolInv'
<1>c. crashes \in Nat
  BY DEF Inductive, TypeOK
<1>1. CASE AgentCrash
  <2>1. crashes' # 0 /\ unassign'.at = "idle"
    BY <1>1, <1>c DEF AgentCrash
  <2> QED BY <2>1 DEF PoolInv
<1>2. CASE ~AgentCrash
  <2>1. UNCHANGED <<crashes, unassign>>
    BY <1>2 DEF Next, Decide, ApplyCheck, ApplyInsert, CheckLive, DrawStep, ReadExcluded, Choose, InsertAssignment, ClearExclusion,
       ClearAwaiting, SettleApplications, TellWinner, SweepStep, RecordSubmitted, ReleaseStale, ReturnToPool, FindDue,
       CountPool, Extend, Activity, Closed, HookStep, ListBounties, Submit, MarkInReview, RecordPull, ResetHolder, Reopen,
       Gate, InsertPayout, MarkPayable, Pay, CloseWindow, PassDeadline, PullChange, vars
  <2>2. PoolKept => PoolKept'
    BY <1>2, HookKeeps, SweepStepKeeps, DrawStepKeeps, WorldKeeps DEF Next, Decide
  <2> QED BY <2>1, <2>2 DEF PoolInv
<1> QED BY <1>1, <1>2

\* As long as no maintainer decides anything by hand and the agent does not die,
\* nobody falls out of later draws (draw-service.ts:1392-1405): an application is
\* 'won' only while its applicant holds the bounty.  With decisions it is false: one
\* that releases the holder before their draw has settled leaves them 'won'.
THEOREM NobodyFallsOut == ASSUME ~Decides PROVE Spec => []PoolIsComplete
<1>1. Init => PoolInv
  BY PoolInit
<1>2. Inductive /\ PoolInv /\ [Next]_vars => PoolInv'
  BY PoolStep
<1>3. PoolInv => PoolIsComplete
  <2> SUFFICES ASSUME PoolInv, Quiet, crashes = 0, NEW u \in User, app[u] = "won" PROVE \E i \in LiveRows : asg[i].user = u
    BY DEF PoolIsComplete
  <2>1. sweep.back = {}
    BY DEF PoolInv, PoolKept, SweepKept, Quiet
  <2> QED BY <2>1 DEF PoolInv, PoolKept, WonKept, Has
<1> QED BY <1>1, <1>2, <1>3, InductiveHolds, PTL DEF Spec
===============================================================================
