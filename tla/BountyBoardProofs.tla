--------------------------- MODULE BountyBoardProofs ---------------------------
(***************************************************************************)
(* Of BountyBoard, for any people, messages, bounties, settings and clock: *)
(* a signed message is acted on at most once, an issue announces at most   *)
(* one bounty, which exists, and every recorded draw is the one its        *)
(* weights, its tickets and its roll make, at odds that are the tickets.   *)
(*                                                                         *)
(* First the board; then the arithmetic of DrawOdds (running sums and      *)
(* products, powers, odds, tickets); then the draws of the board.          *)
(***************************************************************************)
EXTENDS BountyBoard, TLAPS, FiniteSetTheorems, NaturalsInduction, WellFoundedInduction

Posted == [status: {"none", "proposed", "posted"}, closes: Int, reserved: BOOLEAN]
Place  == {"none", "pricing", "commenting", "posting", "seeding", "opening", "done"}

\* The commands that have inserted their bounty and go on with it.
Inserted == {"commenting", "posting", "opening"}

Typed ==
  /\ now \in Int
  /\ bounty \in [Bounty -> Posted]
  /\ post \in [Bounty -> Place]
  /\ spent \in [Message -> {0, 1}]

\* No two bounties of the issue, so what is announced is the one there is: a
\* command announces only what it has inserted.
OneOnIssue ==
  /\ \A b, c \in OpenOnIssue : b = c
  /\ announced \subseteq OpenOnIssue
  /\ \A b \in Bounty : post[b] \in Inserted => b \in OpenOnIssue

BoardInv == Typed /\ OneOnIssue

LEMMA BoardInit == Init => BoardInv
  BY DEF Init, BoardInv, Typed, OneOnIssue, OpenOnIssue, NoBounty, Never, Posted, Place, Inserted

\* The front door: the nonce that is found unspent becomes spent.
LEMMA SpendKeeps == ASSUME BoardInv, NEW r \in Request, Spend(r) PROVE BoardInv'
<1>1. Typed'
  BY DEF BoardInv, Spend, Typed, rows
<1>2. OneOnIssue'
  BY DEF BoardInv, Spend, OneOnIssue, OpenOnIssue, rows
<1> QED BY <1>1, <1>2 DEF BoardInv

\* Nothing else that a request does touches the bounties, their comments, the
\* commands or the nonces.
LEMMA RestKeeps == ASSUME BoardInv, UNCHANGED <<now, bounty, announced, post, spent>> PROVE BoardInv'
  BY DEF BoardInv, Typed, OneOnIssue, OpenOnIssue

LEMMA RequestKeeps ==
  ASSUME BoardInv, NEW r \in Request,
         \/ \E m \in Message, route \in {"apply", "admin", "maintainer"} : Deliver(r, m, route)
         \/ SetSetting(r) \/ ResetSetting(r) \/ SetRepo(r) \/ ApplyStep(r) \/ DrawStep(r)
  PROVE  BoardInv'
<1>1. UNCHANGED <<now, bounty, announced, post, spent>>
  <2>1. CASE \E m \in Message, route \in {"apply", "admin", "maintainer"} : Deliver(r, m, route)
    BY <2>1 DEF Deliver, rows
  <2>2. CASE SetSetting(r) \/ ResetSetting(r) \/ SetRepo(r)
    BY <2>2 DEF SetSetting, ResetSetting, SetRepo, rows
  <2>3. CASE ApplyStep(r)
    BY <2>3 DEF ApplyStep, ApplyRead, ApplyCheck, ApplyWrite, Assess, rows
  <2>4. CASE DrawStep(r)
    BY <2>4 DEF DrawStep, DrawRead, DrawRecord, DrawAssign, rows
  <2> QED BY <2>1, <2>2, <2>3, <2>4
<1> QED BY <1>1, RestKeeps

\* The index: a bounty is inserted only while the issue has none.
LEMMA InsertKeeps ==
  ASSUME BoardInv, NEW b \in Bounty, NEW status \in {"proposed", "posted"}, NEW reserved \in BOOLEAN,
         NEW next \in Inserted, InsertBounty(b, status, reserved, next),
         UNCHANGED <<now, announced, spent>>
  PROVE  BoardInv'
<1> DEFINE row == [status |-> status, closes |-> Never, reserved |-> reserved]
<1>1. CASE OpenOnIssue = {}
  <2>1. bounty' = [bounty EXCEPT ![b] = row] /\ post' = [post EXCEPT ![b] = next]
    BY <1>1 DEF InsertBounty, PostAt
  <2>2. row \in Posted /\ next \in Place
    BY DEF Posted, Place, Inserted, Never
  <2>3. Typed'
    BY <2>1, <2>2 DEF BoardInv, Typed
  <2>4. OpenOnIssue' = {b}
    BY <1>1, <2>1 DEF BoardInv, Typed, OpenOnIssue, Posted
  <2>5. announced' = {} /\ \A c \in Bounty : post'[c] \in Inserted => c = b
    BY <1>1, <2>1 DEF BoardInv, Typed, OneOnIssue
  <2> QED BY <2>3, <2>4, <2>5 DEF BoardInv, OneOnIssue
<1>2. CASE OpenOnIssue # {}
  <2>1. post' = [post EXCEPT ![b] = "done"] /\ UNCHANGED bounty
    BY <1>2 DEF InsertBounty, PostAt
  <2> QED BY <2>1 DEF BoardInv, Typed, OneOnIssue, OpenOnIssue, Place, Inserted
<1> QED BY <1>1, <1>2

\* A command that goes on, or ends, leaves its bounty on the issue.
LEMMA CommandKeeps ==
  ASSUME BoardInv, NEW b \in Bounty, NEW where \in Place, PostAt(b, where),
         where \in Inserted => b \in OpenOnIssue,
         announced' = announced \/ (b \in OpenOnIssue /\ announced' = announced \cup {b}),
         UNCHANGED <<now, bounty, spent>>
  PROVE  BoardInv'
<1>1. Typed'
  BY DEF BoardInv, Typed, PostAt
<1>2. OpenOnIssue' = OpenOnIssue
  BY DEF OpenOnIssue
<1>3. \A c \in Bounty : post'[c] \in Inserted => c \in OpenOnIssue
  BY DEF BoardInv, Typed, OneOnIssue, PostAt
<1> QED BY <1>1, <1>2, <1>3 DEF BoardInv, OneOnIssue

\* A bounty that is posted, or whose window opens, stays where it is.
LEMMA UpdateKeeps ==
  ASSUME BoardInv, NEW b \in OpenOnIssue, NEW row \in Posted, row.status # "none",
         bounty' = [bounty EXCEPT ![b] = row], PostAt(b, "done"), UNCHANGED <<now, announced, spent>>
  PROVE  BoardInv'
<1>1. b \in Bounty
  BY DEF OpenOnIssue
<1>2. Typed'
  BY <1>1 DEF BoardInv, Typed, PostAt, Place
<1>3. OpenOnIssue' = OpenOnIssue
  BY <1>1 DEF BoardInv, Typed, OpenOnIssue
<1>4. \A c \in Bounty : post'[c] \in Inserted => c \in OpenOnIssue
  BY <1>1 DEF BoardInv, Typed, OneOnIssue, PostAt, Inserted
<1> QED BY <1>2, <1>3, <1>4 DEF BoardInv, OneOnIssue

LEMMA PostKeeps == ASSUME BoardInv, NEW b \in Bounty, PostStep(b) \/ CommandCrash(b) PROVE BoardInv'
<1>1. CASE ProposeCheck(b) \/ SeedCheck(b) \/ CommandCrash(b)
  <2>1. PICK where \in Place \ Inserted : PostAt(b, where)
    BY <1>1 DEF ProposeCheck, SeedCheck, CommandCrash, Place, Inserted
  <2>2. UNCHANGED <<now, bounty, announced, spent>>
    BY <1>1 DEF ProposeCheck, SeedCheck, CommandCrash, rows
  <2> QED BY <2>1, <2>2, CommandKeeps
<1>2. CASE ProposeInsert(b)
  <2>1. UNCHANGED <<now, announced, spent>>
    BY <1>2 DEF ProposeInsert
  <2>2. CASE InsertBounty(b, "proposed", FALSE, "commenting")
    BY <2>1, <2>2, InsertKeeps DEF Inserted
  <2>3. CASE PostAt(b, "done") /\ UNCHANGED bounty
    BY <2>1, <2>3, CommandKeeps DEF Place, Inserted
  <2> QED BY <1>2, <2>2, <2>3 DEF ProposeInsert
<1>3. CASE ProposeComment(b)
  <2>1. b \in OpenOnIssue
    BY <1>3 DEF ProposeComment, BoardInv, OneOnIssue, Inserted
  <2>2. UNCHANGED <<now, bounty, spent>>
    BY <1>3 DEF ProposeComment, rows
  <2>3. PICK where \in {"posting", "done"} :
          PostAt(b, where) /\ (announced' = announced \cup {b} \/ announced' = announced)
    BY <1>3 DEF ProposeComment
  <2> QED BY <2>1, <2>2, <2>3, CommandKeeps DEF Place
<1>4. CASE ProposePost(b)
  <2> DEFINE row == [bounty[b] EXCEPT !.status = "posted"]
  <2>1. b \in OpenOnIssue
    BY <1>4 DEF ProposePost, BoardInv, OneOnIssue, Inserted
  <2>2. bounty' = [bounty EXCEPT ![b] = row] /\ PostAt(b, "done") /\ UNCHANGED <<now, announced, spent>>
    BY <1>4 DEF ProposePost
  <2>3. row \in Posted /\ row.status # "none"
    BY DEF BoardInv, Typed, Posted
  <2> QED BY <2>1, <2>2, <2>3, UpdateKeeps
<1>5. CASE SeedInsert(b)
  <2>1. PICK reserved \in BOOLEAN : InsertBounty(b, "posted", reserved, "opening")
    BY <1>5 DEF SeedInsert
  <2>2. UNCHANGED <<now, announced, spent>>
    BY <1>5 DEF SeedInsert
  <2> QED BY <2>1, <2>2, InsertKeeps DEF Inserted
<1>6. CASE OpenApplications(b)
  <2> DEFINE row == [bounty[b] EXCEPT !.closes = IF @ = Never THEN now + 1 ELSE @]
  <2>1. b \in OpenOnIssue
    BY <1>6 DEF OpenApplications, BoardInv, OneOnIssue, Inserted
  <2>2. bounty' = [bounty EXCEPT ![b] = row] /\ PostAt(b, "done") /\ UNCHANGED <<now, announced, spent>>
    BY <1>6 DEF OpenApplications
  <2>3. row \in Posted /\ row.status # "none"
    BY <2>1 DEF BoardInv, Typed, Posted, OpenOnIssue
  <2> QED BY <2>1, <2>2, <2>3, UpdateKeeps
<1> QED BY <1>1, <1>2, <1>3, <1>4, <1>5, <1>6 DEF PostStep

LEMMA BoardStep == BoardInv /\ [Next]_vars => BoardInv'
<1> SUFFICES ASSUME BoardInv, [Next]_vars PROVE BoardInv'
  OBVIOUS
<1>1. CASE \E r \in Request, m \in Message, route \in {"apply", "admin", "maintainer"} : Deliver(r, m, route)
  BY <1>1, RequestKeeps
<1>2. CASE \E r \in Request : Spend(r)
  BY <1>2, SpendKeeps
<1>3. CASE \E r \in Request : SetSetting(r) \/ ResetSetting(r) \/ SetRepo(r) \/ ApplyStep(r) \/ DrawStep(r)
  BY <1>3, RequestKeeps
<1>4. CASE \E b \in Bounty : PostStep(b) \/ CommandCrash(b)
  BY <1>4, PostKeeps
<1>5. CASE Tick
  BY <1>5 DEF Tick, BoardInv, Typed, OneOnIssue, OpenOnIssue, rows
<1>6. CASE AgentCrash \/ UNCHANGED vars
  BY <1>6, RestKeeps DEF AgentCrash, vars, rows
<1> QED BY <1>1, <1>2, <1>3, <1>4, <1>5, <1>6 DEF Next

\* The inductive invariant of the board.
THEOREM BoardHolds == Spec => []BoardInv
  BY BoardInit, BoardStep, PTL DEF Spec

\* However often, however late and to however many requests a signed message is
\* delivered (server.ts: one use per message), it is acted on at most once.
THEOREM ActedOnOnce == Spec => []DoneOnce
<1>1. BoardInv => DoneOnce
  BY DEF BoardInv, Typed, DoneOnce
<1> QED BY <1>1, BoardHolds, PTL

\* Whichever commands propose and seed bounties at once and wherever they die, the
\* issue announces at most one bounty, and it exists.
THEOREM AnnouncedOnce == Spec => []AnnouncedIsKnown
<1>1. BoardInv => AnnouncedIsKnown
  BY DEF BoardInv, OneOnIssue, AnnouncedIsKnown
<1> QED BY <1>1, BoardHolds, PTL

-----------------------------------------------------------------------------
(* The arithmetic of a draw.                                               *)

\* A set of natural numbers has a least.
LEMMA Least ==
  ASSUME NEW numbers \in SUBSET Nat, numbers # {}
  PROVE  \E m \in numbers : \A k \in numbers : m <= k
<1> DEFINE R == OpToRel(<, Nat)
<1>1. IsWellFoundedOn(R, Nat)
  BY NatLessThanWellFounded
<1>2. \A x, y \in Nat : x < y => <<x, y>> \in R
  BY DEF OpToRel
<1> HIDE DEF R
<1>3. PICK x \in numbers : \A y \in numbers : ~(<<y, x>> \in R)
  BY <1>1, WFMin
<1>4. \A y \in numbers : ~(y < x)
  BY <1>2, <1>3
<1> QED BY <1>4

\* What holds of 0, and of n + 1 when it holds of n, holds of all up to last:
\* the numbers it fails for have no least.
LEMMA Induction ==
  ASSUME NEW last \in Nat, NEW good \in SUBSET (0 .. last), 0 \in good,
         \A n \in good : n < last => n + 1 \in good
  PROVE  good = 0 .. last
<1> DEFINE bad == (0 .. last) \ good
<1> SUFFICES ASSUME bad # {} PROVE FALSE
  OBVIOUS
<1>1. bad \in SUBSET Nat /\ \A k \in 0 .. last : k \in bad <=> k \notin good
  OBVIOUS
<1>2. bad \in SUBSET (0 .. last)
  OBVIOUS
<1> HIDE DEF bad
<1>3. PICK m \in bad : \A k \in bad : m <= k
  BY <1>1, Least
<1>4. m # 0 /\ m \in 0 .. last /\ m \notin good
  BY <1>1, <1>2, <1>3
<1>5. m - 1 \in 0 .. last /\ m - 1 < last /\ ~(m <= m - 1) /\ m - 1 + 1 = m
  BY <1>4
<1>6. m - 1 \in good
  BY <1>1, <1>3, <1>5
<1> QED BY <1>4, <1>5, <1>6

\* A function given by its first value and a step exists.
Closed(step, S, last) == \A n \in 1 .. last : \A x \in S : step[n][x] \in S
Recurs(f, first, step, S, last) ==
  f \in [0 .. last -> S] /\ f[0] = first /\ \A n \in 1 .. last : f[n] = step[n][f[n - 1]]

\* Such a function exists: the places up to which one does are all of them.
LEMMA Recursion ==
  ASSUME NEW S, NEW first \in S, NEW last \in Nat, NEW step, Closed(step, S, last)
  PROVE  \E f : Recurs(f, first, step, S, last)
<1> USE DEF Closed, Recurs
<1> DEFINE Steps(f, n) == \A i \in 1 .. n : f[i] = step[i][f[i - 1]]
           good == {n \in 0 .. last : \E f \in [0 .. n -> S] : f[0] = first /\ Steps(f, n)}
<1>1. 0 \in good
  <2> DEFINE f == [n \in 0 .. 0 |-> first]
  <2>1. f \in [0 .. 0 -> S] /\ f[0] = first
    OBVIOUS
  <2>2. Steps(f, 0)
    OBVIOUS
  <2> HIDE DEF f
  <2>3. 0 \in 0 .. last
    OBVIOUS
  <2> QED BY <2>1, <2>2, <2>3
<1>2. ASSUME NEW n \in good, n < last PROVE n + 1 \in good
  <2>0. n \in 0 .. last
    OBVIOUS
  <2>1. PICK f \in [0 .. n -> S] : f[0] = first /\ Steps(f, n)
    OBVIOUS
  <2> DEFINE g == [i \in 0 .. n + 1 |-> IF i = n + 1 THEN step[n + 1][f[n]] ELSE f[i]]
  <2>2. n \in Nat /\ n + 1 \in 1 .. last /\ n + 1 \in 0 .. last /\ f[n] \in S
    BY <1>2, <2>0
  <2>3. step[n + 1][f[n]] \in S
    BY <2>2
  <2>4. g \in [0 .. n + 1 -> S]
    BY <2>2, <2>3
  <2>5. \A i \in 0 .. n : g[i] = f[i]
    BY <2>2
  <2>6. g[n + 1] = step[n + 1][f[n]]
    BY <2>2
  <2> HIDE DEF g
  <2>7. g[0] = first
    BY <2>1, <2>2, <2>5
  <2>8. ASSUME NEW i \in 1 .. n + 1 PROVE g[i] = step[i][g[i - 1]]
    <3>1. i - 1 \in 0 .. n
      BY <2>2
    <3>2. g[i - 1] = f[i - 1]
      BY <2>5, <3>1
    <3>3. CASE i = n + 1
      <4>1. i - 1 = n
        BY <2>2, <3>3
      <4> QED BY <2>6, <3>2, <3>3, <4>1
    <3>4. CASE i \in 1 .. n
      <4>1. f[i] = step[i][f[i - 1]] /\ i \in 0 .. n
        BY <2>1, <2>2, <3>4
      <4> QED BY <4>1, <2>5, <3>2
    <3> QED BY <2>2, <3>3, <3>4
  <2> QED BY <2>2, <2>4, <2>7, <2>8
<1>3. last \in good
  <2>1. good \in SUBSET (0 .. last)
    OBVIOUS
  <2> HIDE DEF good
  <2>2. good = 0 .. last
    BY <1>1, <1>2, <2>1, Induction
  <2> QED BY <2>2
<1> QED BY <1>3

\* What the recursive definition of a running sum says of it.
LEMMA RunningSumIs ==
  ASSUME NEW numbers \in Seq(Int)
  PROVE  /\ RunningSum(numbers) \in [0 .. Len(numbers) -> Int]
         /\ RunningSum(numbers)[0] = 0
         /\ \A n \in 1 .. Len(numbers) : RunningSum(numbers)[n] = RunningSum(numbers)[n - 1] + numbers[n]
<1> DEFINE L == Len(numbers)
           step == [n \in 1 .. L |-> [x \in Int |-> x + numbers[n]]]
           Is(f) == f = [n \in 0 .. L |-> IF n = 0 THEN 0 ELSE f[n - 1] + numbers[n]]
<1>0. L \in Nat /\ \A n \in 1 .. L : numbers[n] \in Int
  OBVIOUS
<1>1. Closed(step, Int, L)
  BY <1>0 DEF Closed
<1>2. \A n \in 1 .. L, x \in Int : step[n][x] = x + numbers[n]
  OBVIOUS
<1> HIDE DEF step
<1>3. \E f : Recurs(f, 0, step, Int, L)
  <2>1. L \in Nat /\ 0 \in Int
    BY <1>0
  <2> HIDE DEF L
  <2> QED BY <1>1, <2>1, Recursion
<1>4. PICK f \in [0 .. L -> Int] : f[0] = 0 /\ \A n \in 1 .. L : f[n] = step[n][f[n - 1]]
  BY <1>3 DEF Recurs
<1>5. \A n \in 0 .. L : f[n] = IF n = 0 THEN 0 ELSE f[n - 1] + numbers[n]
  <2>1. ASSUME NEW n \in 1 .. L PROVE f[n] = f[n - 1] + numbers[n]
    <3>1. n - 1 \in 0 .. L
      BY <1>0
    <3> HIDE DEF L
    <3>2. f[n - 1] \in Int
      BY <3>1
    <3> QED BY <1>2, <1>4, <3>2
  <2>2. \A n \in 0 .. L : n # 0 => n \in 1 .. L
    BY <1>0
  <2> QED BY <1>4, <2>1, <2>2
<1>6. Is(f)
  <2>1. f = [n \in 0 .. L |-> f[n]]
    OBVIOUS
  <2> QED BY <1>5, <2>1
<1>7. RunningSum(numbers) = CHOOSE g : Is(g)
  BY DEF RunningSum
<1>8. Is(RunningSum(numbers))
  BY <1>6, <1>7
<1> DEFINE sum == RunningSum(numbers)
<1>9. \A n \in 0 .. L : sum[n] = IF n = 0 THEN 0 ELSE sum[n - 1] + numbers[n]
  BY <1>8
<1>10. DOMAIN sum = 0 .. L
  BY <1>8
<1> HIDE DEF sum, Is
<1>11. \A n \in 0 .. L : sum[n] \in Int
  <2> DEFINE good == {n \in 0 .. L : sum[n] \in Int}
  <2>1. 0 \in good
    BY <1>0, <1>9
  <2>2. ASSUME NEW n \in good, n < L PROVE n + 1 \in good
    <3>1. n \in 0 .. L /\ n + 1 \in 1 .. L /\ n + 1 \in 0 .. L /\ n + 1 - 1 = n
      BY <1>0, <2>2
    <3>2. sum[n + 1] = sum[n] + numbers[n + 1]
      BY <1>9, <3>1
    <3> QED BY <1>0, <3>1, <3>2
  <2>3. good \in SUBSET (0 .. L)
    OBVIOUS
  <2> HIDE DEF good
  <2>4. good = 0 .. L
    BY <1>0, <2>1, <2>2, <2>3, Induction
  <2> QED BY <2>4 DEF good
<1>12. sum \in [0 .. L -> Int] /\ sum[0] = 0 /\ \A n \in 1 .. L : sum[n] = sum[n - 1] + numbers[n]
  <2>1. 0 \in 0 .. L /\ \A n \in 1 .. L : n \in 0 .. L /\ n # 0
    BY <1>0
  <2>2. sum = [n \in 0 .. L |-> sum[n]]
    BY <1>8 DEF Is, sum
  <2>3. sum \in [0 .. L -> Int]
    BY <1>11, <2>2
  <2> QED BY <1>9, <2>1, <2>3
<1> QED BY <1>12 DEF sum

\* Tickets are not negative, so their running sum does not fall.
LEMMA SumGrows ==
  ASSUME NEW numbers \in Seq(Nat)
  PROVE  /\ \A n \in 0 .. Len(numbers) : RunningSum(numbers)[n] \in Nat
         /\ \A m, n \in 0 .. Len(numbers) : m <= n => RunningSum(numbers)[m] <= RunningSum(numbers)[n]
<1> DEFINE L == Len(numbers)
           sum == RunningSum(numbers)
<1>0. L \in Nat /\ (\A n \in 1 .. L : numbers[n] \in Nat) /\ numbers \in Seq(Int)
  OBVIOUS
<1>1. sum \in [0 .. L -> Int] /\ sum[0] = 0 /\ \A n \in 1 .. L : sum[n] = sum[n - 1] + numbers[n]
  BY <1>0, RunningSumIs
<1> HIDE DEF L, sum
<1>2. ASSUME NEW m \in 0 .. L, sum[m] \in Nat
      PROVE  \A n \in 0 .. L : m <= n => sum[m] <= sum[n]
  <2> DEFINE good == {n \in 0 .. L : m <= n => sum[m] <= sum[n]}
  <2>1. 0 \in good
    BY <1>0, <1>2
  <2>2. ASSUME NEW n \in good, n < L PROVE n + 1 \in good
    <3>1. n \in 0 .. L /\ n + 1 \in 1 .. L /\ n + 1 \in 0 .. L /\ n + 1 - 1 = n
      BY <1>0, <2>2
    <3>2. sum[n + 1] = sum[n] + numbers[n + 1] /\ sum[n] \in Int /\ sum[n + 1] \in Int /\ numbers[n + 1] \in Nat
      BY <1>0, <1>1, <3>1
    <3>3. m <= n + 1 => sum[m] <= sum[n + 1]
      BY <1>2, <3>1, <3>2
    <3> QED BY <3>1, <3>3
  <2>3. good \in SUBSET (0 .. L)
    OBVIOUS
  <2> HIDE DEF good
  <2>4. good = 0 .. L
    BY <1>0, <2>1, <2>2, <2>3, Induction
  <2> QED BY <2>4 DEF good
<1>3. \A n \in 0 .. L : sum[n] \in Nat
  <2>1. 0 \in 0 .. L /\ sum[0] \in Nat
    BY <1>0, <1>1
  <2>2. \A n \in 0 .. L : 0 <= n /\ sum[n] \in Int
    BY <1>0, <1>1
  <2> QED BY <1>1, <1>2, <2>1, <2>2
<1>4. \A m, n \in 0 .. L : m <= n => sum[m] <= sum[n]
  BY <1>2, <1>3
<1> QED BY <1>3, <1>4 DEF L, sum

\* and none exceeds the total.
LEMMA TotalIs ==
  ASSUME NEW numbers \in Seq(Nat)
  PROVE  Total(numbers) \in Nat /\ \A n \in 0 .. Len(numbers) : RunningSum(numbers)[n] <= Total(numbers)
<1>1. Len(numbers) \in 0 .. Len(numbers) /\ \A n \in 0 .. Len(numbers) : n <= Len(numbers)
  OBVIOUS
<1> QED BY <1>1, SumGrows DEF Total

\* Multiplication by a natural number keeps the order.
LEMMA MoreTimes == ASSUME NEW a \in Nat, NEW b \in Nat, a <= b, NEW t \in Nat PROVE a * t <= b * t
  OBVIOUS

\* The candidate a roll falls on is the first whose running sum it does not exceed.
LEMMA Picked ==
  ASSUME NEW tickets \in Seq(Nat), Total(tickets) > 0, NEW roll \in 0 .. Rolls - 1
  PROVE  /\ PickWeighted(roll, tickets) \in DOMAIN tickets
         /\ \A i \in DOMAIN tickets :
              PickWeighted(roll, tickets) = i <=>
                 /\ roll * Total(tickets) <= Rolls * RunningSum(tickets)[i]
                 /\ \A j \in DOMAIN tickets : j < i => ~(roll * Total(tickets) <= Rolls * RunningSum(tickets)[j])
<1> DEFINE L == Len(tickets)
           T == Total(tickets)
           sum == RunningSum(tickets)
           reached == {i \in DOMAIN tickets : roll * T <= Rolls * sum[i]}
<1>1. Rolls \in Nat \ {0} /\ roll \in Nat /\ roll < Rolls
  BY OddsConstants
<1>2. T \in Nat /\ T = sum[L]
  BY TotalIs DEF Total
<1>3. DOMAIN tickets = 1 .. L /\ L \in Nat
  OBVIOUS
<1>4. L # 0
  <2>1. tickets \in Seq(Int)
    OBVIOUS
  <2>2. sum[0] = 0
    BY <2>1, RunningSumIs
  <2> QED BY <1>2, <2>2
<1>5. L \in reached
  <2>1. roll * T <= Rolls * T
    <3> HIDE DEF T
    <3>1. roll <= Rolls
      BY <1>1
    <3> QED BY <1>1, <1>2, <3>1, MoreTimes
  <2>2. L \in DOMAIN tickets
    BY <1>3, <1>4
  <2> QED BY <1>2, <2>1, <2>2
<1>6. reached \in SUBSET Nat
  BY <1>3
<1>7. PickWeighted(roll, tickets) = Min(reached)
  BY <1>2 DEF PickWeighted
<1>8. reached \subseteq DOMAIN tickets /\ \A i \in DOMAIN tickets : i \in reached <=> roll * T <= Rolls * sum[i]
  OBVIOUS
<1> HIDE DEF reached, T, sum, L
<1>9. \E m \in reached : \A k \in reached : m <= k
  BY <1>5, <1>6, Least
<1>10. Min(reached) \in reached /\ \A k \in reached : Min(reached) <= k
  BY <1>9 DEF Min
<1> DEFINE m == Min(reached)
<1>11. m \in reached /\ m \in Nat /\ \A k \in reached : m <= k
  BY <1>6, <1>10
<1> HIDE DEF m
<1>12. \A i \in DOMAIN tickets : m = i <=> i \in reached /\ \A j \in DOMAIN tickets : j < i => j \notin reached
  <2> SUFFICES ASSUME NEW i \in DOMAIN tickets
               PROVE  m = i <=> i \in reached /\ \A j \in DOMAIN tickets : j < i => j \notin reached
    OBVIOUS
  <2>1. i \in Nat /\ m \in DOMAIN tickets /\ \A j \in DOMAIN tickets : j \in Nat
    BY <1>3, <1>8, <1>11
  <2>2. ASSUME m = i, NEW j \in DOMAIN tickets, j < i PROVE j \notin reached
    BY <1>11, <2>1, <2>2
  <2>3. ASSUME i \in reached, \A j \in DOMAIN tickets : j < i => j \notin reached PROVE m = i
    BY <1>11, <2>1, <2>3
  <2> QED BY <1>11, <2>2, <2>3
<1>13. PickWeighted(roll, tickets) = m /\ m \in DOMAIN tickets
  BY <1>7, <1>8, <1>11 DEF m
<1>14. \A i \in DOMAIN tickets :
         PickWeighted(roll, tickets) = i <=> (roll * T <= Rolls * sum[i] /\ \A j \in DOMAIN tickets : j < i => ~(roll * T <= Rolls * sum[j]))
  BY <1>8, <1>12, <1>13
<1> QED BY <1>13, <1>14 DEF T, sum

\* How many rolls lie at or below a running sum s of T tickets: their part of
\* the rolls, rounded up by less than one.
LEMMA Reach ==
  ASSUME NEW R \in Nat \ {0}, NEW T \in Nat \ {0}, NEW s \in 0 .. T
  PROVE  \E c \in 0 .. R : /\ \A k \in 0 .. R - 1 : k * T <= R * s <=> k < c
                           /\ R * s <= c * T /\ c * T <= R * s + T
<1> DEFINE above == {k \in 0 .. R : k = R \/ k * T > R * s}
<1>1. R \in above /\ above \in SUBSET Nat
  OBVIOUS
<1>2. \A k \in 0 .. R : k \in above <=> k = R \/ k * T > R * s
  OBVIOUS
<1>3. above \subseteq 0 .. R
  OBVIOUS
<1> HIDE DEF above
<1>4. PICK c \in above : \A k \in above : c <= k
  BY <1>1, Least
<1>5. c \in 0 .. R /\ (c = R \/ c * T > R * s)
  BY <1>2, <1>3, <1>4
<1>6. ASSUME NEW k \in 0 .. R - 1 PROVE k * T <= R * s <=> k < c
  <2>1. k \in 0 .. R /\ k # R /\ k * T \in Int /\ R * s \in Int /\ c * T \in Int
    BY <1>5
  <2>2. k < c => k * T <= R * s
    BY <1>2, <1>4, <1>5, <2>1
  <2>3. ASSUME c <= k PROVE k * T > R * s
    <3>1. c * T <= k * T
      BY <1>5, <2>3
    <3>2. c # R
      BY <2>3
    <3> QED BY <1>5, <2>1, <3>1, <3>2
  <2> QED BY <1>5, <2>1, <2>2, <2>3
<1>7. R * s <= c * T
  <2>1. R * s <= R * T
    OBVIOUS
  <2> QED BY <1>5, <2>1
<1>8. c * T <= R * s + T
  <2>1. CASE c = 0
    BY <2>1
  <2>2. CASE c # 0
    <3>1. c - 1 \in 0 .. R - 1 /\ c - 1 < c
      BY <1>5, <2>2
    <3>2. (c - 1) * T <= R * s
      BY <1>6, <3>1
    <3>3. (c - 1) * T = c * T - T
      BY <1>5
    <3>4. c * T \in Int /\ R * s \in Int
      BY <1>5
    <3> QED BY <3>2, <3>3, <3>4
  <2> QED BY <2>1, <2>2
<1> QED BY <1>5, <1>6, <1>7, <1>8

\* Of Rolls equally likely rolls each candidate gets its part of the tickets, to
\* within one roll (draw.ts:120-129): the rolls that reach its running sum, less
\* those that reach the one before.
LEMMA OddsAreTickets ==
  ASSUME NEW tickets \in Seq(Nat), Total(tickets) > 0
  PROVE  FairOdds(tickets)
<1> DEFINE L == Len(tickets)
           T == Total(tickets)
           sum == RunningSum(tickets)
           Covers(c, s) == /\ \A k \in 0 .. Rolls - 1 : k * T <= Rolls * s <=> k < c
                       /\ Rolls * s <= c * T /\ c * T <= Rolls * s + T
<1>1. Rolls \in Nat \ {0}
  BY OddsConstants
<1>2. T \in Nat \ {0}
  BY TotalIs
<1>3. DOMAIN tickets = 1 .. L /\ L \in Nat
  OBVIOUS
<1>4. (\A n \in 0 .. L : sum[n] \in 0 .. T) /\ \A m, n \in 0 .. L : m <= n => sum[m] <= sum[n]
  <2>1. \A n \in 0 .. L : sum[n] \in Nat /\ sum[n] <= T
    BY TotalIs, SumGrows
  <2>2. \A m, n \in 0 .. L : m <= n => sum[m] <= sum[n]
    BY SumGrows
  <2> QED BY <1>2, <2>1, <2>2
<1>5. sum[0] = 0 /\ (\A n \in 1 .. L : sum[n] = sum[n - 1] + tickets[n]) /\ \A n \in 1 .. L : tickets[n] \in Nat
  <2>1. tickets \in Seq(Int)
    OBVIOUS
  <2> QED BY <2>1, RunningSumIs
<1>6. \A roll \in 0 .. Rolls - 1, i \in 1 .. L :
         PickWeighted(roll, tickets) = i <=>
                 /\ roll * T <= Rolls * sum[i]
                 /\ \A j \in 1 .. L : j < i => ~(roll * T <= Rolls * sum[j])
  BY <1>3, Picked
<1> HIDE DEF L, T, sum
<1>7. \A n \in 0 .. L : \E c \in 0 .. Rolls : Covers(c, sum[n])
  BY <1>1, <1>2, <1>4, Reach
<1> SUFFICES ASSUME NEW i \in 1 .. L
             PROVE  Wins(i, tickets) * T - Rolls * tickets[i] \in -T .. T
  BY <1>3 DEF FairOdds, T
<1> DEFINE won == {k \in 0 .. Rolls - 1 : PickWeighted(k, tickets) = i}
<1>8. PICK c \in 0 .. Rolls : Covers(c, sum[i])
  BY <1>3, <1>7
<1>9. PICK b \in 0 .. Rolls : /\ \A k \in 0 .. Rolls - 1 : k \in won <=> b <= k /\ k < c
                              /\ b <= c
                              /\ Rolls * sum[i - 1] <= b * T /\ b * T <= Rolls * sum[i - 1] + T
  <2>1. CASE i = 1
    <3>1. \A k \in 0 .. Rolls - 1 : k \in won <=> k < c
      <4> SUFFICES ASSUME NEW k \in 0 .. Rolls - 1 PROVE k \in won <=> k < c
        OBVIOUS
      <4>1. k \in won <=> k * T <= Rolls * sum[i]
        <5>1. \A j \in 1 .. L : ~(j < i)
          BY <1>3, <2>1
        <5> QED BY <1>6, <5>1
      <4> QED BY <1>8, <4>1
    <3>2. Rolls * sum[i - 1] = 0 /\ 0 * T = 0 /\ 0 \in 0 .. Rolls
      BY <1>1, <1>2, <1>5, <2>1
    <3>3. \A k \in 0 .. Rolls - 1 : k \in won <=> 0 <= k /\ k < c
      BY <1>1, <3>1
    <3> QED BY <1>2, <1>8, <3>2, <3>3
  <2>2. CASE i # 1
    <3>0. i - 1 \in 0 .. L /\ i - 1 \in 1 .. L /\ i \in 0 .. L /\ i - 1 < i
      BY <1>3, <2>2
    <3>1. PICK b \in 0 .. Rolls : Covers(b, sum[i - 1])
      BY <1>7, <3>0
    <3>2. \A k \in 0 .. Rolls - 1 : (\A j \in 1 .. L : j < i => ~(k * T <= Rolls * sum[j])) <=> ~(k < b)
      <4> SUFFICES ASSUME NEW k \in 0 .. Rolls - 1
                   PROVE  (\A j \in 1 .. L : j < i => ~(k * T <= Rolls * sum[j])) <=> ~(k < b)
        OBVIOUS
      <4>1. k * T <= Rolls * sum[i - 1] <=> k < b
        BY <3>1
      <4>2. ASSUME NEW j \in 1 .. L, j < i, k * T <= Rolls * sum[j] PROVE k * T <= Rolls * sum[i - 1]
        <5>1. sum[j] <= sum[i - 1] /\ sum[j] \in Int /\ sum[i - 1] \in Int
          <6>1. j \in 0 .. L /\ j <= i - 1
            BY <1>3, <4>2
          <6> QED BY <1>4, <3>0, <6>1
        <5>2. Rolls * sum[j] <= Rolls * sum[i - 1]
          BY <1>1, <5>1
        <5>3. k * T \in Int /\ Rolls * sum[j] \in Int /\ Rolls * sum[i - 1] \in Int
          BY <1>1, <1>2, <5>1
        <5> QED BY <4>2, <5>2, <5>3
      <4> QED BY <3>0, <4>1, <4>2
    <3>3. \A k \in 0 .. Rolls - 1 : k \in won <=> b <= k /\ k < c
      BY <1>6, <1>8, <3>1, <3>2
    <3>4. b <= c
      <4>1. CASE b = 0
        BY <1>8, <4>1
      <4>2. CASE b # 0
        <5>1. b - 1 \in 0 .. Rolls - 1 /\ b - 1 < b
          BY <1>1, <3>1, <4>2
        <5>2. (b - 1) * T <= Rolls * sum[i - 1]
          BY <3>1, <5>1
        <5>3. Rolls * sum[i - 1] <= Rolls * sum[i]
          <6>1. sum[i - 1] <= sum[i] /\ sum[i - 1] \in Int /\ sum[i] \in Int
            BY <1>4, <3>0
          <6> QED BY <1>1, <6>1
        <5>4. (b - 1) * T \in Int /\ Rolls * sum[i - 1] \in Int /\ Rolls * sum[i] \in Int
          BY <1>1, <1>2, <1>4, <3>0, <5>1
        <5>5. (b - 1) * T <= Rolls * sum[i]
          BY <5>2, <5>3, <5>4
        <5>6. b - 1 < c
          BY <1>8, <5>1, <5>5
        <5> QED BY <1>8, <3>1, <5>6
      <4> QED BY <4>1, <4>2
    <3> QED BY <3>1, <3>3, <3>4
  <2> QED BY <2>1, <2>2
<1>10. won = b .. c - 1
  <2>1. won \subseteq 0 .. Rolls - 1
    OBVIOUS
  <2>2. b .. c - 1 \subseteq 0 .. Rolls - 1
    BY <1>1, <1>8, <1>9
  <2>3. \A k \in 0 .. Rolls - 1 : k \in b .. c - 1 <=> b <= k /\ k < c
    BY <1>1, <1>8, <1>9
  <2> HIDE DEF won
  <2> QED BY <1>9, <2>1, <2>2, <2>3
<1>11. Wins(i, tickets) = c - b
  <2>1. Wins(i, tickets) = Cardinality(won)
    BY DEF Wins
  <2>2. Cardinality(b .. c - 1) = IF b > c - 1 THEN 0 ELSE c - 1 - b + 1
    BY <1>8, <1>9, FS_Interval
  <2> HIDE DEF won
  <2> QED BY <1>8, <1>9, <1>10, <2>1, <2>2
<1>12. (c - b) * T = c * T - b * T /\ Rolls * tickets[i] = Rolls * sum[i] - Rolls * sum[i - 1]
  <2>1. sum[i - 1] \in Int /\ sum[i] \in Int /\ tickets[i] \in Int /\ sum[i] = sum[i - 1] + tickets[i]
    <3>1. i - 1 \in 0 .. L /\ i \in 0 .. L
      BY <1>3
    <3> QED BY <1>4, <1>5, <3>1
  <2>2. tickets[i] = sum[i] - sum[i - 1]
    BY <2>1
  <2> QED BY <1>1, <1>2, <2>1, <2>2
<1>13. c * T \in Int /\ b * T \in Int /\ Rolls * sum[i] \in Int /\ Rolls * sum[i - 1] \in Int
  <2>1. i - 1 \in 0 .. L /\ i \in 0 .. L
    BY <1>3
  <2> QED BY <1>1, <1>2, <1>4, <2>1
<1>14. c * T - Rolls * sum[i] \in 0 .. T /\ b * T - Rolls * sum[i - 1] \in 0 .. T
  <2> DEFINE p == c * T
             q == b * T
             u == Rolls * sum[i]
             v == Rolls * sum[i - 1]
  <2>1. u <= p /\ p <= u + T /\ v <= q /\ q <= v + T
    BY <1>8, <1>9
  <2>2. T \in Int /\ p \in Int /\ q \in Int /\ u \in Int /\ v \in Int
    BY <1>2, <1>13
  <2> HIDE DEF p, q, u, v, T
  <2>3. p - u \in 0 .. T /\ q - v \in 0 .. T
    BY <2>1, <2>2
  <2> QED BY <2>3 DEF p, q, u, v
<1>15. Wins(i, tickets) * T - Rolls * tickets[i]
         = (c * T - Rolls * sum[i]) - (b * T - Rolls * sum[i - 1])
  <2> DEFINE all == Wins(i, tickets) * T
             mine == Rolls * tickets[i]
             p == c * T
             q == b * T
             u == Rolls * sum[i]
             v == Rolls * sum[i - 1]
  <2>1. all = p - q /\ mine = u - v
    BY <1>11, <1>12
  <2>2. p \in Int /\ q \in Int /\ u \in Int /\ v \in Int
    BY <1>13
  <2> HIDE DEF all, mine, p, q, u, v
  <2>3. all - mine = (p - u) - (q - v)
    BY <2>1, <2>2
  <2> QED BY <2>3 DEF all, mine, p, q, u, v
<1>16. ASSUME NEW x \in 0 .. T, NEW y \in 0 .. T PROVE x - y \in -T .. T
  BY <1>2
<1> QED BY <1>14, <1>15, <1>16

\* What the recursive definition of a running product says of it.
LEMMA RunningProductIs ==
  ASSUME NEW numbers \in Seq(Nat)
  PROVE  /\ RunningProduct(numbers) \in [0 .. Len(numbers) -> Nat]
         /\ RunningProduct(numbers)[0] = 1
         /\ \A n \in 1 .. Len(numbers) : RunningProduct(numbers)[n] = RunningProduct(numbers)[n - 1] * numbers[n]
<1> DEFINE L == Len(numbers)
           step == [n \in 1 .. L |-> [x \in Nat |-> x * numbers[n]]]
           Is(f) == f = [n \in 0 .. L |-> IF n = 0 THEN 1 ELSE f[n - 1] * numbers[n]]
<1>0. L \in Nat /\ \A n \in 1 .. L : numbers[n] \in Nat
  OBVIOUS
<1>1. Closed(step, Nat, L)
  BY <1>0 DEF Closed
<1>2. \A n \in 1 .. L, x \in Nat : step[n][x] = x * numbers[n]
  OBVIOUS
<1> HIDE DEF step
<1>3. \E f : Recurs(f, 1, step, Nat, L)
  <2>1. L \in Nat /\ 1 \in Nat
    BY <1>0
  <2> HIDE DEF L
  <2> QED BY <1>1, <2>1, Recursion
<1>4. PICK f \in [0 .. L -> Nat] : f[0] = 1 /\ \A n \in 1 .. L : f[n] = step[n][f[n - 1]]
  BY <1>3 DEF Recurs
<1>5. \A n \in 0 .. L : f[n] = IF n = 0 THEN 1 ELSE f[n - 1] * numbers[n]
  <2>1. ASSUME NEW n \in 1 .. L PROVE f[n] = f[n - 1] * numbers[n]
    <3>1. n - 1 \in 0 .. L
      BY <1>0
    <3> HIDE DEF L
    <3>2. f[n - 1] \in Nat
      BY <3>1
    <3> QED BY <1>2, <1>4, <3>2
  <2>2. \A n \in 0 .. L : n # 0 => n \in 1 .. L
    BY <1>0
  <2> QED BY <1>4, <2>1, <2>2
<1>6. Is(f)
  <2>1. f = [n \in 0 .. L |-> f[n]]
    OBVIOUS
  <2> QED BY <1>5, <2>1
<1>7. RunningProduct(numbers) = CHOOSE g : Is(g)
  BY DEF RunningProduct
<1>8. Is(RunningProduct(numbers))
  BY <1>6, <1>7
<1> DEFINE product == RunningProduct(numbers)
<1>9. \A n \in 0 .. L : product[n] = IF n = 0 THEN 1 ELSE product[n - 1] * numbers[n]
  BY <1>8
<1>10. DOMAIN product = 0 .. L
  BY <1>8
<1> HIDE DEF product, Is
<1>11. \A n \in 0 .. L : product[n] \in Nat
  <2> DEFINE good == {n \in 0 .. L : product[n] \in Nat}
  <2>1. 0 \in good
    BY <1>0, <1>9
  <2>2. ASSUME NEW n \in good, n < L PROVE n + 1 \in good
    <3>1. n \in 0 .. L /\ n + 1 \in 1 .. L /\ n + 1 \in 0 .. L /\ n + 1 - 1 = n
      BY <1>0, <2>2
    <3>2. product[n + 1] = product[n] * numbers[n + 1]
      BY <1>9, <3>1
    <3> QED BY <1>0, <3>1, <3>2
  <2>3. good \in SUBSET (0 .. L)
    OBVIOUS
  <2> HIDE DEF good
  <2>4. good = 0 .. L
    BY <1>0, <2>1, <2>2, <2>3, Induction
  <2> QED BY <2>4 DEF good
<1>12. product \in [0 .. L -> Nat] /\ product[0] = 1 /\ \A n \in 1 .. L : product[n] = product[n - 1] * numbers[n]
  <2>1. 0 \in 0 .. L /\ \A n \in 1 .. L : n \in 0 .. L /\ n # 0
    BY <1>0
  <2>2. product = [n \in 0 .. L |-> product[n]]
    BY <1>8 DEF Is, product
  <2>3. product \in [0 .. L -> Nat]
    BY <1>11, <2>2
  <2> QED BY <1>9, <2>1, <2>3
<1> QED BY <1>12 DEF product

\* Sequences that begin alike have the same product so far.
LEMMA ProductsAgree ==
  ASSUME NEW s \in Seq(Nat), NEW t \in Seq(Nat), NEW last \in Nat, last <= Len(s), last <= Len(t),
         \A n \in 1 .. last : s[n] = t[n]
  PROVE  RunningProduct(s)[last] = RunningProduct(t)[last]
<1> DEFINE p == RunningProduct(s)
           q == RunningProduct(t)
           good == {n \in 0 .. last : p[n] = q[n]}
<1>1. p[0] = 1 /\ q[0] = 1
  BY RunningProductIs
<1>2. \A n \in 1 .. last : p[n] = p[n - 1] * s[n] /\ q[n] = q[n - 1] * t[n]
  <2>1. \A n \in 1 .. last : n \in 1 .. Len(s) /\ n \in 1 .. Len(t)
    OBVIOUS
  <2> QED BY <2>1, RunningProductIs
<1> HIDE DEF p, q
<1>3. 0 \in good
  BY <1>1
<1>4. ASSUME NEW n \in good, n < last PROVE n + 1 \in good
  <2>1. n + 1 \in 1 .. last /\ n + 1 \in 0 .. last /\ n + 1 - 1 = n /\ p[n] = q[n]
    BY <1>4
  <2> QED BY <1>2, <2>1
<1>5. good \in SUBSET (0 .. last)
  OBVIOUS
<1> HIDE DEF good
<1>6. good = 0 .. last
  BY <1>3, <1>4, <1>5, Induction
<1> QED BY <1>6 DEF good, p, q

\* Powers: of 0, and of one more.
LEMMA PowerIs ==
  ASSUME NEW x \in Nat
  PROVE  /\ \A n \in Nat : Power(x, n) \in Nat
         /\ Power(x, 0) = 1
         /\ \A n \in Nat : Power(x, n + 1) = Power(x, n) * x
<1> DEFINE s(n) == [k \in 1 .. n |-> x]
<1>1. \A n \in Nat : s(n) \in Seq(Nat) /\ Len(s(n)) = n
  OBVIOUS
<1>2. \A n \in Nat : Power(x, n) = RunningProduct(s(n))[n]
  BY <1>1 DEF Power, Product
<1>3. \A n \in Nat : \A m \in 1 .. n : s(n)[m] = x
  OBVIOUS
<1> HIDE DEF s
<1>4. ASSUME NEW n \in Nat PROVE Power(x, n) \in Nat
  <2>1. RunningProduct(s(n)) \in [0 .. n -> Nat]
    BY <1>1, RunningProductIs
  <2>2. n \in 0 .. n
    OBVIOUS
  <2> QED BY <1>2, <2>1, <2>2
<1>5. Power(x, 0) = 1
  <2>1. RunningProduct(s(0))[0] = 1
    BY <1>1, RunningProductIs
  <2> QED BY <1>2, <2>1
<1>6. ASSUME NEW n \in Nat PROVE Power(x, n + 1) = Power(x, n) * x
  <2>1. n + 1 \in Nat /\ n + 1 \in 1 .. n + 1 /\ n + 1 - 1 = n
    OBVIOUS
  <2>2. RunningProduct(s(n + 1))[n + 1] = RunningProduct(s(n + 1))[n] * s(n + 1)[n + 1]
    BY <1>1, <2>1, RunningProductIs
  <2>3. RunningProduct(s(n + 1))[n] = RunningProduct(s(n))[n]
    <3>1. \A m \in 1 .. n : s(n + 1)[m] = s(n)[m]
      BY <1>3
    <3>2. s(n + 1) \in Seq(Nat) /\ Len(s(n + 1)) = n + 1 /\ s(n) \in Seq(Nat) /\ Len(s(n)) = n
      BY <1>1
    <3> QED BY <3>1, <3>2, ProductsAgree
  <2>4. s(n + 1)[n + 1] = x
    BY <1>3, <2>1
  <2> QED BY <1>2, <2>1, <2>2, <2>3, <2>4
<1> QED BY <1>4, <1>5, <1>6

\* The power of a sum is the product of the powers.
LEMMA PowersAdd ==
  ASSUME NEW x \in Nat, NEW a \in Nat, NEW b \in Nat
  PROVE  Power(x, a + b) = Power(x, a) * Power(x, b)
<1> DEFINE good == {n \in 0 .. b : Power(x, a + n) = Power(x, a) * Power(x, n)}
<1>1. 0 \in good
  BY PowerIs
<1>2. ASSUME NEW n \in good, n < b PROVE n + 1 \in good
  <2>1. n \in Nat /\ n + 1 \in 0 .. b /\ a + n \in Nat /\ a + (n + 1) = (a + n) + 1
    BY <1>2
  <2>2. Power(x, (a + n) + 1) = Power(x, a + n) * x /\ Power(x, n + 1) = Power(x, n) * x
    BY <2>1, PowerIs
  <2>3. Power(x, a + n) = Power(x, a) * Power(x, n)
    OBVIOUS
  <2>4. Power(x, a) \in Nat /\ Power(x, n) \in Nat /\ Power(x, a + n) \in Nat
    BY <2>1, PowerIs
  <2>5. Power(x, a + (n + 1)) = Power(x, a) * Power(x, n + 1)
    <3>1. \A y, z \in Nat : (y * z) * x = y * (z * x)
      OBVIOUS
    <3> QED BY <2>1, <2>2, <2>3, <2>4, <3>1
  <2> QED BY <2>1, <2>5
<1>3. good \in SUBSET (0 .. b)
  OBVIOUS
<1> HIDE DEF good
<1>4. good = 0 .. b
  BY <1>1, <1>2, <1>3, Induction
<1>5. b \in 0 .. b
  OBVIOUS
<1> QED BY <1>4, <1>5 DEF good

\* The larger base has the larger power.
LEMMA PowersGrow ==
  ASSUME NEW x \in Nat, NEW y \in Nat, x <= y, NEW last \in Nat
  PROVE  Power(x, last) <= Power(y, last)
<1> DEFINE good == {n \in 0 .. last : Power(x, n) <= Power(y, n)}
<1>1. 0 \in good
  BY PowerIs
<1>2. ASSUME NEW n \in good, n < last PROVE n + 1 \in good
  <2>1. n \in Nat /\ n + 1 \in 0 .. last /\ Power(x, n) <= Power(y, n)
    BY <1>2
  <2>2. Power(x, n + 1) = Power(x, n) * x /\ Power(y, n + 1) = Power(y, n) * y /\ Power(x, n) \in Nat /\ Power(y, n) \in Nat
    BY <2>1, PowerIs
  <2>3. \A p, q \in Nat : p <= q => p * x <= q * x /\ q * x <= q * y /\ p * x \in Nat /\ q * x \in Nat /\ q * y \in Nat
    <3> SUFFICES ASSUME NEW p \in Nat, NEW q \in Nat, p <= q
                 PROVE  p * x <= q * x /\ q * x <= q * y /\ p * x \in Nat /\ q * x \in Nat /\ q * y \in Nat
      OBVIOUS
    <3>1. p * x <= q * x /\ x * q <= y * q
      BY MoreTimes
    <3> QED BY <3>1
  <2>4. Power(x, n) * x <= Power(y, n) * y
    BY <2>1, <2>2, <2>3
  <2> QED BY <2>1, <2>2, <2>4
<1>3. good \in SUBSET (0 .. last)
  OBVIOUS
<1> HIDE DEF good
<1>4. good = 0 .. last
  BY <1>1, <1>2, <1>3, Induction
<1>5. last \in 0 .. last
  OBVIOUS
<1> QED BY <1>4, <1>5 DEF good

\* The elements of a sequence of numbers are numbers.
LEMMA Elements == ASSUME NEW s \in Seq(Nat) PROVE \A n \in 1 .. Len(s) : s[n] \in Nat
  OBVIOUS

\* A product of seven, written out.
LEMMA SevenMultiplied ==
  ASSUME NEW s \in Seq(Nat), Len(s) = 7
  PROVE  Product(s) = s[1] * s[2] * s[3] * s[4] * s[5] * s[6] * s[7]
<1> DEFINE p == RunningProduct(s)
<1>1. p[0] = 1 /\ \A n \in 1 .. 7 : p[n] = p[n - 1] * s[n]
  BY RunningProductIs
<1>2. Product(s) = p[7]
  BY DEF Product
<1> HIDE DEF p
<1>3. \A n \in 1 .. 7 : s[n] \in Nat
  <2>1. \A n \in 1 .. Len(s) : s[n] \in Nat
    BY Elements
  <2> QED BY <2>1
<1>4. /\ p[1] = p[0] * s[1] /\ p[2] = p[1] * s[2] /\ p[3] = p[2] * s[3] /\ p[4] = p[3] * s[4]
      /\ p[5] = p[4] * s[5] /\ p[6] = p[5] * s[6] /\ p[7] = p[6] * s[7]
  <2>1. 1 - 1 = 0 /\ 2 - 1 = 1 /\ 3 - 1 = 2 /\ 4 - 1 = 3 /\ 5 - 1 = 4 /\ 6 - 1 = 5 /\ 7 - 1 = 6
    OBVIOUS
  <2>2. {1, 2, 3, 4, 5, 6, 7} \subseteq 1 .. 7
    OBVIOUS
  <2> QED BY <1>1, <2>1, <2>2
<1>5. p[1] = s[1]
  <2>1. s[1] \in Nat
    BY <1>3
  <2> QED BY <1>1, <1>4, <2>1
<1> QED BY <1>2, <1>4, <1>5

\* A sum of seven, written out.
LEMMA SevenAdded ==
  ASSUME NEW s \in Seq(Nat), Len(s) = 7
  PROVE  Total(s) = s[1] + s[2] + s[3] + s[4] + s[5] + s[6] + s[7]
<1> DEFINE p == RunningSum(s)
<1>1. p[0] = 0 /\ \A n \in 1 .. 7 : p[n] = p[n - 1] + s[n]
  <2>1. s \in Seq(Int)
    OBVIOUS
  <2> QED BY <2>1, RunningSumIs
<1>2. Total(s) = p[7]
  BY DEF Total
<1> HIDE DEF p
<1>3. \A n \in 1 .. 7 : s[n] \in Nat
  <2>1. \A n \in 1 .. Len(s) : s[n] \in Nat
    BY Elements
  <2> QED BY <2>1
<1>4. /\ p[1] = p[0] + s[1] /\ p[2] = p[1] + s[2] /\ p[3] = p[2] + s[3] /\ p[4] = p[3] + s[4]
      /\ p[5] = p[4] + s[5] /\ p[6] = p[5] + s[6] /\ p[7] = p[6] + s[7]
  <2>1. 1 - 1 = 0 /\ 2 - 1 = 1 /\ 3 - 1 = 2 /\ 4 - 1 = 3 /\ 5 - 1 = 4 /\ 6 - 1 = 5 /\ 7 - 1 = 6
    OBVIOUS
  <2>2. {1, 2, 3, 4, 5, 6, 7} \subseteq 1 .. 7
    OBVIOUS
  <2> QED BY <1>1, <2>1, <2>2
<1>5. p[1] = s[1]
  <2>1. s[1] \in Nat
    BY <1>3
  <2> QED BY <1>1, <1>4, <2>1
<1> QED BY <1>2, <1>4, <1>5

-----------------------------------------------------------------------------
(* The tickets of an applicant.                                            *)

\* The history of an applicant: whoever has won was assigned something, and the
\* quarters of the common denominator suffice.
Applies(a) ==
  /\ a.completions \in Nat /\ a.assignments \in Nat /\ a.abandons \in Nat
  /\ a.completions > 0 => a.assignments > 0
  /\ a.abandons + 5 <= MaxTimes

\* The settings are natural numbers of quarters.
Weighs(cfg) == \A key \in WeightKey : cfg[key] \in Nat

\* How many weights an applicant is given, and what they multiply to.
Given(a) == Times(a, "fit_strong") + Times(a, "fit_weak") + Times(a, "fit_plausible") + Times(a, "difficulty_above")
              + Times(a, "prior_completion") + Times(a, "first_ever_application") + Times(a, "per_abandon")

Raised(a, cfg, key) == Power(cfg[key], Times(a, key))

Multiplied(a, cfg) ==
  Raised(a, cfg, "fit_strong") * Raised(a, cfg, "fit_weak") * Raised(a, cfg, "fit_plausible") * Raised(a, cfg, "difficulty_above")
    * Raised(a, cfg, "prior_completion") * Raised(a, cfg, "first_ever_application") * Raised(a, cfg, "per_abandon")

\* How often each weight is applied, one by one.
LEMMA TimesAre ==
  ASSUME NEW a, Applies(a)
  PROVE  /\ \A key \in WeightKey : Times(a, key) \in Nat
         /\ Times(a, "fit_strong") = Once(a.fit = "strong")
         /\ Times(a, "fit_weak") = Once(a.fit = "weak")
         /\ Times(a, "fit_plausible") = Once(a.fit \notin {"strong", "weak"})
         /\ Times(a, "difficulty_above") \in {0, 1}
         /\ Times(a, "prior_completion") \in {0, 1, 2}
         /\ Times(a, "prior_completion") = 0 <=> a.completions = 0
         /\ Times(a, "first_ever_application") = Once(a.assignments = 0)
         /\ Times(a, "per_abandon") = a.abandons
<1>1. \A x \in BOOLEAN : Once(x) \in {0, 1}
  BY DEF Once
<1>2. /\ Times(a, "fit_strong") = Once(a.fit = "strong")
      /\ Times(a, "fit_weak") = Once(a.fit = "weak")
      /\ Times(a, "fit_plausible") = Once(a.fit \notin {"strong", "weak"})
      /\ Times(a, "difficulty_above") = Once(a.level = "above")
      /\ Times(a, "prior_completion") = Min({a.completions, PriorCompletionCap})
      /\ Times(a, "first_ever_application") = Once(a.assignments = 0)
      /\ Times(a, "per_abandon") = a.abandons
  BY DEF Times
<1>3. Min({a.completions, 2}) = IF a.completions <= 2 THEN a.completions ELSE 2
  <2> DEFINE n == a.completions
             m == IF n <= 2 THEN n ELSE 2
  <2>1. n \in Nat
    BY DEF Applies
  <2> HIDE DEF n
  <2>2. m \in {n, 2} /\ \A y \in {n, 2} : m <= y
    BY <2>1
  <2>3. \A x \in {n, 2} : (\A y \in {n, 2} : x <= y) => x = m
    BY <2>1
  <2>4. Min({n, 2}) = m
    <3> HIDE DEF m
    <3> QED BY <2>2, <2>3 DEF Min
  <2> QED BY <2>4 DEF n
<1>4. Times(a, "difficulty_above") \in {0, 1}
  BY <1>1, <1>2
<1>5. Times(a, "prior_completion") = IF a.completions <= 2 THEN a.completions ELSE 2
  BY <1>2, <1>3 DEF PriorCompletionCap
<1>6. Times(a, "prior_completion") \in {0, 1, 2} /\ (Times(a, "prior_completion") = 0 <=> a.completions = 0)
  <2> DEFINE n == a.completions
  <2>1. n \in Nat
    BY DEF Applies
  <2> HIDE DEF n
  <2>2. (IF n <= 2 THEN n ELSE 2) \in {0, 1, 2} /\ ((IF n <= 2 THEN n ELSE 2) = 0 <=> n = 0)
    BY <2>1
  <2> QED BY <1>5, <2>2 DEF n
<1>7. \A key \in WeightKey : Times(a, key) \in Nat
  <2>1. Times(a, "per_abandon") \in Nat
    BY <1>2 DEF Applies
  <2>2. \A n \in {0, 1} \cup {0, 1, 2} : n \in Nat
    OBVIOUS
  <2>3. /\ Times(a, "fit_strong") \in {0, 1} /\ Times(a, "fit_weak") \in {0, 1} /\ Times(a, "fit_plausible") \in {0, 1}
        /\ Times(a, "first_ever_application") \in {0, 1}
    BY <1>1, <1>2
  <2>4. /\ Times(a, "fit_strong") \in Nat /\ Times(a, "fit_weak") \in Nat /\ Times(a, "fit_plausible") \in Nat
        /\ Times(a, "first_ever_application") \in Nat /\ Times(a, "difficulty_above") \in Nat /\ Times(a, "prior_completion") \in Nat
    BY <1>4, <1>6, <2>2, <2>3
  <2> QED BY <2>1, <2>4 DEF WeightKey
<1> QED BY <1>2, <1>4, <1>6, <1>7

\* No applicant has more weights than the common denominator has quarters.
LEMMA GivenFits == ASSUME NEW a, Applies(a) PROVE Given(a) \in 0 .. MaxTimes
<1>1. Times(a, "fit_strong") + Times(a, "fit_weak") + Times(a, "fit_plausible") = 1
  BY TimesAre DEF Once
<1>2. Times(a, "first_ever_application") \in {0, 1}
  BY TimesAre DEF Once
<1>3. Times(a, "difficulty_above") \in {0, 1} /\ Times(a, "prior_completion") \in {0, 1, 2}
  BY TimesAre
<1>4. Times(a, "per_abandon") \in Nat /\ Times(a, "per_abandon") + 5 <= MaxTimes /\ MaxTimes \in Nat
  BY TimesAre, OddsConstants DEF Applies
<1> QED BY <1>1, <1>2, <1>3, <1>4 DEF Given

\* The tickets of an applicant are a natural number: the product of the weights
\* that apply, a weight that does not apply counting as one.
LEMMA TicketsAre ==
  ASSUME NEW a, Applies(a), NEW cfg, Weighs(cfg)
  PROVE  /\ TicketsFrom(WeightsFor(a, cfg)) = Multiplied(a, cfg) * Power(Quarters, MaxTimes - Given(a))
         /\ \A key \in WeightKey : Raised(a, cfg, key) \in Nat
         /\ TicketsFrom(WeightsFor(a, cfg)) \in Nat
<1> DEFINE w == WeightsFor(a, cfg)
           factors == [i \in 1 .. 7 |-> Factor(w, Order[i])]
           times == [i \in 1 .. 7 |-> TimesGiven(w, Order[i])]
<1>1. \A key \in WeightKey : Times(a, key) \in Nat /\ cfg[key] \in Nat
  BY TimesAre DEF Weighs
<1>2. \A key \in WeightKey : /\ key \in DOMAIN w <=> Times(a, key) > 0
                             /\ key \in DOMAIN w => w[key].value = cfg[key] /\ w[key].times = Times(a, key)
  BY DEF WeightsFor
<1> HIDE DEF w
<1>3. \A key \in WeightKey : TimesGiven(w, key) = Times(a, key)
  BY <1>1, <1>2 DEF TimesGiven
<1>4. ASSUME NEW key \in WeightKey PROVE Factor(w, key) = Raised(a, cfg, key) /\ Raised(a, cfg, key) \in Nat
  <2>1. Power(cfg[key], 0) = 1 /\ Power(cfg[key], Times(a, key)) \in Nat
    BY <1>1, PowerIs
  <2>2. key \notin DOMAIN w => Times(a, key) = 0
    BY <1>1, <1>2
  <2> QED BY <1>2, <2>1, <2>2 DEF Factor, Raised
<1>5. /\ Order[1] = "fit_strong" /\ Order[2] = "fit_weak" /\ Order[3] = "fit_plausible" /\ Order[4] = "difficulty_above"
      /\ Order[5] = "prior_completion" /\ Order[6] = "first_ever_application" /\ Order[7] = "per_abandon"
  BY DEF Order
<1>6. \A i \in 1 .. 7 : Order[i] \in WeightKey
  BY <1>5 DEF WeightKey
<1>7. factors \in Seq(Nat) /\ Len(factors) = 7 /\ times \in Seq(Nat) /\ Len(times) = 7
  <2>1. \A i \in 1 .. 7 : factors[i] \in Nat
    BY <1>4, <1>6
  <2>2. \A i \in 1 .. 7 : times[i] \in Nat
    BY <1>1, <1>3, <1>6
  <2> QED BY <2>1, <2>2
<1>8. \A i \in 1 .. 7 : factors[i] = Raised(a, cfg, Order[i]) /\ times[i] = Times(a, Order[i])
  BY <1>3, <1>4, <1>6
<1>9. TicketsFrom(w) = Product(factors) * Power(Quarters, MaxTimes - Total(times))
  BY DEF TicketsFrom
<1> HIDE DEF factors, times
<1>10. {1, 2, 3, 4, 5, 6, 7} \subseteq 1 .. 7
  OBVIOUS
<1>11. Product(factors) = Multiplied(a, cfg)
  <2>1. Product(factors) = factors[1] * factors[2] * factors[3] * factors[4] * factors[5] * factors[6] * factors[7]
    BY <1>7, SevenMultiplied
  <2> QED BY <1>5, <1>8, <1>10, <2>1 DEF Multiplied
<1>12. Total(times) = Given(a)
  <2>1. Total(times) = times[1] + times[2] + times[3] + times[4] + times[5] + times[6] + times[7]
    BY <1>7, SevenAdded
  <2> QED BY <1>5, <1>8, <1>10, <2>1 DEF Given
<1>13. Multiplied(a, cfg) \in Nat
  <2>1. {"fit_strong", "fit_weak", "fit_plausible", "difficulty_above",
         "prior_completion", "first_ever_application", "per_abandon"} \subseteq WeightKey
    BY DEF WeightKey
  <2>2. \A x, y \in Nat : x * y \in Nat
    OBVIOUS
  <2> QED BY <1>4, <2>1, <2>2 DEF Multiplied
<1>14. Power(Quarters, MaxTimes - Given(a)) \in Nat
  <2>1. MaxTimes - Given(a) \in Nat
    BY GivenFits, OddsConstants
  <2> QED BY <2>1, PowerIs DEF Quarters
<1>15. TicketsFrom(w) = Multiplied(a, cfg) * Power(Quarters, MaxTimes - Given(a))
  BY <1>9, <1>11, <1>12
<1>16. TicketsFrom(w) \in Nat
  BY <1>13, <1>14, <1>15
<1> QED BY <1>4, <1>15, <1>16 DEF w

\* The powers that a fit, a level and capped wins are raised to.
LEMMA SmallPowers == ASSUME NEW x \in Nat PROVE Power(x, 0) = 1 /\ Power(x, 1) = x /\ Power(x, 2) = x * x
<1>1. Power(x, 0) = 1 /\ Power(x, 0 + 1) = Power(x, 0) * x /\ Power(x, 1 + 1) = Power(x, 1) * x
  BY PowerIs
<1>2. 0 + 1 = 1 /\ 1 + 1 = 2 /\ 1 * x = x
  OBVIOUS
<1> QED BY <1>1, <1>2

\* Products of larger factors are larger.
LEMMA BothMore ==
  ASSUME NEW x \in Nat, NEW y \in Nat, NEW u \in Nat, NEW v \in Nat, x <= y, u <= v
  PROVE  x * u <= y * v /\ x * u \in Nat /\ y * v \in Nat
<1>1. x * u <= y * u /\ u * y <= v * y
  BY MoreTimes
<1>2. x * u \in Nat /\ y * u \in Nat /\ y * v \in Nat /\ u * y = y * u /\ v * y = y * v
  OBVIOUS
<1> QED BY <1>1, <1>2

\* The default weights, in quarters.
Default(cfg) ==
  /\ cfg["fit_strong"] = 8 /\ cfg["fit_plausible"] = 4 /\ cfg["fit_weak"] = 1 /\ cfg["difficulty_above"] = 2
  /\ cfg["prior_completion"] = 6 /\ cfg["first_ever_application"] = 6 /\ cfg["per_abandon"] = 2

\* The default weights are natural numbers of quarters.
LEMMA DefaultWeighs == ASSUME NEW cfg, Default(cfg) PROVE Weighs(cfg)
  BY DEF Default, Weighs, WeightKey

\* Whoever is not of strong fit has at most nine quarters of what weights of one
\* would give: the fit and the difficulty add nothing, wins at most (3/2)^2, and a
\* bonus for newcomers goes to nobody who has won.
LEMMA LesserFit ==
  ASSUME NEW a, Applies(a), NEW cfg, Default(cfg), a.fit # "strong"
  PROVE  4 * TicketsFrom(WeightsFor(a, cfg)) <= 9 * Power(4, MaxTimes)
<1> DEFINE n1 == Times(a, "fit_strong")
           n2 == Times(a, "fit_weak")
           n3 == Times(a, "fit_plausible")
           n4 == Times(a, "difficulty_above")
           n5 == Times(a, "prior_completion")
           n6 == Times(a, "first_ever_application")
           n7 == Times(a, "per_abandon")
           fit == Raised(a, cfg, "fit_strong") * Raised(a, cfg, "fit_weak") * Raised(a, cfg, "fit_plausible")
           above == Raised(a, cfg, "difficulty_above")
           won == Raised(a, cfg, "prior_completion") * Raised(a, cfg, "first_ever_application")
           lost == Raised(a, cfg, "per_abandon")
<1>1. /\ n1 = 0 /\ n4 \in {0, 1} /\ n5 \in {0, 1, 2} /\ n7 \in Nat
      /\ (n2 = 1 /\ n3 = 0) \/ (n2 = 0 /\ n3 = 1)
      /\ n6 = 0 \/ (n6 = 1 /\ n5 = 0)
  <2>1. n1 = 0 /\ ((n2 = 1 /\ n3 = 0) \/ (n2 = 0 /\ n3 = 1))
    BY TimesAre DEF Once
  <2>2. n6 = 0 \/ (n6 = 1 /\ n5 = 0)
    <3>1. n6 = Once(a.assignments = 0) /\ (n5 = 0 <=> a.completions = 0)
      BY TimesAre
    <3>2. a.assignments = 0 => a.completions = 0
      BY DEF Applies
    <3> HIDE DEF n5, n6
    <3> QED BY <3>1, <3>2 DEF Once
  <2>3. n4 \in {0, 1} /\ n5 \in {0, 1, 2} /\ n7 \in Nat
    BY TimesAre DEF Applies
  <2> QED BY <2>1, <2>2, <2>3
<1>2. fit \in Nat /\ fit <= Power(4, 1)
  <2>1. Power(8, 0) = 1 /\ Power(1, 0) = 1 /\ Power(1, 1) = 1 /\ Power(4, 0) = 1 /\ Power(4, 1) = 4
    BY SmallPowers
  <2> QED BY <1>1, <2>1 DEF Raised, Default
<1>3. above \in Nat /\ above <= Power(4, n4)
  <2>1. Power(2, 0) = 1 /\ Power(2, 1) = 2 /\ Power(4, 0) = 1 /\ Power(4, 1) = 4
    BY SmallPowers
  <2> QED BY <1>1, <2>1 DEF Raised, Default
<1>4. won \in Nat /\ 4 * won <= 9 * Power(4, n5 + n6)
  <2>1. Power(6, 0) = 1 /\ Power(6, 1) = 6 /\ Power(6, 2) = 36 /\ Power(4, 0) = 1 /\ Power(4, 1) = 4 /\ Power(4, 2) = 16
    BY SmallPowers
  <2> QED BY <1>1, <2>1 DEF Raised, Default
<1>5. lost \in Nat /\ lost <= Power(4, n7)
  <2>1. lost = Power(2, n7)
    BY DEF Raised, Default
  <2>2. Power(2, n7) \in Nat /\ Power(2, n7) <= Power(4, n7)
    <3>1. n7 \in Nat
      BY <1>1
    <3> HIDE DEF n7
    <3>2. Power(2, n7) \in Nat
      BY <3>1, PowerIs
    <3>3. 2 <= 4 /\ 2 \in Nat /\ 4 \in Nat
      OBVIOUS
    <3> QED BY <3>1, <3>2, <3>3, PowersGrow
  <2> QED BY <2>1, <2>2
<1>6. Multiplied(a, cfg) = fit * above * won * lost
  <2>1. \A key \in WeightKey : Raised(a, cfg, key) \in Nat
    BY DefaultWeighs, TicketsAre
  <2>3. \A x \in Nat, y, z, q \in Nat : x * y * z * q = x * (y * z) * q
    OBVIOUS
  <2> QED BY <1>2, <1>3, <2>1, <2>3 DEF Multiplied, WeightKey
<1>7. Given(a) = 1 + n4 + (n5 + n6) + n7
  BY <1>1 DEF Given
<1>8. /\ Power(4, 1) \in Nat /\ Power(4, n4) \in Nat /\ Power(4, n5 + n6) \in Nat /\ Power(4, n7) \in Nat
      /\ n4 \in Nat /\ n5 + n6 \in Nat /\ n7 \in Nat
  <2>1. n4 \in Nat /\ n5 + n6 \in Nat /\ n7 \in Nat
    BY <1>1
  <2> HIDE DEF n4, n5, n6, n7
  <2> QED BY <2>1, PowerIs
<1> DEFINE p1 == Power(4, 1)
           p4 == Power(4, n4)
           p5 == Power(4, n5 + n6)
           p7 == Power(4, n7)
           rest == MaxTimes - Given(a)
<1>9. Power(4, Given(a)) = p1 * p4 * p5 * p7
  <2> HIDE DEF n4, n5, n6, n7
  <2>1. Power(4, 1 + n4) = p1 * p4
    BY <1>8, PowersAdd
  <2>2. 1 + n4 \in Nat /\ 1 + n4 + (n5 + n6) \in Nat
    BY <1>8
  <2>3. Power(4, (1 + n4) + (n5 + n6)) = Power(4, 1 + n4) * p5
    BY <1>8, <2>2, PowersAdd
  <2>4. Power(4, (1 + n4 + (n5 + n6)) + n7) = Power(4, 1 + n4 + (n5 + n6)) * p7
    BY <1>8, <2>2, PowersAdd
  <2> QED BY <1>7, <2>1, <2>3, <2>4
<1>10. 4 * Multiplied(a, cfg) <= 9 * Power(4, Given(a))
  <2> HIDE DEF fit, above, won, lost, n4, n5, n6, n7
  <2>1. fit * above <= p1 * p4 /\ fit * above \in Nat /\ p1 * p4 \in Nat
    BY <1>2, <1>3, <1>8, BothMore
  <2>2. 4 * won \in Nat /\ 9 * p5 \in Nat
    BY <1>4, <1>8
  <2> HIDE DEF p1, p4, p5, p7
  <2> DEFINE x == fit * above
             y == p1 * p4
             u == 4 * won
             v == 9 * p5
  <2>3. x \in Nat /\ y \in Nat /\ u \in Nat /\ v \in Nat /\ x <= y /\ u <= v
    BY <1>4, <2>1, <2>2 DEF p5
  <2> HIDE DEF x, y, u, v
  <2>4. x * u <= y * v /\ x * u \in Nat /\ y * v \in Nat
    BY <2>3, BothMore
  <2>5. p7 \in Nat /\ lost \in Nat /\ lost <= p7
    BY <1>5, <1>8 DEF p7
  <2>6. (x * u) * lost <= (y * v) * p7
    BY <2>4, <2>5, BothMore
  <2>7. (x * u) * lost = 4 * (fit * above * won * lost)
    <3>1. \A f, g, h \in Nat : (f * (4 * g)) * h = 4 * (f * g * h)
      OBVIOUS
    <3> QED BY <1>4, <2>3, <2>5, <3>1 DEF x, u
  <2>8. (y * v) * p7 = 9 * (p1 * p4 * p5 * p7)
    <3>1. \A f, g, h \in Nat : (f * (9 * g)) * h = 9 * (f * g * h)
      OBVIOUS
    <3>2. p5 \in Nat
      BY <1>8 DEF p5
    <3> QED BY <2>3, <2>5, <3>1, <3>2 DEF y, v
  <2> QED BY <1>6, <1>9, <2>6, <2>7, <2>8
<1>11. Given(a) \in Nat /\ rest \in Nat /\ Given(a) + rest = MaxTimes
  BY GivenFits, OddsConstants
<1>12. Power(4, MaxTimes) = Power(4, Given(a)) * Power(4, rest) /\ Power(4, Given(a)) \in Nat /\ Power(4, rest) \in Nat
  <2> HIDE DEF rest
  <2> QED BY <1>11, PowersAdd, PowerIs
<1>13. TicketsFrom(WeightsFor(a, cfg)) = Multiplied(a, cfg) * Power(4, rest)
  BY DefaultWeighs, TicketsAre DEF Quarters
<1>14. Multiplied(a, cfg) \in Nat
  <2> HIDE DEF fit, above, won, lost
  <2>1. \A x, y \in Nat : x * y \in Nat
    OBVIOUS
  <2> QED BY <1>2, <1>3, <1>4, <1>5, <1>6, <2>1
<1> QED
  <2> DEFINE m == Multiplied(a, cfg)
             g == Power(4, Given(a))
             r == Power(4, rest)
             t == TicketsFrom(WeightsFor(a, cfg))
             all == Power(4, MaxTimes)
  <2>1. m \in Nat /\ g \in Nat /\ r \in Nat /\ 4 * m <= 9 * g /\ t = m * r /\ all = g * r
    BY <1>10, <1>12, <1>13, <1>14
  <2> HIDE DEF m, g, r, t, all
  <2>2. 4 * m \in Nat /\ 9 * g \in Nat
    BY <2>1
  <2>3. (4 * m) * r <= (9 * g) * r
    BY <2>1, <2>2, MoreTimes
  <2>4. (4 * m) * r = 4 * (m * r) /\ (9 * g) * r = 9 * (g * r)
    BY <2>1
  <2>5. 4 * t <= 9 * all
    BY <2>1, <2>3, <2>4
  <2> QED BY <2>5 DEF t, all

\* A newcomer of strong fit, on an issue of their level, has twelve quarters.
LEMMA StrongNewcomer ==
  ASSUME NEW a, Applies(a), NEW cfg, Default(cfg), DOMAIN WeightsFor(a, cfg) = {"fit_strong", "first_ever_application"}
  PROVE  4 * TicketsFrom(WeightsFor(a, cfg)) = 12 * Power(4, MaxTimes)
<1>1. \A key \in WeightKey : Times(a, key) > 0 <=> key \in {"fit_strong", "first_ever_application"}
  BY DEF WeightsFor
<1>2. \A key \in WeightKey : Times(a, key) \in Nat
  BY TimesAre
<1>3. Times(a, "fit_strong") = 1 /\ Times(a, "first_ever_application") = 1
  <2>1. Times(a, "fit_strong") > 0 /\ Times(a, "first_ever_application") > 0
    BY <1>1 DEF WeightKey
  <2> QED BY <2>1, TimesAre DEF Once
<1>4. /\ Times(a, "fit_weak") = 0 /\ Times(a, "fit_plausible") = 0 /\ Times(a, "difficulty_above") = 0
      /\ Times(a, "prior_completion") = 0 /\ Times(a, "per_abandon") = 0
  BY <1>1, <1>2 DEF WeightKey
<1>5. Given(a) = 2
  BY <1>3, <1>4 DEF Given
<1>6. Multiplied(a, cfg) = 48
  <2>1. Power(8, 1) = 8 /\ Power(1, 0) = 1 /\ Power(4, 0) = 1 /\ Power(2, 0) = 1 /\ Power(6, 0) = 1 /\ Power(6, 1) = 6
    BY SmallPowers
  <2> QED BY <1>3, <1>4, <2>1 DEF Multiplied, Raised, Default
<1>7. TicketsFrom(WeightsFor(a, cfg)) = 48 * Power(4, MaxTimes - 2)
  BY <1>5, <1>6, DefaultWeighs, TicketsAre DEF Quarters
<1>8. MaxTimes - 2 \in Nat /\ 2 + (MaxTimes - 2) = MaxTimes
  BY <1>5, GivenFits, OddsConstants
<1>9. Power(4, MaxTimes) = Power(4, 2) * Power(4, MaxTimes - 2) /\ Power(4, MaxTimes - 2) \in Nat
  BY <1>8, PowersAdd, PowerIs
<1>10. Power(4, 2) = 16
  BY SmallPowers
<1> DEFINE t == TicketsFrom(WeightsFor(a, cfg))
           r == Power(4, MaxTimes - 2)
           all == Power(4, MaxTimes)
<1>11. t = 48 * r /\ all = 16 * r /\ r \in Nat
  BY <1>7, <1>9, <1>10
<1> HIDE DEF t, r, all
<1>12. 4 * t = 12 * all
  BY <1>11
<1> QED BY <1>12 DEF t, all

-----------------------------------------------------------------------------
(* What the record of a draw says, whoever applied.                        *)

\* The record r is what RunDraw made of some applicants under the settings in it.
Made(r, applicants, n) ==
  /\ n \in Nat /\ DOMAIN applicants = 1 .. n
  /\ \A i \in 1 .. n : Applies(applicants[i])
  /\ r.pool = RunDraw(applicants, r.config, r.roll).pool
  /\ r.firstCome = RunDraw(applicants, r.config, r.roll).firstCome
  /\ r.winner \in {NoWinner, RunDraw(applicants, r.config, r.roll).winner}

\* The record r is of a draw over some applicants.
FromDraw(r) ==
  /\ Weighs(r.config) /\ r.roll \in 0 .. Rolls - 1
  /\ \E applicants, n : Made(r, applicants, n)

\* The tickets in the pool of a record.
TicketsOf(r) == [i \in DOMAIN r.pool |-> r.pool[i].tickets]

\* The pool of a record: of each applicant the weights, and the tickets they make.
LEMMA PoolIs ==
  ASSUME NEW r, Weighs(r.config), NEW applicants, NEW n, Made(r, applicants, n)
  PROVE  /\ DOMAIN r.pool = 1 .. n
         /\ \A i \in 1 .. n : /\ r.pool[i].user = applicants[i].user /\ r.pool[i].fit = applicants[i].fit
                              /\ r.pool[i].weights = WeightsFor(applicants[i], r.config)
                              /\ r.pool[i].tickets = TicketsFrom(r.pool[i].weights)
                              /\ r.pool[i].tickets \in Nat
         /\ TicketsOf(r) \in Seq(Nat) /\ Len(TicketsOf(r)) = n /\ DOMAIN TicketsOf(r) = 1 .. n
         /\ \A i \in 1 .. n : TicketsOf(r)[i] = r.pool[i].tickets
<1>1. r.pool = [i \in 1 .. n |->
                  [user |-> applicants[i].user, fit |-> applicants[i].fit, weights |-> WeightsFor(applicants[i], r.config),
                   tickets |-> TicketsFrom(WeightsFor(applicants[i], r.config))]]
  BY DEF Made, RunDraw
<1>2. \A i \in 1 .. n : TicketsFrom(WeightsFor(applicants[i], r.config)) \in Nat
  BY TicketsAre DEF Made
<1>3. /\ DOMAIN r.pool = 1 .. n
      /\ \A i \in 1 .. n : /\ r.pool[i].user = applicants[i].user /\ r.pool[i].fit = applicants[i].fit
                           /\ r.pool[i].weights = WeightsFor(applicants[i], r.config)
                           /\ r.pool[i].tickets = TicketsFrom(r.pool[i].weights)
                           /\ r.pool[i].tickets \in Nat
  BY <1>1, <1>2
<1>4. n \in Nat
  BY DEF Made
<1>5. TicketsOf(r) = [i \in 1 .. n |-> r.pool[i].tickets]
  BY <1>3 DEF TicketsOf
<1>6. TicketsOf(r) \in Seq(Nat) /\ Len(TicketsOf(r)) = n /\ DOMAIN TicketsOf(r) = 1 .. n
  BY <1>3, <1>4, <1>5
<1> QED BY <1>3, <1>5, <1>6

\* What DrawIsExplained says of one record.
Explained(r) ==
  LET tickets == TicketsOf(r)
      pick == PickWeighted(r.roll, tickets)
  IN /\ \A i \in DOMAIN r.pool :
          /\ \A key \in DOMAIN r.pool[i].weights : r.pool[i].weights[key].value = r.config[key]
          /\ tickets[i] = TicketsFrom(r.pool[i].weights)
     /\ r.winner # NoWinner =>
          r.winner = r.pool[IF r.firstCome THEN 1 ELSE pick].user /\ (r.firstCome <=> Total(tickets) = 0)

\* A record made by RunDraw explains itself: its weights are the settings in it,
\* its tickets the product of its weights, its winner the pick of its roll.
LEMMA DrawExplained == ASSUME NEW r, FromDraw(r) PROVE Explained(r)
<1> DEFINE tickets == TicketsOf(r)
           pick == PickWeighted(r.roll, tickets)
<1>0. Weighs(r.config) /\ r.roll \in 0 .. Rolls - 1
  BY DEF FromDraw
<1>1. PICK applicants, n : Made(r, applicants, n)
  BY DEF FromDraw
<1> DEFINE drawn == RunDraw(applicants, r.config, r.roll)
<1>2. n \in Nat /\ r.pool = drawn.pool /\ r.firstCome = drawn.firstCome /\ r.winner \in {NoWinner, drawn.winner}
  BY <1>1 DEF Made
<1>3. /\ DOMAIN r.pool = 1 .. n
      /\ \A i \in 1 .. n : /\ r.pool[i].weights = WeightsFor(applicants[i], r.config)
                           /\ r.pool[i].tickets = TicketsFrom(r.pool[i].weights)
      /\ tickets \in Seq(Nat) /\ Len(tickets) = n /\ DOMAIN tickets = 1 .. n
      /\ \A i \in 1 .. n : tickets[i] = r.pool[i].tickets
  BY <1>0, <1>1, PoolIs
<1>4. \A i \in DOMAIN r.pool : \A key \in DOMAIN r.pool[i].weights : r.pool[i].weights[key].value = r.config[key]
  <2>1. ASSUME NEW a, NEW cfg, NEW key \in DOMAIN WeightsFor(a, cfg) PROVE WeightsFor(a, cfg)[key].value = cfg[key]
    BY DEF WeightsFor
  <2>2. ASSUME NEW i \in DOMAIN r.pool PROVE r.pool[i].weights = WeightsFor(applicants[i], r.config)
    BY <1>3
  <2> QED BY <2>1, <2>2
<1>5. \A i \in DOMAIN r.pool : tickets[i] = TicketsFrom(r.pool[i].weights)
  BY <1>3
<1>6. /\ drawn.firstCome = (r.pool # <<>> /\ pick = 0)
      /\ drawn.winner = IF r.pool = <<>> THEN NoWinner ELSE r.pool[Max({pick, 1})].user
  <2> DEFINE t == [i \in DOMAIN drawn.pool |-> drawn.pool[i].tickets]
  <2>1. /\ drawn.firstCome = (drawn.pool # <<>> /\ PickWeighted(r.roll, t) = 0)
        /\ drawn.winner = IF drawn.pool = <<>> THEN NoWinner ELSE drawn.pool[Max({PickWeighted(r.roll, t), 1})].user
    BY DEF RunDraw
  <2>2. tickets = t
    BY <1>2 DEF TicketsOf
  <2> HIDE DEF tickets, t, drawn
  <2> QED BY <1>2, <2>1, <2>2
<1>7. Total(tickets) \in Nat
  BY <1>3, TotalIs
<1> HIDE DEF tickets, pick, drawn
<1>8. Total(tickets) = 0 => pick = 0
  BY DEF pick, PickWeighted
<1>9. Total(tickets) # 0 => pick \in 1 .. n
  BY <1>0, <1>3, <1>7, Picked DEF pick
<1>10. ASSUME NEW m \in Nat PROVE Max({m, 1}) = IF m = 0 THEN 1 ELSE m
  <2> DEFINE most == IF m = 0 THEN 1 ELSE m
  <2>1. most \in {m, 1} /\ \A y \in {m, 1} : most >= y
    OBVIOUS
  <2>2. \A x \in {m, 1} : (\A y \in {m, 1} : x >= y) => x = most
    OBVIOUS
  <2> HIDE DEF most
  <2>3. Max({m, 1}) = most
    BY <2>1, <2>2 DEF Max
  <2> QED BY <2>3 DEF most
<1>11. ASSUME r.winner # NoWinner
       PROVE  r.winner = r.pool[IF r.firstCome THEN 1 ELSE pick].user /\ (r.firstCome <=> Total(tickets) = 0)
  <2>1. r.pool # <<>> /\ r.winner = r.pool[Max({pick, 1})].user /\ r.firstCome = (pick = 0)
    BY <1>2, <1>6, <1>11
  <2>2. CASE Total(tickets) = 0
    <3>1. pick = 0 /\ 0 \in Nat
      BY <1>8, <2>2
    <3>2. Max({pick, 1}) = 1
      BY <1>10, <3>1
    <3> QED BY <2>1, <2>2, <3>1, <3>2
  <2>3. CASE Total(tickets) # 0
    <3>1. pick \in Nat /\ pick # 0
      BY <1>2, <1>9, <2>3
    <3>2. Max({pick, 1}) = pick
      BY <1>10, <3>1
    <3> QED BY <2>1, <2>3, <3>1, <3>2
  <2> QED BY <2>2, <2>3
<1> QED BY <1>4, <1>5, <1>11 DEF Explained, tickets, pick

\* The odds of a recorded pool with tickets in it are its tickets.
LEMMA DrawFair == ASSUME NEW r, FromDraw(r), Total(TicketsOf(r)) > 0 PROVE FairOdds(TicketsOf(r))
<1>1. PICK applicants, n : Made(r, applicants, n)
  BY DEF FromDraw
<1>2. TicketsOf(r) \in Seq(Nat)
  BY <1>1, PoolIs DEF FromDraw
<1> QED BY <1>2, OddsAreTickets

\* At the default weights a newcomer of strong fit has no fewer tickets than
\* anyone of lesser fit: twelve quarters against nine.
LEMMA NewcomerFirst ==
  ASSUME NEW r, FromDraw(r), \A key \in WeightKey : r.config[key] = DRAW_SETTINGS[key],
         NEW i \in DOMAIN r.pool, NEW j \in DOMAIN r.pool,
         DOMAIN r.pool[i].weights = {"fit_strong", "first_ever_application"}, r.pool[j].fit # "strong"
  PROVE  r.pool[j].tickets <= r.pool[i].tickets
<1>1. PICK applicants, n : Made(r, applicants, n)
  BY DEF FromDraw
<1>2. /\ Weighs(r.config) /\ DOMAIN r.pool = 1 .. n
      /\ \A k \in 1 .. n : /\ r.pool[k].fit = applicants[k].fit
                           /\ r.pool[k].weights = WeightsFor(applicants[k], r.config)
                           /\ r.pool[k].tickets = TicketsFrom(r.pool[k].weights)
                           /\ r.pool[k].tickets \in Nat
  BY <1>1, PoolIs DEF FromDraw
<1>3. Default(r.config)
  BY DEF Default, DRAW_SETTINGS, WeightKey
<1>4. Applies(applicants[i]) /\ Applies(applicants[j])
  BY <1>1, <1>2 DEF Made
<1>5. 4 * TicketsFrom(WeightsFor(applicants[j], r.config)) <= 9 * Power(4, MaxTimes)
  BY <1>2, <1>3, <1>4, LesserFit
<1>6. 4 * TicketsFrom(WeightsFor(applicants[i], r.config)) = 12 * Power(4, MaxTimes)
  BY <1>2, <1>3, <1>4, StrongNewcomer
<1>7. Power(4, MaxTimes) \in Nat
  BY OddsConstants, PowerIs
<1> DEFINE t == r.pool[i].tickets
           u == r.pool[j].tickets
           all == Power(4, MaxTimes)
<1>8. t \in Nat /\ u \in Nat /\ all \in Nat /\ 4 * u <= 9 * all /\ 4 * t = 12 * all
  BY <1>2, <1>5, <1>6, <1>7
<1> HIDE DEF t, u, all
<1>9. u <= t
  BY <1>8
<1> QED BY <1>9 DEF t, u

-----------------------------------------------------------------------------
(* Every recorded draw is such a draw.                                     *)

\* The function order lists the k places in ascending order.
Lists(order, k, places) == order \in [1 .. k -> places] /\ \A i, j \in 1 .. k : i < j => order[i] < order[j]

\* A set of places can be listed in ascending order: by induction on the last of
\* them, the last going to the end of the list.
LEMMA Enumerated ==
  ASSUME NEW last \in Nat, NEW all \in SUBSET (1 .. last)
  PROVE  Cardinality(all) \in Nat /\ \E order : Lists(order, Cardinality(all), all)
<1> DEFINE Ordered(P) == Cardinality(P) \in Nat /\ \E order : Lists(order, Cardinality(P), P)
           good == {n \in 0 .. last : \A P \in SUBSET (1 .. n) : Ordered(P)}
<1>1. 0 \in good
  <2>1. ASSUME NEW P \in SUBSET (1 .. 0) PROVE Ordered(P)
    <3>1. P = {}
      OBVIOUS
    <3>2. Cardinality(P) = 0
      BY <3>1, FS_EmptySet
    <3> DEFINE order == [i \in 1 .. 0 |-> 0]
    <3>3. Lists(order, 0, P)
      BY DEF Lists
    <3> HIDE DEF order
    <3> QED BY <3>2, <3>3
  <2> QED BY <2>1
<1>2. ASSUME NEW n \in good, n < last PROVE n + 1 \in good
  <2>0. n \in Nat /\ n + 1 \in 0 .. last /\ \A P \in SUBSET (1 .. n) : Ordered(P)
    BY <1>2
  <2>1. ASSUME NEW P \in SUBSET (1 .. n + 1) PROVE Ordered(P)
    <3>1. CASE n + 1 \notin P
      <4>1. P \in SUBSET (1 .. n)
        BY <2>0, <3>1
      <4> QED BY <2>0, <4>1
    <3>2. CASE n + 1 \in P
      <4> DEFINE Q == P \ {n + 1}
                 k == Cardinality(Q)
      <4>1. Q \in SUBSET (1 .. n)
        BY <2>0
      <4>2. k \in Nat
        BY <2>0, <4>1
      <4>3. PICK order \in [1 .. k -> Q] : \A i, j \in 1 .. k : i < j => order[i] < order[j]
        <5>1. \E order : Lists(order, k, Q)
          BY <2>0, <4>1
        <5> QED BY <5>1 DEF Lists
      <4>4. Cardinality(P) = k + 1
        <5>1. IsFiniteSet(1 .. n + 1)
          BY <2>0, FS_Interval
        <5>2. IsFiniteSet(P)
          BY <5>1, FS_Subset
        <5>3. Cardinality(P \ {n + 1}) = Cardinality(P) - 1 /\ Cardinality(P) \in Nat
          BY <3>2, <5>2, FS_RemoveElement, FS_CardinalityType
        <5> QED BY <4>2, <5>3
      <4> DEFINE longer == [i \in 1 .. k + 1 |-> IF i = k + 1 THEN n + 1 ELSE order[i]]
      <4> HIDE DEF k
      <4>5. \A i \in 1 .. k : longer[i] = order[i] /\ order[i] \in Q /\ order[i] \in 1 .. n /\ i \in 1 .. k + 1
        <5>1. \A i \in 1 .. k : i # k + 1 /\ i \in 1 .. k + 1
          BY <4>2
        <5>2. \A i \in 1 .. k : order[i] \in Q
          BY <4>3
        <5> HIDE DEF Q
        <5>3. \A i \in 1 .. k : longer[i] = order[i]
          BY <5>1
        <5> QED BY <4>1, <5>1, <5>2, <5>3
      <4>6. longer[k + 1] = n + 1 /\ DOMAIN longer = 1 .. k + 1
        BY <4>2
      <4>7. \A i \in 1 .. k + 1 : i = k + 1 \/ i \in 1 .. k
        BY <4>2
      <4>8. longer \in [1 .. k + 1 -> P]
        <5>1. \A i \in 1 .. k + 1 : longer[i] \in P
          BY <3>2, <4>5, <4>6, <4>7
        <5> QED BY <5>1
      <4> HIDE DEF longer
      <4>9. ASSUME NEW i \in 1 .. k + 1, NEW j \in 1 .. k + 1, i < j PROVE longer[i] < longer[j]
        <5>1. i \in 1 .. k
          BY <4>2, <4>9
        <5>2. CASE j \in 1 .. k
          BY <4>3, <4>5, <4>9, <5>1, <5>2
        <5>3. CASE j = k + 1
          BY <2>0, <4>5, <4>6, <5>1, <5>3
        <5> QED BY <4>7, <5>2, <5>3
      <4>10. Lists(longer, k + 1, P)
        BY <4>8, <4>9 DEF Lists
      <4> QED BY <4>2, <4>4, <4>10
    <3> QED BY <3>1, <3>2
  <2> QED BY <2>0, <2>1
<1>3. good \in SUBSET (0 .. last)
  OBVIOUS
<1> HIDE DEF good
<1>4. good = 0 .. last
  BY <1>1, <1>2, <1>3, Induction
<1>5. last \in 0 .. last
  OBVIOUS
<1>6. \A P \in SUBSET (1 .. last) : Ordered(P)
  <2> HIDE DEF Ordered
  <2> QED BY <1>4, <1>5 DEF good
<1> QED BY <1>6

\* So the order by created_at that Applicants takes exists.
LEMMA OrderIs ==
  ASSUME NEW last \in Nat, NEW all \in SUBSET (1 .. last)
  PROVE  Cardinality(all) \in Nat /\ InOrder(all) \in [1 .. Cardinality(all) -> all]
<1> DEFINE k == Cardinality(all)
<1>1. k \in Nat /\ \E order : Lists(order, k, all)
  BY Enumerated
<1> HIDE DEF k
<1>2. \E order \in [1 .. k -> all] : \A i, j \in DOMAIN order : i < j => order[i] < order[j]
  BY <1>1 DEF Lists
<1>3. InOrder(all) = CHOOSE order \in [1 .. k -> all] : \A i, j \in DOMAIN order : i < j => order[i] < order[j]
  BY DEF InOrder, k
<1>4. InOrder(all) \in [1 .. k -> all]
  BY <1>2, <1>3
<1> QED BY <1>1, <1>4 DEF k

Status == {"applied", "rejected_gate", "won", "lost"}
Application == [user: Person, status: Status, fit: Fit \cup {"none"}, level: Level]

\* What a request q has read is what its place says.
PlaceFits(q) ==
  /\ q.at # "idle" => {"at", "msg"} \subseteq DOMAIN q /\ q.msg \in Message
  /\ q.at \in {"checking", "writing", "assessing"} => Sent[q.msg].action = "apply"
  /\ q.at = "drawing" => Sent[q.msg].action = "run_draw" /\ Weighs(q.cfg)

\* What is stored of a weight is a natural number of quarters.
SettingsFit == \A key \in WeightKey \cap DOMAIN overrides : overrides[key] \in Nat

\* The pools are of applications.
PoolsFit == app \in [Bounty -> Seq(Application)]

\* Every record was made by a draw.
DrawsFit == draws \in Seq({x \in {draws[i] : i \in DOMAIN draws} : FromDraw(x)})

RequestsFit == req = [r \in Request |-> req[r]] /\ \A r \in Request : PlaceFits(req[r])

DrawsInv == SettingsFit /\ PoolsFit /\ RequestsFit /\ DrawsFit

\* The settings in force, overridden or default, are natural numbers of quarters.
LEMMA ConfigWeighs == SettingsFit => Weighs(Config)
<1>1. \A key \in WeightKey : key \in DOMAIN DRAW_SETTINGS /\ DRAW_SETTINGS[key] \in Nat
  BY DEF WeightKey, DRAW_SETTINGS
<1> QED BY <1>1 DEF SettingsFit, Weighs, Config

\* A weight that passes validation is a natural number of quarters.
LEMMA ValidWeights == ASSUME NEW key \in WeightKey, NEW value, Validate(key, value) PROVE value \in Nat
<1>1. key \notin DOMAIN Whole /\ key \notin DOMAIN Named /\ key \notin Switch
  BY DEF WeightKey, Whole, Named, Switch
<1>2. value \in 0 .. 100 * Quarters
  BY <1>1 DEF Validate
<1> QED BY <1>2 DEF Quarters

\* The board begins with the stored settings, empty pools and no draws.
LEMMA DrawsInit == Init => DrawsInv
<1> SUFFICES ASSUME Init PROVE DrawsInv
  OBVIOUS
<1>1. SettingsFit
  BY StoredSettings, ValidWeights DEF Init, SettingsFit
<1>2. PoolsFit
  BY DEF Init, PoolsFit
<1>3. RequestsFit
  BY DEF Init, RequestsFit, PlaceFits, Idle
<1>4. DrawsFit
  BY DEF Init, DrawsFit
<1> QED BY <1>1, <1>2, <1>3, <1>4 DEF DrawsInv

\* Settings are validated before they are stored.
LEMMA SettingsStep == ASSUME DrawsInv, [Next]_vars PROVE SettingsFit'
<1>1. CASE UNCHANGED overrides
  BY <1>1 DEF DrawsInv, SettingsFit
<1>2. ASSUME NEW r \in Request, SetSetting(r) PROVE SettingsFit'
  <2> DEFINE key == Said(r).about
             value == Said(r).value
  <2>1. CASE ~Validate(key, value)
    BY <1>2, <2>1, <1>1 DEF SetSetting
  <2>2. CASE Validate(key, value)
    <3>1. overrides' = [k \in DOMAIN overrides \cup {key} |-> IF k = key THEN value ELSE overrides[k]]
      BY <1>2, <2>2 DEF SetSetting
    <3>2. key \in WeightKey => value \in Nat
      BY <2>2, ValidWeights
    <3> HIDE DEF key, value
    <3> QED BY <3>1, <3>2 DEF DrawsInv, SettingsFit
  <2> QED BY <2>1, <2>2
<1>3. ASSUME NEW r \in Request, ResetSetting(r) PROVE SettingsFit'
  BY <1>3 DEF ResetSetting, DrawsInv, SettingsFit
<1>4. CASE \E r \in Request : \/ \E m \in Message, route \in {"apply", "admin", "maintainer"} : Deliver(r, m, route)
                              \/ Spend(r) \/ SetRepo(r) \/ ApplyStep(r) \/ DrawStep(r)
  BY <1>1, <1>4 DEF Deliver, Spend, SetRepo, ApplyStep, ApplyRead, ApplyCheck, ApplyWrite, Assess,
                    DrawStep, DrawRead, DrawRecord, DrawAssign
<1>5. CASE \E b \in Bounty : PostStep(b) \/ CommandCrash(b)
  BY <1>1, <1>5 DEF PostStep, CommandCrash, ProposeCheck, ProposeInsert, ProposeComment, ProposePost, SeedCheck, SeedInsert, OpenApplications
<1>6. CASE Tick \/ AgentCrash \/ UNCHANGED vars
  BY <1>1, <1>6 DEF Tick, AgentCrash, vars
<1> QED BY <1>2, <1>3, <1>4, <1>5, <1>6 DEF Next

\* Updating rows in place leaves a pool of applications,
LEMMA RowsChange ==
  ASSUME NEW s \in Seq(Application), NEW t, t = [i \in DOMAIN s |-> t[i]], \A i \in DOMAIN s : t[i] \in Application
  PROVE  t \in Seq(Application)
<1>1. DOMAIN s = 1 .. Len(s) /\ Len(s) \in Nat
  OBVIOUS
<1> QED BY <1>1

\* and each of its rows is one.
LEMMA Rows == ASSUME NEW s \in Seq(Application), NEW i \in DOMAIN s PROVE s[i] \in Application
  OBVIOUS

\* A pool grows by the person who applies, and its rows keep their people.
LEMMA PoolsStep == ASSUME DrawsInv, [Next]_vars PROVE PoolsFit'
<1>1. CASE UNCHANGED app
  BY <1>1 DEF DrawsInv, PoolsFit
<1>2. ASSUME NEW r \in Request, ApplyWrite(r) PROVE PoolsFit'
  <2> DEFINE b == Said(r).about
             u == Said(r).by
  <2>1. b \in Bounty /\ u \in Person
    BY <1>2, BoardConstants DEF ApplyWrite, DrawsInv, RequestsFit, PlaceFits, Said
  <2>2. PICK status \in Status : Upsert(b, u, status)
    <3>1. Upsert(b, u, IF req[r].eligible THEN "applied" ELSE "rejected_gate")
      BY <1>2 DEF ApplyWrite
    <3>2. (IF req[r].eligible THEN "applied" ELSE "rejected_gate") \in Status
      BY DEF Status
    <3> HIDE DEF b, u
    <3> QED BY <3>1, <3>2
  <2>3. app \in [Bounty -> Seq(Application)] /\ app[b] \in Seq(Application)
    BY <2>1 DEF DrawsInv, PoolsFit
  <2>4. PICK pool \in Seq(Application) : app' = [app EXCEPT ![b] = pool]
    <3> HIDE DEF b, u
    <3> DEFINE new == [user |-> u, status |-> status, fit |-> "none", level |-> "matched"]
               changed == [i \in DOMAIN app[b] |-> IF app[b][i].user = u THEN [app[b][i] EXCEPT !.status = status] ELSE app[b][i]]
    <3>1. Append(app[b], new) \in Seq(Application)
      <4>1. new \in Application
        BY <2>1, <2>2 DEF Application, Level
      <4> HIDE DEF new
      <4> QED BY <2>3, <4>1
    <3>2. changed \in Seq(Application)
      <4>1. ASSUME NEW i \in DOMAIN app[b] PROVE changed[i] \in Application
        <5>1. app[b][i] \in Application
          BY <2>3, Rows
        <5>2. [app[b][i] EXCEPT !.status = status] \in Application
          BY <5>1 DEF Application
        <5> QED BY <5>1, <5>2
      <4>2. changed = [i \in DOMAIN app[b] |-> changed[i]]
        OBVIOUS
      <4> HIDE DEF changed
      <4> QED BY <2>3, <4>1, <4>2, RowsChange
    <3>3. app' = [app EXCEPT ![b] = Append(app[b], new)] \/ app' = [app EXCEPT ![b] = changed]
      BY <2>1, <2>2, <2>3 DEF Upsert
    <3> QED BY <3>1, <3>2, <3>3
  <2> QED BY <2>1, <2>3, <2>4 DEF PoolsFit
<1>3. ASSUME NEW r \in Request, Assess(r) PROVE PoolsFit'
  <2> DEFINE b == Said(r).about
             u == Said(r).by
  <2>1. b \in Bounty
    BY <1>3, BoardConstants DEF Assess, DrawsInv, RequestsFit, PlaceFits, Said
  <2>2. PICK a : /\ a \in {Plausible} \cup IF req[r].assess THEN {ParseFit(answer) : answer \in Answer} ELSE {}
                 /\ app' = [app EXCEPT ![b] = [i \in DOMAIN @ |-> IF @[i].user = u THEN [@[i] EXCEPT !.fit = a.fit, !.level = a.level] ELSE @[i]]]
    BY <1>3 DEF Assess
  <2>3. a.fit \in Fit /\ a.level \in Level
    <3>1. Plausible.fit \in Fit /\ Plausible.level \in Level
      BY DEF Plausible, Fit, Level
    <3>2. ASSUME NEW answer \in Answer PROVE ParseFit(answer).fit \in Fit /\ ParseFit(answer).level \in Level
      BY <3>1 DEF ParseFit
    <3>3. a = Plausible \/ \E answer \in Answer : a = ParseFit(answer)
      BY <2>2
    <3> QED BY <3>1, <3>2, <3>3
  <2>4. app \in [Bounty -> Seq(Application)] /\ app[b] \in Seq(Application)
    BY <2>1 DEF DrawsInv, PoolsFit
  <2> HIDE DEF b, u
  <2> DEFINE changed == [i \in DOMAIN app[b] |-> IF app[b][i].user = u THEN [app[b][i] EXCEPT !.fit = a.fit, !.level = a.level] ELSE app[b][i]]
  <2>5. changed \in Seq(Application)
    <3>1. ASSUME NEW i \in DOMAIN app[b] PROVE changed[i] \in Application
      <4>1. app[b][i] \in Application
        BY <2>4, Rows
      <4>2. [app[b][i] EXCEPT !.fit = a.fit, !.level = a.level] \in Application
        BY <2>3, <4>1 DEF Application
      <4> QED BY <4>1, <4>2
    <3>2. changed = [i \in DOMAIN app[b] |-> changed[i]]
      OBVIOUS
    <3> HIDE DEF changed
    <3> QED BY <2>4, <3>1, <3>2, RowsChange
  <2>6. app' = [app EXCEPT ![b] = changed]
    BY <2>1, <2>2, <2>4
  <2> HIDE DEF changed
  <2> QED BY <2>4, <2>5, <2>6 DEF PoolsFit
<1>4. ASSUME NEW r \in Request, DrawAssign(r) PROVE PoolsFit'
  <2> DEFINE b == Said(r).about
             w == req[r].winner
  <2>1. CASE UNCHANGED app
    BY <2>1, <1>1
  <2>2. CASE app' = [app EXCEPT ![b] = [i \in DOMAIN @ |->
                       IF i \notin InPool(b) THEN @[i]
                       ELSE [@[i] EXCEPT !.status = IF app[b][i].user = w THEN "won" ELSE "lost"]]]
    <3>1. app \in [Bounty -> Seq(Application)]
      BY DEF DrawsInv, PoolsFit
    <3> HIDE DEF b, w
    <3>2. CASE b \notin Bounty
      <4>1. app' = app
        BY <2>2, <3>1, <3>2
      <4> QED BY <4>1, <1>1
    <3>3. CASE b \in Bounty
      <4>1. app[b] \in Seq(Application)
        BY <3>1, <3>3
      <4> DEFINE changed == [i \in DOMAIN app[b] |-> IF i \notin InPool(b) THEN app[b][i]
                               ELSE [app[b][i] EXCEPT !.status = IF app[b][i].user = w THEN "won" ELSE "lost"]]
      <4>2. changed \in Seq(Application)
        <5>1. ASSUME NEW i \in DOMAIN app[b] PROVE changed[i] \in Application
          <6>1. app[b][i] \in Application
            BY <4>1, Rows
          <6>2. \A status \in Status : [app[b][i] EXCEPT !.status = status] \in Application
            BY <6>1 DEF Application
          <6>3. (IF app[b][i].user = w THEN "won" ELSE "lost") \in Status
            BY DEF Status
          <6> QED BY <6>1, <6>2, <6>3
        <5>2. changed = [i \in DOMAIN app[b] |-> changed[i]]
          OBVIOUS
        <5> HIDE DEF changed
        <5> QED BY <4>1, <5>1, <5>2, RowsChange
      <4>3. app' = [app EXCEPT ![b] = changed]
        BY <2>2, <3>1, <3>3
      <4> HIDE DEF changed
      <4> QED BY <3>1, <4>2, <4>3 DEF PoolsFit
    <3> QED BY <3>2, <3>3
  <2> QED BY <1>4, <2>1, <2>2 DEF DrawAssign
<1>5. CASE \E r \in Request : \/ \E m \in Message, route \in {"apply", "admin", "maintainer"} : Deliver(r, m, route)
                              \/ Spend(r) \/ SetRepo(r) \/ SetSetting(r) \/ ResetSetting(r)
                              \/ ApplyRead(r) \/ ApplyCheck(r) \/ DrawRead(r) \/ DrawRecord(r)
  BY <1>1, <1>5 DEF Deliver, Spend, SetRepo, SetSetting, ResetSetting, ApplyRead, ApplyCheck, DrawRead, DrawRecord, rows
<1>6. CASE \E b \in Bounty : PostStep(b) \/ CommandCrash(b)
  BY <1>1, <1>6 DEF PostStep, CommandCrash, ProposeCheck, ProposeInsert, ProposeComment, ProposePost, SeedCheck, SeedInsert, OpenApplications, rows
<1>7. CASE Tick \/ AgentCrash \/ UNCHANGED vars
  BY <1>1, <1>7 DEF Tick, AgentCrash, vars, rows
<1> QED BY <1>2, <1>3, <1>4, <1>5, <1>6, <1>7 DEF Next, ApplyStep, DrawStep

\* A request goes to a place that what it carries fits.
LEMMA Goes ==
  ASSUME RequestsFit, NEW r \in Request, NEW state, Becomes(r, state), PlaceFits(state)
  PROVE  RequestsFit'
<1>1. req' = [req EXCEPT ![r] = state] /\ req = [q \in Request |-> req[q]]
  BY DEF RequestsFit, Becomes
<1>2. \A q \in Request : req'[q] = IF q = r THEN state ELSE req[q]
  BY <1>1
<1>3. \A q \in Request : PlaceFits(req'[q])
  BY <1>2 DEF RequestsFit
<1>4. req' = [q \in Request |-> req'[q]]
  BY <1>1
<1> QED BY <1>3, <1>4 DEF RequestsFit

\* A request whose nonce is spent is acted on; one whose application is written is assessed.
LEMMA GoesOn ==
  ASSUME RequestsFit, NEW r \in Request, NEW where \in {"acting", "assessing"}, At(r, where),
         req[r].at \in {"spending", "writing"}, where = "assessing" => req[r].at = "writing"
  PROVE  RequestsFit'
<1> DEFINE state == [req[r] EXCEPT !.at = where]
<1>1. PlaceFits(req[r])
  BY DEF RequestsFit
<1>2. {"at", "msg"} \subseteq DOMAIN req[r] /\ req[r].msg \in Message /\ (where = "assessing" => Sent[req[r].msg].action = "apply")
  BY <1>1 DEF PlaceFits
<1>3. state.at = where /\ DOMAIN state = DOMAIN req[r] /\ state.msg = req[r].msg
  BY <1>2
<1>4. Becomes(r, state)
  BY DEF At
<1> HIDE DEF state
<1>5. PlaceFits(state)
  BY <1>2, <1>3 DEF PlaceFits
<1> QED BY <1>4, <1>5, Goes

\* A request that is done keeps nothing.
LEMMA Ends == ASSUME RequestsFit, NEW r \in Request, Becomes(r, Idle) PROVE RequestsFit'
<1>1. PlaceFits(Idle)
  BY DEF PlaceFits, Idle
<1> QED BY <1>1, Goes

\* What a request carries from one step to the next is what its place says.
LEMMA RequestsStep == ASSUME DrawsInv, [Next]_vars PROVE RequestsFit'
<1>0. RequestsFit
  BY DEF DrawsInv
<1>a. \A r \in Request : PlaceFits(req[r])
  BY <1>0 DEF RequestsFit
<1>1. ASSUME NEW r \in Request, NEW m \in Message, NEW route, Deliver(r, m, route) PROVE RequestsFit'
  <2> DEFINE state == [at |-> "spending", msg |-> m]
  <2>1. PlaceFits(state) /\ Becomes(r, state)
    BY <1>1 DEF Deliver, PlaceFits
  <2> HIDE DEF state
  <2> QED BY <1>0, <2>1, Goes
<1>2. ASSUME NEW r \in Request, Spend(r) PROVE RequestsFit'
  <2>1. req[r].at = "spending" /\ (At(r, "acting") \/ Becomes(r, Idle))
    BY <1>2 DEF Spend
  <2>2. CASE At(r, "acting")
    BY <1>0, <2>1, <2>2, GoesOn
  <2> QED BY <1>0, <2>1, <2>2, Ends
<1>3. ASSUME NEW r \in Request, SetSetting(r) \/ ResetSetting(r) \/ SetRepo(r) \/ DrawAssign(r) \/ Assess(r) PROVE RequestsFit'
  <2>1. Becomes(r, Idle)
    BY <1>3 DEF SetSetting, ResetSetting, SetRepo, DrawAssign, Assess
  <2> QED BY <1>0, <2>1, Ends
<1>4. ASSUME NEW r \in Request, ApplyRead(r) PROVE RequestsFit'
  <2> DEFINE state == [at |-> "checking", msg |-> req[r].msg, limit |-> Config.max_active_assignments_per_person,
                       assess |-> Config.ai_fit_assessment_enabled]
  <2>1. req[r].msg \in Message /\ Sent[req[r].msg].action = "apply"
    BY <1>4, <1>a DEF ApplyRead, Acting, Said, PlaceFits
  <2>2. PlaceFits(state)
    BY <2>1 DEF PlaceFits
  <2>3. Becomes(r, state) \/ Becomes(r, Idle)
    BY <1>4 DEF ApplyRead
  <2> HIDE DEF state
  <2> QED BY <1>0, <2>2, <2>3, Goes, Ends
<1>5. ASSUME NEW r \in Request, ApplyCheck(r) PROVE RequestsFit'
  <2> DEFINE state(eligible) == [at |-> "writing", msg |-> req[r].msg, eligible |-> eligible, assess |-> req[r].assess]
  <2>1. req[r].msg \in Message /\ Sent[req[r].msg].action = "apply"
    BY <1>5, <1>a DEF ApplyCheck, PlaceFits
  <2>2. \A eligible \in BOOLEAN : PlaceFits(state(eligible))
    BY <2>1 DEF PlaceFits
  <2>3. (\E eligible \in BOOLEAN : Becomes(r, state(eligible))) \/ Becomes(r, Idle)
    BY <1>5 DEF ApplyCheck
  <2> HIDE DEF state
  <2>4. ASSUME NEW eligible \in BOOLEAN, Becomes(r, state(eligible)) PROVE RequestsFit'
    BY <1>0, <2>2, <2>4, Goes
  <2> QED BY <1>0, <2>3, <2>4, Ends
<1>6. ASSUME NEW r \in Request, ApplyWrite(r) PROVE RequestsFit'
  <2>1. req[r].at = "writing" /\ (At(r, "assessing") \/ Becomes(r, Idle))
    BY <1>6 DEF ApplyWrite
  <2>2. CASE At(r, "assessing")
    BY <1>0, <2>1, <2>2, GoesOn
  <2> QED BY <1>0, <2>1, <2>2, Ends
<1>7. ASSUME NEW r \in Request, DrawRead(r) PROVE RequestsFit'
  <2> DEFINE state == [at |-> "drawing", msg |-> req[r].msg, cfg |-> Config]
  <2>1. req[r].msg \in Message /\ Sent[req[r].msg].action = "run_draw"
    BY <1>7, <1>a DEF DrawRead, Acting, Said, PlaceFits
  <2>2. PlaceFits(state)
    BY <2>1, ConfigWeighs DEF PlaceFits, DrawsInv
  <2>3. Becomes(r, state) \/ Becomes(r, Idle)
    BY <1>7 DEF DrawRead
  <2> HIDE DEF state
  <2> QED BY <1>0, <2>2, <2>3, Goes, Ends
<1>8. ASSUME NEW r \in Request, DrawRecord(r) PROVE RequestsFit'
  <2> DEFINE state(w) == [at |-> "assigning", msg |-> req[r].msg, winner |-> w]
  <2>1. req[r].msg \in Message
    BY <1>8, <1>a DEF DrawRecord, PlaceFits
  <2>2. \A w : PlaceFits(state(w))
    BY <2>1 DEF PlaceFits
  <2>3. (\E w : Becomes(r, state(w))) \/ Becomes(r, Idle)
    BY <1>8 DEF DrawRecord, Record
  <2> HIDE DEF state
  <2>4. ASSUME NEW w, Becomes(r, state(w)) PROVE RequestsFit'
    BY <1>0, <2>2, <2>4, Goes
  <2> QED BY <1>0, <2>3, <2>4, Ends
<1>9. CASE AgentCrash
  <2>1. PlaceFits(Idle)
    BY DEF PlaceFits, Idle
  <2> QED BY <1>9, <2>1 DEF AgentCrash, RequestsFit
<1>10. CASE Tick \/ (\E b \in Bounty : PostStep(b) \/ CommandCrash(b)) \/ UNCHANGED vars
  <2>1. UNCHANGED req
    BY <1>10 DEF PostStep, CommandCrash, ProposeCheck, ProposeInsert, ProposeComment, ProposePost, SeedCheck, SeedInsert,
                OpenApplications, Tick, vars
  <2> QED BY <1>0, <2>1 DEF RequestsFit
<1> QED BY <1>1, <1>2, <1>3, <1>4, <1>5, <1>6, <1>7, <1>8, <1>9, <1>10 DEF Next, ApplyStep, DrawStep

\* Whoever stands in a pool applied, with a history that its assignments make.
LEMMA ApplicantsApply ==
  ASSUME DrawsInv, NEW b \in Bounty
  PROVE  \E n \in Nat : DOMAIN Applicants(b) = 1 .. n /\ \A i \in 1 .. n : Applies(Applicants(b)[i])
<1>1. app[b] \in Seq(Application)
  BY DEF DrawsInv, PoolsFit
<1> DEFINE all == Eligible(b)
           n == Cardinality(all)
           order == InOrder(all)
<1>2. all \in SUBSET (1 .. Len(app[b])) /\ Len(app[b]) \in Nat
  <2>1. DOMAIN app[b] = 1 .. Len(app[b]) /\ Len(app[b]) \in Nat
    BY <1>1
  <2>2. all \subseteq DOMAIN app[b]
    BY DEF Eligible, Newcomers, InPool
  <2> QED BY <2>1, <2>2
<1>8. all \subseteq DOMAIN app[b]
  BY DEF Eligible, Newcomers, InPool
<1> HIDE DEF all
<1>3. n \in Nat /\ order \in [1 .. n -> all]
  BY <1>2, OrderIs
<1>4. ASSUME NEW i \in DOMAIN app[b] PROVE Applies(Applicant(b, i))
  <2> DEFINE u == app[b][i].user
  <2>1. u \in Person
    BY <1>1, Rows DEF Application
  <2>2. /\ History[u].completions \in Nat /\ History[u].assignments \in Nat /\ History[u].abandons \in Nat
        /\ History[u].completions + History[u].abandons <= History[u].assignments /\ History[u].abandons + 5 <= MaxTimes
    BY <2>1, BoardConstants
  <2>3. Cardinality(Holds(u)) \in Nat
    <3>1. IsFiniteSet(Bounty) /\ Holds(u) \subseteq Bounty
      BY BoardConstants DEF Holds
    <3> QED BY <3>1, FS_Subset, FS_CardinalityType
  <2> DEFINE a == Applicant(b, i)
  <2>4. a.completions = History[u].completions /\ a.abandons = History[u].abandons
        /\ a.assignments = History[u].assignments + Cardinality(Holds(u))
    BY DEF Applicant
  <2> HIDE DEF u, a
  <2> DEFINE x == History[u].completions
             y == History[u].assignments
             z == History[u].abandons
             h == Cardinality(Holds(u))
  <2>5. x \in Nat /\ y \in Nat /\ z \in Nat /\ h \in Nat /\ x + z <= y /\ z + 5 <= MaxTimes
    BY <2>2, <2>3
  <2>6. a.completions = x /\ a.abandons = z /\ a.assignments = y + h
    BY <2>4
  <2> HIDE DEF x, y, z, h
  <2>7. Applies(a)
    BY <2>5, <2>6 DEF Applies
  <2> QED BY <2>7 DEF a
<1>5. Applicants(b) = [i \in 1 .. n |-> Applicant(b, order[i])]
  BY <1>3 DEF Applicants, all
<1>6. \A i \in 1 .. n : order[i] \in DOMAIN app[b]
  <2> HIDE DEF n, order
  <2> QED BY <1>3, <1>8
<1> HIDE DEF n, order
<1>7. DOMAIN Applicants(b) = 1 .. n /\ \A i \in 1 .. n : Applies(Applicants(b)[i])
  BY <1>4, <1>5, <1>6
<1> QED BY <1>3, <1>7

\* A sequence is one over any set that holds its elements.
LEMMA Retyped ==
  ASSUME NEW S, NEW T, NEW s \in Seq(S), \A i \in DOMAIN s : s[i] \in T
  PROVE  s \in Seq(T)
<1>1. Len(s) \in Nat /\ DOMAIN s = 1 .. Len(s)
  OBVIOUS
<1>2. s \in [1 .. Len(s) -> S]
  OBVIOUS
<1>3. s \in [1 .. Len(s) -> T]
  BY <1>1, <1>2
<1> QED BY <1>1, <1>3

\* A record that a draw made may be added to those there are.
LEMMA Appended ==
  ASSUME NEW x, FromDraw(x), DrawsFit, draws' = Append(draws, x)
  PROVE  DrawsFit'
<1> DEFINE All(s) == {y \in {s[i] : i \in DOMAIN s} : FromDraw(y)}
           Both == All(draws) \cup {x}
<1>1. draws \in Seq(Both)
  BY DEF DrawsFit
<1>2. draws' \in Seq(Both) /\ Len(draws') = Len(draws) + 1 /\ Len(draws) \in Nat
  BY <1>1
<1>3. DOMAIN draws' = 1 .. Len(draws) + 1
  BY <1>2
<1>4. \A i \in DOMAIN draws' : FromDraw(draws'[i])
  <2>1. \A y \in Both : FromDraw(y)
    <3>1. \A y \in All(draws) : FromDraw(y)
      OBVIOUS
    <3> HIDE DEF All
    <3> QED BY <3>1
  <2>2. \A i \in DOMAIN draws' : draws'[i] \in Both
    BY <1>2
  <2> QED BY <2>1, <2>2
<1>5. \A i \in DOMAIN draws' : draws'[i] \in All(draws')
  BY <1>4
<1> HIDE DEF Both
<1>6. draws' \in Seq(All(draws'))
  <2> HIDE DEF All
  <2> QED BY <1>2, <1>5, Retyped
<1> QED BY <1>6 DEF DrawsFit

\* Only a draw that has read its settings records one, over the pool it finds then.
LEMMA DrawsStep == ASSUME DrawsInv, [Next]_vars PROVE DrawsFit'
<1>0. DrawsFit
  BY DEF DrawsInv
<1>1. CASE UNCHANGED draws
  BY <1>0, <1>1 DEF DrawsFit
<1>2. ASSUME NEW r \in Request, DrawRecord(r) PROVE DrawsFit'
  <2> DEFINE b == Said(r).about
             cfg == req[r].cfg
             simulate == Said(r).value
  <2>1. b \in Bounty /\ Weighs(cfg)
    BY <1>2, BoardConstants DEF DrawRecord, DrawsInv, RequestsFit, PlaceFits, Said
  <2> DEFINE made(roll) ==
               [bounty |-> b, config |-> cfg, reserved |-> bounty[b].reserved, simulation |-> simulate,
                pool |-> RunDraw(Applicants(b), cfg, roll).pool, roll |-> RunDraw(Applicants(b), cfg, roll).roll,
                firstCome |-> RunDraw(Applicants(b), cfg, roll).firstCome,
                winner |-> IF simulate THEN NoWinner ELSE RunDraw(Applicants(b), cfg, roll).winner]
  <2>2. UNCHANGED draws \/ \E roll \in 0 .. Rolls - 1 : draws' = Append(draws, made(roll))
    BY <1>2 DEF DrawRecord, Record
  <2>3. ASSUME NEW roll \in 0 .. Rolls - 1, draws' = Append(draws, made(roll)) PROVE DrawsFit'
    <3> DEFINE r0 == made(roll)
               all == Applicants(b)
    <3>1. RunDraw(all, cfg, roll).roll = roll
      BY DEF RunDraw
    <3>2. PICK n \in Nat : DOMAIN all = 1 .. n /\ \A i \in 1 .. n : Applies(all[i])
      BY <2>1, ApplicantsApply
    <3>3. /\ r0.config = cfg /\ r0.roll = roll /\ r0.pool = RunDraw(all, cfg, roll).pool
          /\ r0.firstCome = RunDraw(all, cfg, roll).firstCome
          /\ r0.winner \in {NoWinner, RunDraw(all, cfg, roll).winner}
      BY <3>1
    <3>4. draws' = Append(draws, r0)
      BY <2>3
    <3> HIDE DEF made, r0, all, cfg
    <3>5. Made(r0, all, n)
      BY <3>2, <3>3 DEF Made
    <3>6. FromDraw(r0)
      BY <2>1, <3>3, <3>5 DEF FromDraw
    <3> QED BY <1>0, <3>4, <3>6, Appended
  <2> HIDE DEF made
  <2> QED BY <1>1, <2>2, <2>3
<1>3. CASE \E r \in Request : \/ \E m \in Message, route \in {"apply", "admin", "maintainer"} : Deliver(r, m, route)
                              \/ Spend(r) \/ SetRepo(r) \/ SetSetting(r) \/ ResetSetting(r)
                              \/ ApplyStep(r) \/ DrawRead(r) \/ DrawAssign(r)
  BY <1>1, <1>3 DEF Deliver, Spend, SetRepo, SetSetting, ResetSetting, ApplyStep, ApplyRead, ApplyCheck, ApplyWrite, Assess,
                    DrawRead, DrawAssign, rows
<1>4. CASE \E b \in Bounty : PostStep(b) \/ CommandCrash(b)
  BY <1>1, <1>4 DEF PostStep, CommandCrash, ProposeCheck, ProposeInsert, ProposeComment, ProposePost, SeedCheck, SeedInsert, OpenApplications, rows
<1>5. CASE Tick \/ AgentCrash \/ UNCHANGED vars
  BY <1>1, <1>5 DEF Tick, AgentCrash, vars, rows
<1> QED BY <1>2, <1>3, <1>4, <1>5 DEF Next, DrawStep

\* Every step of the board keeps the four parts of the invariant.
LEMMA DrawsKept == DrawsInv /\ [Next]_vars => DrawsInv'
  BY SettingsStep, PoolsStep, RequestsStep, DrawsStep DEF DrawsInv

\* The inductive invariant of the draws: the settings are valid weights, the pools
\* are of applications, a draw under way has read weights, and every record was
\* made by RunDraw of some applicants (draw-service.ts:824-862).
THEOREM DrawsHold == Spec => []DrawsInv
  BY DrawsInit, DrawsKept, PTL DEF Spec

\* The records, one by one.
LEMMA EachFromDraw == DrawsInv => \A d \in DOMAIN draws : FromDraw(draws[d])
<1> SUFFICES ASSUME DrawsInv PROVE \A d \in DOMAIN draws : FromDraw(draws[d])
  OBVIOUS
<1> DEFINE S == {x \in {draws[i] : i \in DOMAIN draws} : FromDraw(x)}
<1>1. draws \in Seq(S)
  BY DEF DrawsInv, DrawsFit
<1>2. \A x \in S : FromDraw(x)
  OBVIOUS
<1> HIDE DEF S
<1> QED BY <1>1, <1>2

\* Whatever people apply, settings change and draws overlap meanwhile, the record of
\* a draw explains it: its weights are the settings recorded with it, its tickets
\* their product, its winner the one its roll falls on (draw.ts:102-158).
THEOREM EveryDrawExplained == Spec => []DrawIsExplained
<1>1. DrawsInv => DrawIsExplained
  BY EachFromDraw, DrawExplained DEF DrawIsExplained, Explained, TicketsOf
<1> QED BY <1>1, DrawsHold, PTL

\* In every recorded draw with tickets in it, each candidate wins its part of the
\* tickets, to within one of the equally likely rolls (draw.ts:120-129).
THEOREM TheOddsAreTheTickets == Spec => []OddsFollowTickets
<1>1. DrawsInv => OddsFollowTickets
  BY EachFromDraw, DrawFair DEF OddsFollowTickets, TicketsOf
<1> QED BY <1>1, DrawsHold, PTL

\* In every draw recorded under the default weights, a newcomer of strong fit on an
\* issue of their level has no fewer tickets than anyone whose fit is less, however
\* much that one has won (draw.ts:64-106).
THEOREM NewcomersLead == Spec => []NewcomerLeads
<1>1. DrawsInv => NewcomerLeads
  BY EachFromDraw, NewcomerFirst DEF NewcomerLeads
<1> QED BY <1>1, DrawsHold, PTL
================================================================================
