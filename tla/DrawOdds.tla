------------------------------- MODULE DrawOdds -------------------------------
(***************************************************************************)
(* The weighted draw that gives a bounty to one of its applicants          *)
(* (packages/gate/src/draw.ts), in whole numbers.                          *)
(*                                                                         *)
(* A weight is counted in quarters, and tickets in the common denominator  *)
(* Quarters ^ MaxTimes.  The random number in [0, 1) is one of Rolls       *)
(* equally likely ones: roll k stands for k / Rolls.                       *)
(***************************************************************************)
EXTENDS Integers, Sequences, FiniteSets, SequencesExt

CONSTANTS Rolls, MaxTimes
ASSUME OddsConstants == Rolls \in Nat \ {0} /\ MaxTimes \in Nat

Quarters == 4
PriorCompletionCap == 2
Fit   == {"strong", "plausible", "weak"}
Level == {"matched", "above"}   \* 'below' weighs as 'matched' does
WeightKey == {"fit_strong", "fit_plausible", "fit_weak", "difficulty_above",
              "prior_completion", "first_ever_application", "per_abandon"}

Once(condition) == IF condition THEN 1 ELSE 0

\* Mutant: the bonus of a win is not clamped.
Times_Uncapped(a, key) ==
  CASE key = "fit_strong"             -> Once(a.fit = "strong")
    [] key = "fit_weak"               -> Once(a.fit = "weak")
    [] key = "fit_plausible"          -> Once(a.fit \notin {"strong", "weak"})
    [] key = "difficulty_above"       -> Once(a.level = "above")
    [] key = "prior_completion"       -> a.completions
    [] key = "first_ever_application" -> Once(a.assignments = 0)
    [] key = "per_abandon"            -> a.abandons

\* How often a weight is multiplied into the tickets of applicant a.
Times(a, key) ==
  CASE key = "fit_strong"             -> Once(a.fit = "strong")
    [] key = "fit_weak"               -> Once(a.fit = "weak")
    [] key = "fit_plausible"          -> Once(a.fit \notin {"strong", "weak"})
    [] key = "difficulty_above"       -> Once(a.level = "above")
    [] key = "prior_completion"       -> Min({a.completions, PriorCompletionCap})
    [] key = "first_ever_application" -> Once(a.assignments = 0)
    [] key = "per_abandon"            -> a.abandons

WeightsFor(a, cfg) ==
  [key \in {k \in WeightKey : Times(a, k) > 0} |-> [value |-> cfg[key], times |-> Times(a, key)]]

\* The sum of the first n numbers, for each n.
RunningSum(numbers) ==
  LET sum[n \in 0 .. Len(numbers)] == IF n = 0 THEN 0 ELSE sum[n - 1] + numbers[n] IN sum

Total(numbers) == RunningSum(numbers)[Len(numbers)]

RunningProduct(numbers) ==
  LET product[n \in 0 .. Len(numbers)] == IF n = 0 THEN 1 ELSE product[n - 1] * numbers[n] IN product

Product(numbers) == RunningProduct(numbers)[Len(numbers)]

Power(x, n) == Product([k \in 1 .. n |-> x])

\* The weights in the order they are multiplied.
Order == <<"fit_strong", "fit_weak", "fit_plausible", "difficulty_above",
           "prior_completion", "first_ever_application", "per_abandon">>

Factor(w, key)    == IF key \in DOMAIN w THEN Power(w[key].value, w[key].times) ELSE 1
TimesGiven(w, key) == IF key \in DOMAIN w THEN w[key].times ELSE 0

\* One ticket, multiplied by every weight that applies.
TicketsFrom(w) ==
  Product([i \in 1 .. 7 |-> Factor(w, Order[i])])
    * Power(Quarters, MaxTimes - Total([i \in 1 .. 7 |-> TimesGiven(w, Order[i])]))

\* Mutant: the roll is compared before the candidate's own tickets are taken off it.
PickWeighted_ComparedFirst(roll, tickets) ==
  LET reached == {i \in DOMAIN tickets : roll * Total(tickets) <= Rolls * RunningSum(tickets)[i - 1]}
  IN IF Total(tickets) <= 0 THEN 0 ELSE Min(reached \cup {Len(tickets)})

\* The candidate a roll falls on; 0 when nobody has a ticket.
PickWeighted(roll, tickets) ==
  LET reached == {i \in DOMAIN tickets : roll * Total(tickets) <= Rolls * RunningSum(tickets)[i]}
  IN IF Total(tickets) <= 0 THEN 0 ELSE Min(reached)

NoWinner == "nobody"

\* What is recorded of a draw: each candidate's weights and tickets, and who won.
RunDraw(applicants, cfg, roll) ==
  LET pool == [i \in DOMAIN applicants |->
                 LET w == WeightsFor(applicants[i], cfg)
                 IN [user |-> applicants[i].user, fit |-> applicants[i].fit, weights |-> w, tickets |-> TicketsFrom(w)]]
      pick == PickWeighted(roll, [i \in DOMAIN pool |-> pool[i].tickets])
  IN [pool      |-> pool,
      roll      |-> roll,
      firstCome |-> pool # <<>> /\ pick = 0,
      winner    |-> IF pool = <<>> THEN NoWinner ELSE pool[Max({pick, 1})].user]

-----------------------------------------------------------------------------
(* The reference: whoever has a part of the tickets wins that part of the   *)
(* draws, to within one roll.                                               *)

Wins(i, tickets) == Cardinality({k \in 0 .. Rolls - 1 : PickWeighted(k, tickets) = i})

FairOdds(tickets) ==
  \A i \in DOMAIN tickets :
     Wins(i, tickets) * Total(tickets) - Rolls * tickets[i] \in -Total(tickets) .. Total(tickets)
===============================================================================
