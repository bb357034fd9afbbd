----------------------------- MODULE MCBountyBoard -----------------------------
(* Small instances of BountyBoard.                                         *)
EXTENDS BountyBoard, TLC

CONSTANTS u1, u2, b1, b2, apply1, apply2, drawing, weighing, resetting, switching, r1, r2

Message_(kind, action, by, about, value, from, until) ==
  [kind |-> kind, action |-> action, by |-> by, about |-> about, value |-> value, from |-> from, until |-> until]

\* Two people apply, a maintainer draws, an admin switches the repository on,
\* and the assessment, and puts a weight back to its default.
Messages ==
  apply1    :> Message_("apply", "apply", u1, b1, FALSE, 0, 0) @@
  apply2    :> Message_("apply", "apply", u2, b1, FALSE, 0, 0) @@
  drawing   :> Message_("maintainer", "run_draw", u1, b1, FALSE, 1, 1) @@
  weighing  :> Message_("admin", "set_setting", u2, "ai_fit_assessment_enabled", TRUE, 0, 0) @@
  resetting :> Message_("admin", "reset_setting", u2, "first_ever_application", FALSE, 1, 1) @@
  switching :> Message_("admin", "set_repo_bounties", u2, "repo", [enabled |-> TRUE, registered |-> TRUE], 0, 0)

\* One answer is on the schema, one names a level there is not.
Answers == {[fit |-> "strong", level |-> "matched"], [fit |-> "strong", level |-> "beginner"]}
Before == [first_ever_application |-> 2]
Alike == Permutations(Request)

Been(n, m, k) == [completions |-> n, assignments |-> m, abandons |-> k]
Veteran == u1 :> Been(0, 0, 0) @@ u2 :> Been(3, 3, 0)
===============================================================================
