------------------------------ MODULE MCReview ------------------------------
(* What the reviewers of two subtasks and of the whole change may say.     *)
EXTENDS Review

CONSTANTS s1, s2

Finding(severity, message) == [severity |-> severity, message |-> message]
V(approved, found) == [approved |-> approved, findings |-> found, kind |-> "verdict"]

Major == Finding("major", "broken")
Nit   == Finding("nit", "name")

TwoSubtasks == {s1, s2}

\* Nothing tells one subtask from the other.
Symmetric == Permutations(TwoSubtasks)

\* Rejected, approved with a remark, rejected without a reason.
Meant == {V(FALSE, {Major}), V(TRUE, {Nit}), V(FALSE, {})}

\* Nothing, prose, a diff, an example of a verdict, a block that quotes nothing.
Before == {<<>>, <<Prose>>, <<OpenOther, Prose, Bare>>, Block(V(TRUE, {})) \o <<Prose>>,
           <<OpenYAML, Bare>>}

\* Nothing at all, no block, one cut off, two verdicts or prose in one block, an
\* unknown severity, no message, a verdict before the last block.
Bad ==
  {<<>>, <<Prose>>, <<Prose, OpenYAML, YAML(V(TRUE, {}))>>,
   <<OpenYAML, YAML(V(TRUE, {})), YAML(V(FALSE, {})), Bare>>, <<OpenYAML, Prose, Bare>>,
   Block(V(FALSE, {Finding("critical", "broken")})), Block(V(TRUE, {Finding("nit", "")})),
   Block(V(TRUE, {})) \o <<OpenYAML, Prose, Bare>>}

\* All keep to the contract, the hypothesis of the theorems of ReviewProofs, and are
\* understood, which follows.
ASSUME AnswersAssumption == Contract /\ Understood
=============================================================================
