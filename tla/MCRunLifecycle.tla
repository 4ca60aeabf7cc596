--------------------------- MODULE MCRunLifecycle ---------------------------
(* Small plans for RunLifecycle.                                           *)
EXTENDS RunLifecycle, TLC

CONSTANTS a, b

\* b needs a.
ChainSubtasks == {a, b}
ChainDeps     == a :> {} @@ b :> {a}
ChainPosition == a :> 1 @@ b :> 2
NoOverlap     == {}
=============================================================================
