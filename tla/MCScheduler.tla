---------------------------- MODULE MCScheduler ----------------------------
(* Small plans for Scheduler.                                              *)
EXTENDS Scheduler, TLC

CONSTANTS a, b, c

\* c needs a; b is independent of both but may touch the same files as c.
ForkSubtasks == {a, b, c}
ForkDeps     == a :> {} @@ b :> {} @@ c :> {a}
ForkPosition == a :> 1 @@ b :> 2 @@ c :> 3
ForkOverlap  == {<<b, c>>, <<c, b>>}
=============================================================================
