--------------------------- MODULE MCWorkingTree ---------------------------
(* Small repositories for WorkingTree.                                     *)
EXTENDS WorkingTree, TLC

CONSTANTS a, b, shared, fresh, rules, env

\* `shared' has uncommitted edits, `fresh' is to be created, nobody declares
\* `rules', and the subtasks share a file or do not.
TwoSubtasks == {a, b}
TwoPaths    == {shared, fresh, rules}
TwoPlans    == {a :> {shared} @@ b :> {fresh}, a :> {shared} @@ b :> {shared, fresh}}
TwoTracked  == {shared, rules}
TwoHead  == shared :> {} @@ fresh :> NoFile @@ rules :> {}
TwoStart == [TwoHead EXCEPT ![shared] = {User}]

\* A file that is ignored until an agent changes the rules.
EnvPaths   == {shared, rules, env}
EnvPlan    == {a :> {shared} @@ b :> {rules}}
EnvTracked == {shared, rules}
EnvHead  == shared :> {} @@ rules :> {} @@ env :> NoFile
EnvStart == shared :> {User} @@ rules :> {} @@ env :> {User}
=============================================================================
