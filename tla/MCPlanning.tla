----------------------------- MODULE MCPlanning -----------------------------
(* Answers of a planner, and a small tree, for Planning.                   *)
EXTENDS Planning

\* b, ab, aab, abab, a/b, a/ab, a/a/b, ba/b, ba/a/ab
a   == <<"a">>
b   == <<"b">>
ab  == <<"a", "b">>
ba  == <<"b", "a">>
SmallTree == {<<b>>, <<ab>>, <<<<"a", "a", "b">>>>, <<ab \o ab>>, <<a, b>>, <<a, ab>>,
              <<a, a, b>>, <<ba, b>>, <<ba, a, ab>>}

AnyName == <<"*">>
Segment == {a, b, ab, ba, AnyName, DoubleStar, <<"?">>, <<"a", "*">>, <<"*", "b">>,
            <<"*", "a", "*", "b">>, <<"a", "?">>, <<"?", "*", "b">>}
Short   == {<<s>> : s \in Segment}
Deep    == {<<a, b>>, <<a, AnyName>>, <<ba, DoubleStar>>, <<DoubleStar, b>>, <<AnyName, b>>,
            <<a, DoubleStar, b>>, <<DoubleStar, a, <<"*", "b">> >>, <<AnyName, AnyName, b>>,
            <<DoubleStar, DoubleStar>>, <<ba, <<"?">>, ab>>, <<a, ba>>}
\* ./a/b  ././b  a/  a//b  ./  .  a/../b  ../b  ba/**/../b  a/**/  and the empty one
Odd     == {<<Dot, a, b>>, <<Dot, Dot, b>>, <<a, <<>>>>, <<a, <<>>, b>>, <<Dot, <<>>>>, <<Dot>>,
            <<a, DotDot, b>>, <<DotDot, b>>, <<ba, DoubleStar, DotDot, b>>,
            <<a, DoubleStar, <<>>>>, << <<>> >>}

Bundle(entries) ==
  <<Prose(0), Marker("plan"), Prose(1), Blank, Marker("context"), Prose(2),
    Marker("manualTesting"), Prose(3), Marker("subtasks")>>
  \o [i \in DOMAIN entries |-> Entry(entries[i])] \o <<Blank>>

Sub(id, deps, globs) == [id |-> id, deps |-> deps, files |-> globs, complete |-> TRUE]

Ids == {"s1", "s2", "s3"}
Graphs ==
  {<<Sub("s1", SetToSeq(d["s1"] \ {"s1"}), {}), Sub("s2", Reverse(SetToSeq(d["s2"] \ {"s2"})), {}),
     Sub("s3", SetToSeq(d["s3"] \ {"s2", "s3"}), {})>> : d \in [Ids -> SUBSET Ids]}
Names == <<"s1", "s2", "s3", "s4", "s5", "s6", "s7", "s8">>
Plan(patterns) == [i \in DOMAIN patterns |-> Sub(Names[i], <<>>, patterns[i])]
Others == <<{<<b>>}, {<<a>>}, {<<AnyName>>}, {<<a, b>>}, {<<ba, DoubleStar>>}, {<<DoubleStar, b>>},
            {<<Dot, a, b>>, <<ba>>}>>
Apart  == {Plan(<<{p}>> \o Others) : p \in Deep \cup Odd}
Alone  == {Plan(<<{p, <<ba>>}, {}>>) : p \in Short \cup Deep \cup Odd}

\* A ring and a diamond of four, a dangling dependency, one id twice, no title,
\* a self-dependency, no subtasks.
Lists ==
  {<<Sub("s1", <<"s2">>, {}), Sub("s2", <<"s3">>, {}), Sub("s3", <<"s4">>, {}), Sub("s4", <<"s2">>, {})>>,
   <<Sub("s1", <<"s2", "s3">>, {}), Sub("s2", <<"s4">>, {}), Sub("s3", <<"s4">>, {}), Sub("s4", <<>>, {})>>,
   <<Sub("s1", <<"s9">>, {})>>, <<Sub("s1", <<"s1">>, {})>>, <<Sub("s1", <<>>, {}), Sub("s1", <<>>, {})>>,
   <<[Sub("s1", <<>>, {}) EXCEPT !.complete = FALSE]>>, <<>>}

\* Nothing; no markers; a document short; prose in the list; documents named twice
\* (the last one counts) and unknown.
Rough ==
  LET good == Bundle(<<Sub("s1", <<>>, {<<a>>})>>)
  IN  {<<>>, <<Prose(1), Prose(2)>>, SubSeq(good, 1, 8), good \o <<Prose(4)>>,
       good \o <<Blank, Marker("appendix"), Prose(5)>>,
       good \o <<Marker("subtasks"), Prose(6)>>,
       <<Marker("subtasks"), Prose(6)>> \o good}

Anything  == Rough \cup {Bundle(list) : list \in Graphs \cup Apart \cup Alone \cup Lists}
Again     == {<<Prose(1)>>, Bundle(<<Sub("s1", <<"s1">>, {})>>),
              Bundle(<<Sub("s2", <<>>, {<<a, b>>}), Sub("s1", <<"s2">>, {})>>)}
BothModes == BOOLEAN

\* What the theorems about the matcher and about what is declared suppose.
ASSUME NamesAssumption == NoStars /\ NoBrackets
=============================================================================
