----------------------------- MODULE MCAnalytics -----------------------------
(* Small instances of Analytics for TLC. *)
EXTENDS Analytics, TLC

CONSTANTS u1, u2
SomeRoles == (u1 :> "analyst")

\* Situations have a severity, a count of detections and the entities; cases do not.
Situations == {"severity", "entity", "status"}
SomeDatasets == ("situations" :> Situations) @@ ("cases" :> {"status"})
SomeText == {"status"}
OneInAnother == {<<1, 1>>, <<2, 2>>, <<2, 1>>}
SomeSpans == ("hour" :> 2) @@ ("day" :> 4)

Situation(severity, entities) == [dataset |-> "situations", severity |-> severity,
                                  status |-> None, entity |-> entities]
SomeRows == {Situation(2, {1})}
Query(stages) == [dataset |-> "situations", stages |-> stages]
Severe == Is("severity", ">=", 2)
Known == Is("entity", "=", 1)
Listing == Query(<<Where({Severe, Known}), TheFirst(1)>>)
Failing == Query(<<Stats("sum", Unspecified, "entity")>>)
Grouping == Query(<<Where({Severe}), Stats("count", Unspecified, "severity")>>)
Charting == Query(<<Where({Severe}), Timechart("hour", "count", Unspecified)>>)
Unknown == Query(<<Where({Is("host", "=", 1)})>>)
Counting == Query(<<Where({Severe}), Stats("count", Unspecified, Unspecified)>>)
SomeQueries == {Listing, Failing, Grouping, Charting, Unknown}
JustCounting == {Counting}

\* A search, two rules over it and a dashboard that shows it are there.
Given == [there |-> "yes", owner |-> u1, shared |-> TRUE]
SearchOf(query) == Given @@ [query |-> query, preset |-> 0]
RuleOf(threshold) == Given @@ [search |-> "s1", threshold |-> threshold, enabled |-> TRUE]
SomeContent == ("s1" :> SearchOf(Listing)) @@ ("r1" :> RuleOf(1)) @@ ("d1" :> Given)
CountingContent == ("s1" :> SearchOf(Counting)) @@ ("r1" :> RuleOf(1))
SomePanels == "d1" :> {"s1"}
NoPanels == <<>>
=============================================================================
