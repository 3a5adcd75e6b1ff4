------------------------------ MODULE MCCaseSync ------------------------------
(* Small instances of CaseSync for TLC. *)
EXTENDS CaseSync

\* What people do to a ticket: close it, reopen and hand it over in one change,
\* move it to a stage that maps to nothing, or leave a note.
SomeEdits ==
    {[state |-> "CLOSED", owner |-> Unsaid, note |-> FALSE],
     [state |-> "REOPENED", owner |-> "ann", note |-> FALSE],
     [state |-> "unmapped", owner |-> Unsaid, note |-> TRUE]}
OneEdit == {[state |-> "CLOSED", owner |-> Unsaid, note |-> FALSE]}

KindsAll == AllKinds
Pairs == {{k, l} : k, l \in AllKinds}
\* Whatever changes a case, and whatever speaks to the system of record, is
\* one at a time; the two overlap.
EditsOverlapPushes ==
    {{k, "push"} : k \in {"assign", "state", "escalate", "analyse"}}
AnyOverlap == Pairs
NoOverlap == {}
=============================================================================
