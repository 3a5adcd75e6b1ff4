------------------------------ MODULE Correlation ------------------------------
(***************************************************************************)
(* Which situation a detection belongs to: orchestrator/situation.py.      *)
(*                                                                         *)
(* An intake stores a detection, reads the situations it may join, asks    *)
(* which of them are frozen, places the detection (in the best match or    *)
(* in a situation it opens), folds the other matches into that one, and    *)
(* derives the aggregates of the situation from its members again.  Each   *)
(* of these is a session or a statement of its own; intakes are coroutines *)
(* and any other intake may commit between two of them.                    *)
(*                                                                         *)
(* A situation has the name of the detection it was opened for.  Entities  *)
(* are the joinable keys of a detection, case-folded; scores, titles and   *)
(* the vendor's fields are left out.                                       *)
(***************************************************************************)
EXTENDS Integers, Sequences, FiniteSets

CONSTANTS
    Detections,             \* the detections that may arrive
    Entities,               \* values in a joinable namespace
    NoSituation,            \* the column situation_id is NULL
    CORRELATION_WINDOW_MINUTES,
    SITUATION_MAX_MEMBERS,
    MaxTime,                \* bound: detected_at is in 0..MaxTime
    MaxIntakes,             \* intakes in progress at once
    MaxProposals,           \* bound: situations that are analysed
    MaxFailures             \* bound: intakes that do not run to their end

ASSUME CorrelationAssumption ==
    /\ IsFiniteSet(Detections) /\ NoSituation \notin Detections
    /\ CORRELATION_WINDOW_MINUTES \in Nat \ {0}
    /\ SITUATION_MAX_MEMBERS \in Nat \ {0, 1}
    /\ MaxTime \in Nat /\ MaxIntakes \in Nat
    /\ MaxProposals \in Nat /\ MaxFailures \in Nat

VARIABLES
    det,        \* the rows of detections
    sit,        \* the rows of situations; status "NONE": not inserted
    decision,   \* of the alert attached to the situation; "none": no alert
    intake,     \* the coroutine correlate(d)
    failures    \* intakes that ended with an exception or with the process

vars == <<det, sit, decision, intake, failures>>

Times == 0..MaxTime
Row == [status : {"NONE", "OPEN", "MERGED"},
        merged_into : Detections \cup {NoSituation},
        first_seen : Times, last_seen : Times,
        detection_count : Nat, entities : SUBSET Entities]
NoRow == [status |-> "NONE", merged_into |-> NoSituation,
          first_seen |-> 0, last_seen |-> 0, detection_count |-> 0, entities |-> {}]

\* seen: candidate_rows; chosen: chosen_id; targets: to_merge, then the rows
\* of them still open; alerted: the targets whose row had an alert; members:
\* what recompute has read.
NotStarted == [pc |-> "none", seen |-> <<>>, chosen |-> NoSituation,
               targets |-> {}, alerted |-> {}, members |-> {}]
Ended == {"none", "done", "dead"}

Init ==
    /\ det = [d \in Detections |->
                 [stored |-> FALSE, entities |-> {}, detected_at |-> 0,
                  home |-> NoSituation]]
    /\ sit = [s \in Detections |-> NoRow]
    /\ decision = [s \in Detections |-> "none"]
    /\ intake = [d \in Detections |-> NotStarted]
    /\ failures = 0

InProgress == {d \in Detections : intake[d].pc \notin Ended}
Members(s) == {d \in Detections : det[d].home = s}

------------------------------------------------------------------------------
(* correlate *)

\* The detection is stored, in no situation yet, and that is committed.
Receive(d) ==
    /\ intake[d].pc = "none"
    /\ Cardinality(InProgress) < MaxIntakes
    /\ \E keys \in SUBSET Entities, at \in Times :
           /\ det' = [det EXCEPT ![d] = [stored |-> TRUE, entities |-> keys,
                                         detected_at |-> at, home |-> NoSituation]]
           /\ intake' = [intake EXCEPT ![d].pc = IF keys = {} THEN "place" ELSE "look"]
    /\ UNCHANGED <<sit, decision, failures>>

\* Mutants of IsCandidate: merged rows too, and the window open to one side.
IsCandidateAnyStatus(d, s) ==
    /\ sit[s].status # "NONE"
    /\ sit[s].detection_count < SITUATION_MAX_MEMBERS
    /\ sit[s].last_seen >= det[d].detected_at - CORRELATION_WINDOW_MINUTES
    /\ sit[s].first_seen <= det[d].detected_at + CORRELATION_WINDOW_MINUTES
IsCandidateSince(d, s) ==
    /\ sit[s].status = "OPEN"
    /\ sit[s].detection_count < SITUATION_MAX_MEMBERS
    /\ sit[s].last_seen >= det[d].detected_at - CORRELATION_WINDOW_MINUTES

\* OPEN, with room for one more, and within the window of the detection.
IsCandidate(d, s) ==
    /\ sit[s].status = "OPEN"
    /\ sit[s].detection_count < SITUATION_MAX_MEMBERS
    /\ sit[s].last_seen >= det[d].detected_at - CORRELATION_WINDOW_MINUTES
    /\ sit[s].first_seen <= det[d].detected_at + CORRELATION_WINDOW_MINUTES

ReadCandidates(d) ==
    /\ intake[d].pc = "look"
    /\ intake' = [intake EXCEPT ![d] = [@ EXCEPT
           !.seen = [s \in {c \in Detections : IsCandidate(d, c)} |-> sit[s]],
           !.pc = "choose"]]
    /\ UNCHANGED <<det, sit, decision, failures>>

\* Mutant of Shared: any entity of the situation will do.
SharedAny(d, s) == IF det[d].entities = {} THEN {} ELSE intake[d].seen[s].entities

Shared(d, s) == det[d].entities \cap intake[d].seen[s].entities

\* A decision that is no longer a machine's proposal freezes its situation.
Frozen(s) == decision[s] \in {"corrected", "settled", "SUPERSEDED"}

\* Most shared entities first, then the oldest; the rest is the table's order.
Before(d, s, t) ==
    \/ Cardinality(Shared(d, s)) > Cardinality(Shared(d, t))
    \/ /\ Cardinality(Shared(d, s)) = Cardinality(Shared(d, t))
       /\ intake[d].seen[s].first_seen <= intake[d].seen[t].first_seen

Rankings(d, matches) ==
    {r \in [1..Cardinality(matches) -> matches] :
        \A i, j \in DOMAIN r : i < j => r[i] # r[j] /\ Before(d, r[i], r[j])}

\* What is left of the cap after r[1] and the new detection, and after each
\* match that still fits is taken in.
Room(d, r) ==
    LET count(i) == intake[d].seen[r[i]].detection_count
        room[i \in 1..Len(r)] ==
            IF i = 1 THEN SITUATION_MAX_MEMBERS - count(1) - 1
            ELSE room[i - 1] - (IF count(i) <= room[i - 1] THEN count(i) ELSE 0)
    IN  room

\* Mutant of Absorbed: no merging.
AbsorbedNone(d, r) == {}

Absorbed(d, r) ==
    {r[i] : i \in {k \in 2..Len(r) :
                      intake[d].seen[r[k]].detection_count <= Room(d, r)[k - 1]}}

\* _partition_candidates, and the choice made from its answer.
Choose(d) ==
    /\ intake[d].pc = "choose"
    /\ LET matches == {s \in DOMAIN intake[d].seen : Shared(d, s) # {} /\ ~Frozen(s)}
       IN  \E r \in Rankings(d, matches) :
               intake' = [intake EXCEPT ![d] = [@ EXCEPT
                   !.chosen = IF matches = {} THEN NoSituation ELSE r[1],
                   !.targets = IF matches = {} THEN {} ELSE Absorbed(d, r),
                   !.seen = <<>>,
                   !.pc = "place"]]
    /\ UNCHANGED <<det, sit, decision, failures>>

\* The situation, if a new one is opened, and the place of the detection.
Place(d) ==
    /\ intake[d].pc = "place"
    /\ LET chosen == IF intake[d].chosen = NoSituation THEN d ELSE intake[d].chosen
           at == det[d].detected_at
       IN  /\ sit' = IF chosen = d
                     THEN [sit EXCEPT ![d] = [NoRow EXCEPT !.status = "OPEN",
                                                 !.first_seen = at, !.last_seen = at]]
                     ELSE sit
           /\ det' = [det EXCEPT ![d].home = chosen]
           /\ intake' = [intake EXCEPT ![d] = [@ EXCEPT
                  !.chosen = chosen,
                  !.pc = IF intake[d].targets = {} THEN "measure" ELSE "load"]]
    /\ UNCHANGED <<decision, failures>>

------------------------------------------------------------------------------
(* merge_situations *)

Load(d) ==
    /\ intake[d].pc = "load"
    /\ LET open == {s \in intake[d].targets \ {intake[d].chosen} : sit[s].status = "OPEN"}
       IN  intake' = [intake EXCEPT ![d] = [@ EXCEPT
                  !.targets = open,
                  !.alerted = {s \in open : decision[s] # "none"},
                  !.pc = "absorb"]]
    /\ UNCHANGED <<det, sit, decision, failures>>

\* Mutants of Moved: the detections stay, or only those that share something
\* with d go along.
MovedNone(d, e) == det[e]
MovedIfShared(d, e) ==
    IF det[e].home \in intake[d].targets /\ det[e].entities \cap det[d].entities # {}
    THEN [det[e] EXCEPT !.home = intake[d].chosen] ELSE det[e]

\* Where the detections of a situation go, and what its row then says.
Moved(d, e) ==
    IF det[e].home \in intake[d].targets
    THEN [det[e] EXCEPT !.home = intake[d].chosen] ELSE det[e]

MarkedMerged(d, s) ==
    IF s \in intake[d].targets
    THEN [sit[s] EXCEPT !.status = "MERGED", !.merged_into = intake[d].chosen] ELSE sit[s]

\* approval_status is PENDING: a correction does not change it.
Pending == {"PENDING", "corrected"}

\* Detections move, rows are marked, proposals are overtaken: one commit.
Absorb(d) ==
    /\ intake[d].pc = "absorb"
    /\ det' = [e \in Detections |-> Moved(d, e)]
    /\ sit' = [s \in Detections |-> MarkedMerged(d, s)]
    /\ decision' = [s \in Detections |->
                       IF s \in intake[d].alerted /\ decision[s] \in Pending
                       THEN "SUPERSEDED" ELSE decision[s]]
    /\ intake' = [intake EXCEPT ![d] = [@ EXCEPT
                  !.targets = {}, !.alerted = {}, !.pc = "measure"]]
    /\ UNCHANGED failures

------------------------------------------------------------------------------
(* recompute *)

\* A situation whose detections have moved away is left as it is.
Measure(d) ==
    /\ intake[d].pc = "measure"
    /\ intake' = [intake EXCEPT ![d] = [@ EXCEPT
           !.members = Members(intake[d].chosen),
           !.pc = IF Members(intake[d].chosen) = {} THEN "done" ELSE "update"]]
    /\ UNCHANGED <<det, sit, decision, failures>>

\* The first and the last to be seen of the members.
Spans(members) ==
    {span \in members \X members :
        \A e \in members : /\ det[span[1]].detected_at <= det[e].detected_at
                           /\ det[e].detected_at <= det[span[2]].detected_at}

\* The row with the aggregates of its members.
Derived(row, members, span) ==
    [row EXCEPT !.detection_count = Cardinality(members),
                !.entities = UNION {det[e].entities : e \in members},
                !.first_seen = det[span[1]].detected_at,
                !.last_seen = det[span[2]].detected_at]

Update(d) ==
    /\ intake[d].pc = "update"
    /\ \E span \in Spans(intake[d].members) :
           sit' = [sit EXCEPT ![intake[d].chosen] = Derived(@, intake[d].members, span)]
    /\ intake' = [intake EXCEPT ![d] = [@ EXCEPT !.members = {}, !.pc = "done"]]
    /\ UNCHANGED <<det, decision, failures>>

\* A statement raises, or the process dies: what was committed stays.
Fail(d) ==
    /\ d \in InProgress
    /\ failures < MaxFailures
    /\ failures' = failures + 1
    /\ intake' = [intake EXCEPT ![d] = [NotStarted EXCEPT !.pc = "dead"]]
    /\ UNCHANGED <<det, sit, decision>>

------------------------------------------------------------------------------
(* What happens to a situation elsewhere, in module Tier2 *)

\* The analysis that a finished intake asked for attaches an alert and
\* proposes a plan; it does not look whether the situation was merged.
Propose(s) ==
    /\ \E d \in Detections : intake[d].pc = "done" /\ intake[d].chosen = s
    /\ decision[s] = "none"
    /\ Cardinality({t \in Detections : decision[t] # "none"}) < MaxProposals
    /\ decision' = [decision EXCEPT ![s] = "PENDING"]
    /\ UNCHANGED <<det, sit, intake, failures>>

\* A person corrects the plan.
Revise(s) ==
    /\ decision[s] = "PENDING"
    /\ decision' = [decision EXCEPT ![s] = "corrected"]
    /\ UNCHANGED <<det, sit, intake, failures>>

\* A person, or the autopilot, approves or rejects it.
Settle(s) ==
    /\ decision[s] \in Pending
    /\ decision' = [decision EXCEPT ![s] = "settled"]
    /\ UNCHANGED <<det, sit, intake, failures>>

Correlate(d) == \/ Receive(d) \/ ReadCandidates(d) \/ Choose(d) \/ Place(d)
                \/ Load(d) \/ Absorb(d) \/ Measure(d) \/ Update(d)

Next == \/ \E d \in Detections : Correlate(d) \/ Fail(d)
        \/ \E s \in Detections : Propose(s) \/ Revise(s) \/ Settle(s)

Spec == Init /\ [][Next]_vars

------------------------------------------------------------------------------
(* Properties *)

\* Every variable stays in its domain.
TypeOK ==
    /\ det \in [Detections -> [stored : BOOLEAN, entities : SUBSET Entities,
                               detected_at : Times,
                               home : Detections \cup {NoSituation}]]
    /\ sit \in [Detections -> Row]
    /\ decision \in [Detections -> {"none", "PENDING", "corrected", "settled", "SUPERSEDED"}]
    /\ \A d \in Detections :
           /\ intake[d].pc \in Ended \cup {"look", "choose", "place", "load",
                                           "absorb", "measure", "update"}
           /\ intake[d].chosen \in Detections \cup {NoSituation}
           /\ intake[d].targets \subseteq Detections
           /\ intake[d].alerted \subseteq Detections
           /\ intake[d].members \subseteq Detections
           /\ DOMAIN intake[d].seen \subseteq Detections
    /\ failures \in 0..MaxFailures

Placed == {d \in Detections : det[d].home # NoSituation}
Quiet == InProgress = {}

\* situation_metrics (situation.py:928): "a merged situation holds no detections
\* any more".  Every placed detection is in a situation that is OPEN.
NothingStrays == \A d \in Placed : sit[det[d].home].status = "OPEN"

Alike(d, e) == det[d].entities \cap det[e].entities # {}

\* Detections are tied together by the entities they share, through others of
\* them, when they cannot be parted without parting two that share one.
Tied(E) == \A A \in SUBSET E : A # {} /\ A # E => \E d \in A, e \in E \ A : Alike(d, e)

\* The members of one situation are tied together by entities they share: no
\* situation is built out of coincidence (situation.py:84-86).
MembersAreTied == \A s \in Detections : Tied(Members(s))

\* Everything known lies within one window and fits into one situation, no
\* intake was cut short and nobody has settled anything.
OneIntrusion ==
    /\ Quiet /\ failures = 0
    /\ \A d, e \in Placed :
           det[d].detected_at - det[e].detected_at <= CORRELATION_WINDOW_MINUTES
    /\ Cardinality(Placed) <= SITUATION_MAX_MEMBERS
    /\ \A s \in Detections : decision[s] \notin {"corrected", "settled"}

\* "Two situations that share an entity are one situation" (merge_situations):
\* then two detections that share one are in one situation, and so are all
\* that are tied together through others, whatever the order they came in.
\* With MembersAreTied, situations are exactly what entities tie together.
SituationsAreIntrusions ==
    OneIntrusion => \A d, e \in Placed : Alike(d, e) => det[d].home = det[e].home

\* Every member of a situation was seen within the window of another one: no
\* stretch of silence longer than the window inside a situation.
NoLongSilence ==
    \A d, e \in Placed :
        det[d].home = det[e].home /\ det[d].detected_at < det[e].detected_at =>
            \E f \in Members(det[d].home) :
                /\ det[d].detected_at < det[f].detected_at
                /\ det[f].detected_at <= det[d].detected_at + CORRELATION_WINDOW_MINUTES

\* A merge says once where the detections went (schema.py:256): the row of a
\* merged situation is never written again.
MergedIsHistory ==
    [][\A s \in Detections : sit[s].status = "MERGED" => sit'[s] = sit[s]]_vars

\* Correlation only ever brings detections together: two that are in one
\* situation are in one situation ever after.
TogetherForever ==
    [][\A d, e \in Placed :
           det[d].home = det[e].home => det'[d].home = det'[e].home]_vars

==============================================================================
