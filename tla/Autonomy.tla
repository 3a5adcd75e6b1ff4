------------------------------- MODULE Autonomy -------------------------------
(***************************************************************************)
(* What executes without a person: the autopilot, the precedents it        *)
(* consults and how people's decisions become precedents                   *)
(* (tier2/autopilot.py, precedent.py, tier2/human.py).                     *)
(*                                                                         *)
(* Every situation has one decision.  An operation of a person on a        *)
(* decision is one step here; Tier2 takes them apart.  The autopilot's     *)
(* pass is not: it judges what an analysis handed it, and approves later.  *)
(* (A decision that a merge superseded never settles: here it stays        *)
(* PENDING.)                                                               *)
(***************************************************************************)
EXTENDS ActionPolicy

CONSTANTS
    Situations,
    Verdicts,         \* DECISION_TYPES
    Executable,       \* AUTOPILOT_DECISIONS
    Features,         \* what similarity compares, [Situations -> features]
    Plans,            \* plans the model comes up with: sets of actions
    SiteFiles,        \* what the site's two files may hold, [assets, identities]
    RequirePrecedent, \* TIER2_AUTOPILOT_REQUIRE_PRECEDENT
    MinPrecedents, Similarity, StalenessDays, \* the gate
    CandidatePool,    \* decisions that retrieval looks at
    Take,             \* cases that retrieval returns to the gate
    FeedbackDays,     \* the feedback window
    Reports,          \* the outcomes people report
    MaxPasses,        \* bound: passes of the autopilot at a time
    MaxLabels,        \* bound: decisions corrected or reported on
    MaxDay            \* bound: days

VARIABLES
    decision, \* table tier2_decisions, by situation
    label,    \* tables decision_corrections and decision_outcomes: the newest of each
    pass,     \* the autopilot's pass over each decision
    site,     \* the site's files
    today

vars == <<decision, label, pass, site, today>>

Outcomes == {"TRUE_POSITIVE", "FALSE_POSITIVE", "REOPENED"}

ASSUME AutonomyAssumption ==
    /\ IsFiniteSet(Situations) /\ IsFiniteSet(Verdicts) /\ Verdicts # {}
    /\ Executable \subseteq Verdicts
    /\ RequirePrecedent \in BOOLEAN
    /\ {MinPrecedents, CandidatePool, Take, MaxPasses} \subseteq Nat \ {0}
    /\ {Similarity, StalenessDays, FeedbackDays, MaxDay, MaxLabels} \subseteq Nat
    /\ Reports \subseteq Outcomes
    /\ \A plan \in Plans : \A action \in plan : action.verb \in Verbs /\ action.target \in Targets
    /\ SiteFiles # {}

Days == 0 .. MaxDay
Statuses == {"none", "PENDING", "APPROVED", "DONE", "REJECTED"}
Approvers == {"nobody", "analyst", "autopilot"}
Decision == [status : Statuses, verdict : Verdicts, source : {"machine", "human"},
             by : Approvers, basis : SUBSET Situations, created : Days, settled : Days]
Label == [corrected : BOOLEAN, changed : BOOLEAN, verdict : Verdicts,
          outcome : Outcomes \cup {"none"}]
Pass == [at : {"idle", "asked", "cleared"}, verdict : Verdicts, plan : Plans \cup {{}},
         basis : SUBSET Situations]

AnyVerdict == CHOOSE v \in Verdicts : TRUE
Nothing == [status |-> "none", verdict |-> AnyVerdict, source |-> "machine", by |-> "nobody",
            basis |-> {}, created |-> 0, settled |-> 0]
Unlabelled == [corrected |-> FALSE, changed |-> FALSE, verdict |-> AnyVerdict, outcome |-> "none"]
Idle == [at |-> "idle", verdict |-> AnyVerdict, plan |-> {}, basis |-> {}]

Init ==
    /\ decision = [s \in Situations |-> Nothing]
    /\ label = [s \in Situations |-> Unlabelled]
    /\ pass = [s \in Situations |-> Idle]
    /\ site \in SiteFiles
    /\ today = 0

-----------------------------------------------------------------------------
(* Similarity, in tenths of a point: a share of each weight                *)

Points(part, whole, weight) == IF whole = 0 THEN 0 ELSE (20 * weight * part + whole) \div (2 * whole)
Jaccard(a, b, weight) ==
    Points(IF a = {} \/ b = {} THEN 0 ELSE Cardinality(a \cap b), Cardinality(a \cup b), weight)
Overlap(a, b, weight) ==
    LET less == IF Cardinality(a) <= Cardinality(b) THEN a ELSE b IN
    Points(Cardinality(a \cap b), Cardinality(less), weight)
Shape(entities) == {e[1] : e \in entities}
Apart(m, n) == IF m <= n THEN n - m ELSE m - n
\* score_similarity; a precedent is described by its analysis too, the query by
\* its title alone.
Score(query, case) ==
    LET tenths == Overlap(query.techniques, case.techniques, 30)
                  + Jaccard(query.title, case.title \cup case.analysis, 20)
                  + Jaccard(query.sources, case.sources, 15)
                  + Overlap(query.entities, case.entities, 15)
                  + Jaccard(Shape(query.entities), Shape(case.entities), 10)
                  + Points(3 - Apart(query.severity, case.severity), 3, 10)
    IN (tenths + 5) \div 10
Alike == [s \in Situations, t \in Situations |-> Score(Features[s], Features[t])]

-----------------------------------------------------------------------------
(* Retrieval                                                               *)

Settled == {"APPROVED", "DONE", "REJECTED"}
Corpus(s) == {t \in Situations \ {s} : decision[t].status \in Settled}
\* _resolution, and a correction confirms whatever became of the decision.
\* (mutant: an approval is an approval)
ConfirmedByAny(t) == label[t].corrected \/ decision[t].by # "nobody"
Confirmed(t) == label[t].corrected \/ decision[t].by = "analyst"
CaseVerdict(t) == IF label[t].corrected THEN label[t].verdict ELSE decision[t].verdict
\* (mutant: what came back was not wrong)
ReversedIfFalse(t) == \/ label[t].outcome = "FALSE_POSITIVE"
                      \/ label[t].corrected /\ label[t].changed
Reversed(t) == \/ label[t].outcome \in {"FALSE_POSITIVE", "REOPENED"}
               \/ label[t].corrected /\ label[t].changed
Age(t) == today - decision[t].created

\* The candidates are the newest, and of those that are similar enough the most
\* similar are returned, the youngest first; ties may go either way.
TakesFirst(chosen, from, n) ==
    /\ chosen \subseteq from
    /\ Cardinality(chosen) = IF Cardinality(from) <= n THEN Cardinality(from) ELSE n
Pools(s) == {pool \in SUBSET Corpus(s) :
               /\ TakesFirst(pool, Corpus(s), CandidatePool)
               /\ \A t \in pool, u \in Corpus(s) \ pool : decision[t].created >= decision[u].created}
Retrieved(s, pool) ==
    LET similar == {t \in pool : Alike[s, t] >= Similarity}
        Before(t, u) == \/ Alike[s, t] > Alike[s, u]
                        \/ Alike[s, t] = Alike[s, u] /\ Age(t) <= Age(u)
    IN {top \in SUBSET similar :
          /\ TakesFirst(top, similar, Take)
          /\ \A t \in top, u \in similar \ top : Before(t, u)}

\* autopilot_precedent.
SameVerdict(cases, verdict) == {t \in cases : Confirmed(t) /\ CaseVerdict(t) = verdict}
Basis(cases, verdict) ==
    {t \in SameVerdict(cases, verdict) : Age(t) <= StalenessDays /\ ~Reversed(t)}
Supports(cases, verdict) ==
    /\ \A t \in SameVerdict(cases, verdict) : ~Reversed(t)
    /\ \A t \in cases : Confirmed(t) => CaseVerdict(t) = verdict
    /\ Cardinality(Basis(cases, verdict)) >= MinPrecedents

-----------------------------------------------------------------------------
(* Analyses and the autopilot                                              *)

\* An analysis decides or, while the decision is PENDING and no person has
\* corrected it, decides again; then the autopilot is asked about a PENDING
\* decision, on the verdict and the plan as they are now.  Only a verdict that
\* may be executed, of enough confidence, goes further.
Asks(s, verdict, plan, confident) ==
    pass' = [pass EXCEPT ![s] = IF confident /\ verdict \in Executable
                                THEN [at |-> "asked", verdict |-> verdict, plan |-> plan, basis |-> {}]
                                ELSE Idle]
Analyse(s, verdict, plan, confident) ==
    /\ pass[s].at = "idle" /\ decision[s].status \in {"none", "PENDING"}
    /\ Cardinality({t \in Situations : pass[t].at # "idle"}) < MaxPasses
    /\ \/ /\ decision[s].status = "none"
          /\ decision' = [decision EXCEPT ![s].status = "PENDING", ![s].verdict = verdict,
                                          ![s].created = today]
          /\ Asks(s, verdict, plan, confident)
       \/ /\ decision[s].status = "PENDING" /\ decision[s].source = "machine"
          /\ decision' = [decision EXCEPT ![s].verdict = verdict]
          /\ Asks(s, verdict, plan, confident)
       \/ /\ decision[s].status = "PENDING" /\ decision[s].source = "human"
          /\ Asks(s, decision[s].verdict, plan, confident)
          /\ UNCHANGED decision
    /\ UNCHANGED <<label, site, today>>

\* autopilot_if_eligible, up to the call of approve_tier2_decision: the plan
\* first, then the precedents.
Judge(s) ==
    /\ pass[s].at = "asked"
    /\ LET ask == pass[s] IN
       \E pool \in Pools(s) : \E cases \in Retrieved(s, pool) :
         pass' = [pass EXCEPT ![s] =
                    IF /\ AutopilotAllows(ask.plan, site)
                       /\ RequirePrecedent => Supports(cases, ask.verdict)
                    THEN [ask EXCEPT !.at = "cleared", !.basis = Basis(cases, ask.verdict)]
                    ELSE Idle]
    /\ UNCHANGED <<decision, label, site, today>>

\* approve_tier2_decision as the autopilot calls it: whatever is PENDING then.
AutopilotApproves(s) ==
    /\ pass[s].at = "cleared"
    /\ decision' = IF decision[s].status # "PENDING" THEN decision
                   ELSE [decision EXCEPT ![s].status = "APPROVED", ![s].by = "autopilot",
                                         ![s].basis = pass[s].basis, ![s].settled = today]
    /\ pass' = [pass EXCEPT ![s] = Idle]
    /\ UNCHANGED <<label, site, today>>

-----------------------------------------------------------------------------
(* People                                                                  *)

\* approve_tier2_decision and reject_tier2_decision as a person calls them.
\* (A rejection names who rejected, and leaves approved_by empty.)
Resolve(s, status) ==
    /\ decision[s].status = "PENDING"
    /\ decision' = [decision EXCEPT ![s].status = status, ![s].by = "analyst", ![s].settled = today]
    /\ UNCHANGED <<label, pass, site, today>>
MayLabel(s) == Cardinality({t \in Situations \ {s} : label[t] # Unlabelled}) < MaxLabels
\* edit_tier2_decision: a correction is stored whether the verdict, the plan or
\* only the text changed.
Edit(s, verdict) ==
    /\ decision[s].status = "PENDING"
    /\ MayLabel(s)
    /\ label' = [label EXCEPT ![s].corrected = TRUE, ![s].verdict = verdict,
                              ![s].changed = (verdict # decision[s].verdict)]
    /\ decision' = [decision EXCEPT ![s].verdict = verdict, ![s].source = "human"]
    /\ UNCHANGED <<pass, site, today>>
\* record_decision_outcome.
ReportOutcome(s, outcome) ==
    /\ decision[s].status \in {"DONE", "REJECTED"}
    /\ today - decision[s].settled <= FeedbackDays
    /\ MayLabel(s)
    /\ label' = [label EXCEPT ![s].outcome = outcome]
    /\ UNCHANGED <<decision, pass, site, today>>
\* An operator rewrites a file; it is read again when it is used next.
WriteFiles(files) ==
    /\ files # site
    /\ site' = files
    /\ UNCHANGED <<decision, label, pass, today>>

-----------------------------------------------------------------------------
(* The rest of the system, and time                                        *)

\* The plan ran, for good or ill (DONE, FAILED and SIMULATED alike).
Finish(s) ==
    /\ decision[s].status = "APPROVED"
    /\ decision' = [decision EXCEPT ![s].status = "DONE", ![s].settled = today]
    /\ UNCHANGED <<label, pass, site, today>>
NextDay ==
    /\ today < MaxDay
    /\ today' = today + 1
    /\ UNCHANGED <<decision, label, pass, site>>

Next ==
    \/ \E s \in Situations :
         \/ \E v \in Verdicts, p \in Plans, c \in BOOLEAN : Analyse(s, v, p, c)
         \/ Judge(s) \/ AutopilotApproves(s)
         \/ \E status \in {"APPROVED", "REJECTED"} : Resolve(s, status)
         \/ \E v \in Verdicts : Edit(s, v)
         \/ \E o \in Reports : ReportOutcome(s, o)
         \/ Finish(s)
    \/ \E f \in SiteFiles : WriteFiles(f)
    \/ NextDay

Spec == Init /\ [][Next]_vars

-----------------------------------------------------------------------------
(* Properties                                                              *)

\* Types, and what no step leaves out of step with the rest.
TypeOK ==
    /\ decision \in [Situations -> Decision]
    /\ label \in [Situations -> Label]
    /\ pass \in [Situations -> Pass]
    /\ site \in SiteFiles
    /\ today \in Days

ByMachine(s) == decision[s].by = "autopilot"
\* What a person has put a name to: an approval, a rejection, a correction.
PersonDecided(t) == decision[t].status \in Settled /\ (decision[t].by = "analyst" \/ label[t].corrected)

\* Autonomy does not feed on itself: behind every decision the machine approved
\* there are enough others that a person decided, on the machine's verdict, none
\* older than the window was that day - unless a person has written the verdict
\* of this one (precedent.py, rule 1 and autopilot_precedent).
EarnedByPeople ==
    RequirePrecedent =>
      \A s \in Situations : ByMachine(s) /\ ~label[s].corrected =>
        LET earned == {t \in decision[s].basis :
                         /\ t # s /\ PersonDecided(t)
                         /\ CaseVerdict(t) = decision[s].verdict
                         /\ decision[t].created >= decision[s].created - StalenessDays}
        IN Cardinality(earned) >= MinPrecedents

\* And those people agreed: none of them rejected the decision that is counted.
\* README: "human-confirmed with this same verdict".
PeopleAgreed ==
    \A s \in Situations : ByMachine(s) =>
      \A t \in decision[s].basis : decision[t].status # "REJECTED"

Clears(s) == pass[s].at = "asked" /\ pass'[s].at = "cleared"

\* A verdict that a person changed, or reported as wrong, on a situation like
\* this one, and that nobody has reported as right since, is not executed.
\* So is any other verdict than a person's (precedent.py, rule 2).
MistakesAreNotRepeated ==
    [][\A s, t \in Situations :
         /\ Clears(s) /\ RequirePrecedent
         /\ s # t /\ PersonDecided(t) /\ Alike[s, t] >= Similarity
         => /\ CaseVerdict(t) = pass[s].verdict
            /\ label[t].outcome \notin {"FALSE_POSITIVE", "REOPENED"}]_vars

\* What a keyword does, by itself: whether it disrupts, and whether it leaves
\* something behind that has no inverse.
Disrupts(word) == \E i \in DOMAIN Rules : word \in Rules[i].words /\ Disruptive(Rules[i].risk)
Irrevocable(word) == Disrupts(word) /\ word \notin Inverses \cup SelfLimiting
\* A machine never takes what cannot be taken back, and never disrupts what the
\* site's file, or without one the built-in patterns, set apart (F1, F2, F4).
WithinTheGuards ==
    [][\A s \in Situations : Clears(s) =>
         \A action \in pass[s].plan :
           /\ action.target \notin Protected
           /\ action.verb.phrasing = "plain"
           /\ \A word \in action.verb.words :
                /\ ~Irrevocable(word)
                /\ Disrupts(word) => /\ Criticality(site, action.target) # "CRITICAL"
                                     /\ IdentityRole(site, action.target) = "STANDARD"]_vars
=============================================================================
