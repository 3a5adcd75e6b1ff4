------------------------------- MODULE Intake -------------------------------
(***************************************************************************)
(* From a detection to a decision: analysis.ingest_detection and the       *)
(* analysis that a job of the queue runs, analyze_situation.  The queue is *)
(* AnalysisQueue, step for step; here its callers have a detection to      *)
(* place before they submit, and a job that is being run goes through the  *)
(* commits of the analysis, each of them a step:                           *)
(*                                                                         *)
(*   load    get_situation: the detections and the alert there are now     *)
(*   model   the provider answers or raises                                *)
(*   record  the alert is rewritten, or inserted and then attached         *)
(*   decide  the decision is derived again, or created                     *)
(*   case    ensure_case                                                   *)
(*                                                                         *)
(* Abstracted: which situation correlation picks (Correlation.tla) is a    *)
(* choice among those it may touch; of what an analysis says only the      *)
(* detections it was said about are kept; what a person or the autopilot   *)
(* does to a decision (Tier2.tla) is that it is settled.                   *)
(***************************************************************************)
EXTENDS AnalysisQueue

CONSTANTS
    Detections,   \* detections that may arrive
    NoDetection,  \* a caller that carries none
    RetriesOverlap, \* TRUE iff an operator may requeue a dead letter while its
                  \* situation has another job or a detection on its way
    MaxAlerts     \* bound: rows of security_events

ASSUME IntakeAssumption ==
    MaxAlerts \in Nat /\ NoDetection \notin Detections /\ RetriesOverlap \in BOOLEAN

VARIABLES
    home,     \* situation_id of each detection
    carries,  \* the detection a caller has placed and not yet answered for
    alertOf,  \* situations.alert_id, 0 = none
    alert,    \* table security_events
    plan,     \* table tier2_decisions, by alert
    caseOf,   \* table cases: alert_id by situation, -1 = no case
    work,     \* where each run of an analysis stands, and what it has read
    excused   \* history: detections that came too late for the analysis under
              \* way when they were submitted, or whose caller died

records == <<home, alertOf, alert, plan, caseOf>>
intakeVars == <<vars, records, carries, work, excused>>

Alerts == 1 .. MaxAlerts
NoCase == -1
Runners == Workers \cup Callers

Alert == [sit : Situations \cup {NoSituation}, basis : SUBSET Detections]
NoAlert == [sit |-> NoSituation, basis |-> {}]
Plan == [state : {"none", "PENDING", "SETTLED"}, basis : SUBSET Detections]
NoPlan == [state |-> "none", basis |-> {}]

Stages == {"load", "model", "rebuild", "replan", "attach", "decide", "case", "done"}
Work == [at : Stages, basis : SUBSET Detections, alert : Alerts \cup {0}]
NoWork == [at |-> "load", basis |-> {}, alert |-> 0]

Members(s) == {d \in Detections : home[d] = s}
\* _partition_candidates: settled by a person or the autopilot.
IsFrozen(s) == alertOf[s] # 0 /\ plan[alertOf[s]].state = "SETTLED"

IntakeInit ==
    /\ Init
    /\ home = [d \in Detections |-> NoSituation]
    /\ carries = [c \in Callers |-> NoDetection]
    /\ alertOf = [s \in Situations |-> 0]
    /\ alert = [a \in Alerts |-> NoAlert]
    /\ plan = [a \in Alerts |-> NoPlan]
    /\ caseOf = [s \in Situations |-> NoCase]
    /\ work = [p \in Runners |-> NoWork]
    /\ excused = {}

-----------------------------------------------------------------------------
(* ingest_detection *)

\* correlate has committed.
Correlate(c, d, s) ==
    /\ up /\ proc[c].pc = "idle" /\ carries[c] = NoDetection /\ Room
    /\ home[d] = NoSituation /\ ~IsFrozen(s)
    /\ home' = [home EXCEPT ![d] = s]
    /\ carries' = [carries EXCEPT ![c] = d]
    /\ UNCHANGED <<vars, alertOf, alert, plan, caseOf, work, excused>>

Answers(c) == carries' = [carries EXCEPT ![c] = NoDetection]

SubmitPlaced(c) ==
    /\ carries[c] # NoDetection
    /\ Submit(c, home[carries[c]])
    /\ UNCHANGED <<records, carries, work, excused>>
LooksRunning(c) ==
    /\ EnqueueRunningRead(c)
    /\ UNCHANGED <<records, carries, work, excused>>
InsertsRunning(c) ==
    /\ EnqueueRunningInsert(c) /\ Answers(c)
    /\ UNCHANGED <<records, work, excused>>

\* Every outstanding job of the situation is being run, and has been loaded.
Loaded(j) == \E p \in Runners : RunsJob(p) /\ proc[p].job = j /\ work[p].at # "load"
Overtaken(s) == \A j \in JobIds : Outstanding(j) /\ jobs[j].sit = s => Loaded(j)
LooksOutstanding(c) ==
    /\ EnqueueRead(c)
    /\ IF HasOutstanding(proc[c].sit)
       THEN /\ Answers(c)
            /\ excused' = IF Overtaken(proc[c].sit) THEN excused \cup {carries[c]} ELSE excused
       ELSE UNCHANGED <<carries, excused>>
    /\ UNCHANGED <<records, work>>
InsertsPending(c) ==
    /\ EnqueueInsert(c) /\ Answers(c)
    /\ UNCHANGED <<records, work, excused>>

IngestStep(c) ==
    \/ SubmitPlaced(c) \/ LooksRunning(c) \/ InsertsRunning(c)
    \/ LooksOutstanding(c) \/ InsertsPending(c)

-----------------------------------------------------------------------------
(* analyze_situation, run by p for the situation of its job *)

Runs(p, at) == proc[p].pc = "analysing" /\ work[p].at = at
Onto(p, at) == work' = [work EXCEPT ![p].at = at]
InWork == UNCHANGED <<vars, home, carries, excused>>

\* run_analysis: get_situation.
\* (mutant: what a former run of this worker had loaded is still there)
LoadCached(p) ==
    /\ Runs(p, "load")
    /\ LET s == proc[p].sit IN
       work' = [work EXCEPT ![p] = [at |-> "model", alert |-> alertOf[s],
                                    basis |-> IF alertOf[s] # 0 THEN alert[alertOf[s]].basis
                                              ELSE Members(s)]]
    /\ InWork /\ UNCHANGED <<alertOf, alert, plan, caseOf>>
Load(p) ==
    /\ Runs(p, "load")
    /\ LET s == proc[p].sit IN
       work' = [work EXCEPT ![p] = [at |-> "model", basis |-> Members(s), alert |-> alertOf[s]]]
    /\ InWork /\ UNCHANGED <<alertOf, alert, plan, caseOf>>

\* The provider has answered and the situation has an alert: the alert is
\* rewritten, whatever became of its decision (update_security_event_analysis).
Rewrite(p) ==
    /\ Runs(p, "model") /\ work[p].alert # 0
    /\ alert' = [alert EXCEPT ![work[p].alert].basis = work[p].basis]
    /\ Onto(p, "rebuild")
    /\ InWork /\ UNCHANGED <<alertOf, plan, caseOf>>
\* rebuild_tier2_decision_for_alert, up to its write.
\* (mutant: a decision that exists is left as it is)
RebuildReadKeeps(p) ==
    /\ Runs(p, "rebuild")
    /\ Onto(p, IF plan[work[p].alert].state = "none" THEN "decide" ELSE "case")
    /\ InWork /\ UNCHANGED <<alertOf, alert, plan, caseOf>>
RebuildRead(p) ==
    /\ Runs(p, "rebuild")
    /\ LET state == plan[work[p].alert].state IN
       \/ state = "none" /\ Onto(p, "decide")
       \/ state = "PENDING" /\ Onto(p, "replan")
       \/ state = "SETTLED" /\ Onto(p, "case")
    /\ InWork /\ UNCHANGED <<alertOf, alert, plan, caseOf>>
RebuildWrite(p) ==
    /\ Runs(p, "replan")
    /\ plan' = [plan EXCEPT ![work[p].alert].basis = work[p].basis]
    /\ Onto(p, "case")
    /\ InWork /\ UNCHANGED <<alertOf, alert, caseOf>>

\* The provider has answered and there was no alert (create_security_event).
Insert(p) ==
    /\ Runs(p, "model") /\ work[p].alert = 0
    /\ \E a \in Alerts :
        /\ alert[a] = NoAlert /\ \A b \in Alerts : b < a => alert[b] # NoAlert
        /\ alert' = [alert EXCEPT ![a] = [sit |-> proc[p].sit, basis |-> work[p].basis]]
        /\ work' = [work EXCEPT ![p].at = "attach", ![p].alert = a]
    /\ InWork /\ UNCHANGED <<alertOf, plan, caseOf>>
Attach(p) ==
    /\ Runs(p, "attach")
    /\ alertOf' = [alertOf EXCEPT ![proc[p].sit] = work[p].alert]
    /\ Onto(p, "decide")
    /\ InWork /\ UNCHANGED <<alert, plan, caseOf>>
\* create_tier2_decision_for_alert: one that is there already is kept.
Decide(p) ==
    /\ Runs(p, "decide")
    /\ plan' = [plan EXCEPT ![work[p].alert] =
                    IF @.state = "none" THEN [state |-> "PENDING", basis |-> work[p].basis]
                    ELSE @]
    /\ Onto(p, "case")
    /\ InWork /\ UNCHANGED <<alertOf, alert, caseOf>>
EnsureCase(p) ==
    /\ Runs(p, "case")
    /\ caseOf' = [caseOf EXCEPT ![proc[p].sit] = work[p].alert]
    /\ Onto(p, "done")
    /\ InWork /\ UNCHANGED <<alertOf, alert, plan>>

WorkStep(p) ==
    \/ Load(p) \/ Rewrite(p) \/ RebuildRead(p) \/ RebuildWrite(p)
    \/ Insert(p) \/ Attach(p) \/ Decide(p) \/ EnsureCase(p)

(* run_job settles the job *)
Leave(p) == work' = [work EXCEPT ![p] = NoWork] /\ UNCHANGED <<records, carries, excused>>
Succeeds(p) == Runs(p, "done") /\ SettleSuccess(p) /\ Leave(p)
\* "LLM inference failed": nothing has been written.
Raises(p) == Runs(p, "model") /\ AnalysisFails(p) /\ Leave(p)
SettlesFailure(p) == SettleFailure(p) /\ Leave(p)
LosesSettlement(p) ==
    (Runs(p, "done") \/ proc[p].pc = "settleFailed") /\ SettleLost(p) /\ Leave(p)

-----------------------------------------------------------------------------
(* What else happens to a situation *)

\* Somebody approves, rejects or corrects the decision, or the autopilot does.
Settle(a) ==
    /\ up /\ plan[a].state = "PENDING"
    /\ plan' = [plan EXCEPT ![a].state = "SETTLED"]
    /\ UNCHANGED <<vars, home, alertOf, alert, caseOf, carries, work, excused>>
\* ensure_tier2_decision, when the decision of an alert without one is looked at.
Backfill(a) ==
    /\ up /\ alert[a] # NoAlert /\ plan[a].state = "none"
    /\ plan' = [plan EXCEPT ![a] = [state |-> "PENDING", basis |-> alert[a].basis]]
    /\ UNCHANGED <<vars, home, alertOf, alert, caseOf, carries, work, excused>>

Dies ==
    /\ Crash
    /\ excused' = excused \cup {carries[c] : c \in {x \in Callers : carries[x] # NoDetection}}
    /\ carries' = [c \in Callers |-> NoDetection]
    /\ work' = [p \in Runners |-> NoWork]
    /\ UNCHANGED records

AsInQueue == UNCHANGED <<records, carries, work, excused>>
Calm(s) == ~HasOutstanding(s) /\ \A c \in Callers : carries[c] = NoDetection
Requeue(o) ==
    /\ \/ \E j \in JobIds : RetryRead(o, j)
       \/ RetryWrite(o) /\ (RetriesOverlap \/ Calm(proc[o].sit))
    /\ AsInQueue
IntakeNext ==
    \/ \E c \in Callers : \/ \E d \in Detections, s \in Situations : Correlate(c, d, s)
                          \/ IngestStep(c)
    \/ \E w \in Workers : WorkerStep(w) /\ AsInQueue
    \/ \E p \in Runners : \/ WorkStep(p) \/ Succeeds(p) \/ Raises(p)
                          \/ SettlesFailure(p) \/ LosesSettlement(p)
    \/ \E o \in Operators : Requeue(o)
    \/ \E j \in JobIds : BackoffElapses(j) /\ AsInQueue
    \/ \E a \in Alerts : Settle(a) \/ Backfill(a)
    \/ Dies
    \/ Restart /\ AsInQueue

IntakeSpec == IntakeInit /\ [][IntakeNext]_intakeVars

(* Fairness, as in the queue: coroutines are scheduled, the model answers or *)
(* the call fails, clocks advance and the broker is brought back.            *)
IntakeFairness ==
    /\ \A c \in Callers : WF_intakeVars(IngestStep(c))
    /\ \A w \in Workers : WF_intakeVars(WorkerStep(w) /\ AsInQueue)
    /\ \A p \in Runners : WF_intakeVars(WorkStep(p) \/ Succeeds(p) \/ Raises(p) \/ SettlesFailure(p))
    /\ \A j \in JobIds : WF_intakeVars(BackoffElapses(j) /\ AsInQueue)
    /\ WF_intakeVars(Restart /\ AsInQueue)
FairIntake == IntakeSpec /\ IntakeFairness

-----------------------------------------------------------------------------
(* Properties *)

IntakeTypeOK ==
    /\ home \in [Detections -> Situations \cup {NoSituation}]
    /\ carries \in [Callers -> Detections \cup {NoDetection}]
    /\ alertOf \in [Situations -> Alerts \cup {0}]
    /\ alert \in [Alerts -> Alert]
    /\ plan \in [Alerts -> Plan]
    /\ caseOf \in [Situations -> Alerts \cup {0, NoCase}]
    /\ work \in [Runners -> Work]
    /\ excused \subseteq Detections

JobsOf(s) == {j \in JobIds : jobs[j].sit = s}
BeingDecided(s) == \E j \in JobsOf(s) : Outstanding(j) \/ jobs[j].status = "FAILED"

\* A detection that is not in the analysis of its situation has a job that will
\* analyse it, a dead letter an operator can see, or a caller about to submit
\* it - unless its caller died before that, or it was handed to an analysis
\* that had already loaded the situation (analysis_queue.py: "The decision path
\* is reliable"; submit: "Its result lands the same way").
NothingForgotten ==
    \A d \in Detections \ excused, s \in Situations :
        home[d] = s /\ ~IsFrozen(s) =>
            \/ BeingDecided(s) \/ \E c \in Callers : carries[c] = d
            \/ alertOf[s] # 0 /\ d \in alert[alertOf[s]].basis

\* The promise itself: what is stored is sooner or later weighed, or somebody
\* settles the situation or is shown a dead letter.
Weighed(d, s) == alertOf[s] # 0 /\ d \in alert[alertOf[s]].basis
EveryDetectionWeighed ==
    \A d \in Detections, s \in Situations :
        home[d] = s ~> \/ Weighed(d, s) \/ IsFrozen(s)
                       \/ \E j \in JobsOf(s) : jobs[j].status = "FAILED"

\* What is on record about a situation never loses a detection: no analysis
\* overwrites a later one (enqueue: "the later one would overwrite the earlier
\* one's decision for no reason"), and no alert is exchanged for an older one.
RecordsOnlyGrow ==
    [][\A s \in Situations : alertOf[s] # 0 =>
          alertOf'[s] # 0 /\ alert[alertOf[s]].basis \subseteq alert'[alertOf'[s]].basis]_intakeVars

\* When nothing is under way for a situation, its alert, its decision and its
\* case tell the same: three commits of one analysis, any of which may be its
\* last.
RecordsAgree ==
    \A s \in Situations : alertOf[s] # 0 /\ ~BeingDecided(s) =>
        LET a == alertOf[s] IN
        /\ caseOf[s] = a /\ alert[a].sit = s
        /\ plan[a].state # "none"
        /\ plan[a].state = "PENDING" => plan[a].basis = alert[a].basis

\* A situation has one alert: another one exists only where the process died
\* between inserting and attaching it, or for the run that is about to attach.
Unattached(s) == {a \in Alerts : alert[a].sit = s /\ alertOf[s] # a}
AlertsAccounted ==
    \A s \in Situations :
        Cardinality(Unattached(s))
          <= crashes + Cardinality({p \in Runners : Runs(p, "attach") /\ proc[p].sit = s})

\* A situation that received a detection gets its decision, or a dead letter,
\* whatever dies in between: but for a caller that died before it submitted,
\* and a settlement that was lost.
SituationsAreDecided ==
    \A s \in Situations :
        (\E j \in JobsOf(s) : Outstanding(j))
          ~> \/ alertOf[s] # 0 /\ plan[alertOf[s]].state # "none" /\ caseOf[s] = alertOf[s]
             \/ \E j \in JobsOf(s) : jobs[j].status = "FAILED"
             \/ dbErrors > 0
=============================================================================
