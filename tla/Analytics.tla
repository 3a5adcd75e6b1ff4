------------------------------ MODULE Analytics ------------------------------
(***************************************************************************)
(* The analyst's workspace (analytics_content.py): saved searches,         *)
(* dashboards, reports and alert rules over the decision store, the search *)
(* jobs, and the worker that weighs rules and runs reports.                *)
(*                                                                         *)
(* A request of a user reads and checks first and writes in one            *)
(* transaction later: the step between is another's.  So are the steps of  *)
(* the worker and of the jobs.  The tables that are searched are written   *)
(* by the rest of the system.                                              *)
(***************************************************************************)
EXTENDS SearchQuery

CONSTANTS
    Users, Role,       \* and the role of each
    Searches, Dashboards, Reports, Rules, \* ids, each used once
    Queries, Presets,  \* queries people write; lengths of a time preset
    Thresholds, Schedules, \* of rules; of reports, 0 for none
    Rows,              \* what the tables may come to hold, without a time
    Jobs,              \* search jobs
    Begun, BegunPanels, \* content and panels that are there from the start
    MaxWrites,         \* bound: changes that users make
    MaxTime,           \* bound: time
    MaxRestarts        \* bound: restarts of the process

VARIABLES
    content,     \* the four tables of content, by id
    panels,      \* table dashboard_panels: the searches shown, by dashboard
    occurrences, \* table alert_occurrences: the rules that fired
    job,         \* table search_jobs
    runner,      \* the task of each job
    doing,       \* what each user's request, and the worker, is about to do
    worker,      \* where the worker's tick is, and what it has yet to do
    stored,      \* the time of every row that is there, 0 if it is not
    clock, writes, restarts

vars == <<content, panels, occurrences, job, runner, doing, worker, stored, clock, writes, restarts>>

Ids == Searches \cup Dashboards \cup Reports \cup Rules
Worker == "worker"
Roles == {"viewer", "analyst", "admin"}

\* A search has a query; a rule names a search and has a threshold.
WellFormed(i, row) ==
    /\ i \in Searches => "query" \in DOMAIN row /\ row.query \in Queries
    /\ i \in Rules => /\ {"search", "threshold"} \subseteq DOMAIN row
                      /\ row.search \in Searches /\ row.threshold \in Thresholds

ASSUME AnalyticsAssumption ==
    /\ Role \in [Users -> Roles] /\ Worker \notin Users
    /\ {MaxWrites, MaxTime, MaxRestarts} \subseteq Nat
    /\ Thresholds \subseteq Nat \ {0} /\ Schedules \subseteq Nat
    /\ IsFiniteSet(Rows)
    /\ \A query \in Queries : \A head \in Latest(query, {"head"}) : head.n \in Nat
    \* No id is used in two tables.
    /\ Searches \cap (Dashboards \cup Reports \cup Rules) = {}
    /\ Rules \cap (Dashboards \cup Reports) = {} /\ Dashboards \cap Reports = {}
    \* What is there from the start was created by requests like those below.
    /\ DOMAIN Begun \subseteq Ids /\ DOMAIN BegunPanels \subseteq Dashboards
    /\ \A i \in DOMAIN Begun : "there" \in DOMAIN Begun[i] /\ WellFormed(i, Begun[i])

\* A dictionary with the entries of new over those it had.
Over(new, old) == [k \in DOMAIN new \cup DOMAIN old |-> IF k \in DOMAIN new THEN new[k] ELSE old[k]]

AnyUser == CHOOSE u \in Users : TRUE
Absent == [there |-> "never", owner |-> AnyUser, shared |-> FALSE]
Idle == [at |-> "idle"]
Asleep == [at |-> "asleep", todo |-> {}]
NoJob == [status |-> "none"]

Init ==
    /\ content = Over(Begun, [i \in Ids |-> Absent])
    /\ panels = Over(BegunPanels, [d \in Dashboards |-> {}])
    /\ occurrences = {}
    /\ job = [j \in Jobs |-> NoJob] /\ runner = [j \in Jobs |-> "off"]
    /\ doing = [a \in Users \cup {Worker} |-> Idle]
    /\ worker = Asleep
    /\ stored = [r \in Rows |-> 0]
    /\ clock = 1 /\ writes = 0 /\ restarts = 0

Table == {[x \in DOMAIN r \cup {"time"} |-> IF x = "time" THEN stored[r] ELSE r[x]] :
            r \in {s \in Rows : stored[s] > 0}}
Result(query, preset) == Execute(query, Table, clock - preset)
Works(query) == Accepted(query) /\ Executes(query)
Becomes(a, task) == doing' = [doing EXCEPT ![a] = task]

-----------------------------------------------------------------------------
(* Content: who may do what                                                *)

There(i) == content[i].there = "yes"
MayWrite(u) == Role[u] # "viewer"
CanManage(u, i) == Role[u] = "admin" \/ content[i].owner = u
MayRead(u, i) == Role[u] = "admin" \/ content[i].owner = u \/ content[i].shared

\* What a request may bring, by kind.  A report and a rule name a search that
\* the user may read, panels name searches that exist.
\* (It may also come shared; here it is shared later.)
NewSearches == {[query |-> q, preset |-> p] : q \in {x \in Queries : Accepted(x)}, p \in Presets}
NewReports(u) == {[search |-> s, every |-> e, last |-> 0] :
                    s \in {t \in Searches : There(t) /\ MayRead(u, t)}, e \in Schedules}
NewRules(u) == {[search |-> s, threshold |-> n, enabled |-> TRUE] :
                  s \in {t \in Searches : There(t) /\ MayRead(u, t)}, n \in Thresholds}
NewContent(u, i) ==
    CASE i \in Searches -> NewSearches [] i \in Reports -> NewReports(u)
      [] i \in Rules -> NewRules(u) [] OTHER -> {<<>>}
Changes(i) ==
    {[shared |-> b] : b \in BOOLEAN} \cup
    CASE i \in Searches -> {[query |-> q] : q \in {x \in Queries : Accepted(x)}}
      [] i \in Reports -> {[every |-> e] : e \in Schedules}
      [] i \in Rules -> {[enabled |-> b] : b \in BOOLEAN} \cup {[threshold |-> n] : n \in Thresholds}
      [] OTHER -> {}

-----------------------------------------------------------------------------
(* Requests: read and check ...                                            *)

Asking(u) == doing[u].at = "idle" /\ writes < MaxWrites
Quiet == UNCHANGED <<content, panels, occurrences, job, runner, worker, stored, clock, writes, restarts>>
AskCreate(u, i) ==
    /\ Asking(u) /\ MayWrite(u) /\ content[i].there = "never"
    /\ \E new \in NewContent(u, i) :
         Becomes(u, [at |-> "create", id |-> i,
                     with |-> Over(new, [there |-> "yes", owner |-> u, shared |-> FALSE])])
    /\ Quiet
AskChange(u, i) ==
    /\ Asking(u) /\ MayWrite(u) /\ There(i) /\ CanManage(u, i)
    /\ \E change \in Changes(i) : Becomes(u, [at |-> "change", id |-> i, with |-> change])
    /\ Quiet
AskDelete(u, i) ==
    /\ Asking(u) /\ MayWrite(u) /\ There(i) /\ CanManage(u, i)
    /\ Becomes(u, [at |-> "delete", id |-> i])
    /\ Quiet
\* update_dashboard with panels, and duplicate_dashboard, which reads the panels,
\* creates a dashboard and then updates it.
AskPanels(u, d) ==
    /\ Asking(u) /\ MayWrite(u) /\ There(d) /\ CanManage(u, d)
    /\ \E shown \in SUBSET Searches : Becomes(u, [at |-> "panels", id |-> d, show |-> shown])
    /\ Quiet
AskDuplicate(u, d, copy) ==
    /\ Asking(u) /\ MayWrite(u) /\ There(d) /\ MayRead(u, d) /\ content[copy].there = "never"
    /\ Becomes(u, [at |-> "copy", id |-> copy, show |-> panels[d]])
    /\ Quiet

(* ... and write.                                                          *)
Wrote == writes' = writes + 1
CreateContent(u) ==
    /\ doing[u].at = "create" /\ content[doing[u].id].there = "never"
    /\ content' = [content EXCEPT ![doing[u].id] = doing[u].with]
    /\ Becomes(u, Idle) /\ Wrote
    /\ UNCHANGED <<panels, occurrences, job, runner, worker, stored, clock, restarts>>
\* An update of what is gone changes nothing.
ChangeContent(u) ==
    /\ doing[u].at = "change"
    /\ LET i == doing[u].id IN
       content' = IF There(i) THEN [content EXCEPT ![i] = Over(doing[u].with, @)] ELSE content
    /\ Becomes(u, Idle) /\ Wrote
    /\ UNCHANGED <<panels, occurrences, job, runner, worker, stored, clock, restarts>>
\* A dashboard takes its panels along and a rule its occurrences; what names a
\* search stays.
DeleteContent(u) ==
    /\ doing[u].at = "delete"
    /\ LET i == doing[u].id IN
       /\ content' = [content EXCEPT ![i].there = "gone"]
       /\ panels' = IF i \in Dashboards THEN [panels EXCEPT ![i] = {}] ELSE panels
       /\ occurrences' = occurrences \ {i}
    /\ Becomes(u, Idle) /\ Wrote
    /\ UNCHANGED <<job, runner, worker, stored, clock, restarts>>
\* A panel whose search is not there refuses the whole update.
WritePanels(u) ==
    /\ doing[u].at = "panels"
    /\ panels' = IF \A s \in doing[u].show : There(s)
                 THEN [panels EXCEPT ![doing[u].id] = doing[u].show] ELSE panels
    /\ Becomes(u, Idle) /\ Wrote
    /\ UNCHANGED <<content, occurrences, job, runner, worker, stored, clock, restarts>>
WriteCopy(u) ==
    /\ doing[u].at = "copy" /\ content[doing[u].id].there = "never"
    /\ content' = [content EXCEPT ![doing[u].id] = [there |-> "yes", owner |-> u, shared |-> FALSE]]
    /\ Becomes(u, IF doing[u].show = {} THEN Idle ELSE [doing[u] EXCEPT !.at = "panels"])
    /\ Wrote
    /\ UNCHANGED <<panels, occurrences, job, runner, worker, stored, clock, restarts>>

-----------------------------------------------------------------------------
(* Reports and rules, run by a user or by the worker                       *)

Others == <<content, panels, job, runner, stored, clock, writes, restarts>>

\* evaluate_alert_rule: the rule and its search are read ...
ReadRule(a, r) ==
    Becomes(a, IF There(r) /\ content[r].enabled /\ There(content[r].search)
               THEN [at |-> "weigh", rule |-> r, threshold |-> content[r].threshold,
                     search |-> content[content[r].search]]
               ELSE Idle)
Weighed(a) == Result(doing[a].search.query, doing[a].search.preset)
\* (mutant: what one rule raises ends the tick)
WeighRuleUncaught(a) ==
    /\ doing[a].at = "weigh"
    /\ LET q == doing[a].search.query
           works == Works(q) /\ Measures(Weighed(a)) IN
       /\ Becomes(a, IF works /\ Measure(Weighed(a)) >= doing[a].threshold
                     THEN [at |-> "fire", rule |-> doing[a].rule] ELSE Idle)
       /\ worker' = IF a = Worker /\ ~works THEN Asleep ELSE worker
    /\ UNCHANGED Others /\ UNCHANGED occurrences
\* ... the search runs, and what it finds is compared with the threshold ...
WeighRule(a) ==
    /\ doing[a].at = "weigh"
    /\ Becomes(a, IF /\ Works(doing[a].search.query) /\ Measures(Weighed(a))
                     /\ Measure(Weighed(a)) >= doing[a].threshold
                  THEN [at |-> "fire", rule |-> doing[a].rule] ELSE Idle)
    /\ UNCHANGED Others /\ UNCHANGED <<occurrences, worker>>
\* ... and an occurrence is stored.
FireRule(a) ==
    /\ doing[a].at = "fire"
    /\ occurrences' = occurrences \cup {doing[a].rule}
    /\ Becomes(a, Idle)
    /\ UNCHANGED Others /\ UNCHANGED worker

\* run_report, as the user who asks or as the report's owner.
Runs(u, i) == There(i) /\ MayRead(u, i) /\ There(content[i].search) /\ MayRead(u, content[i].search)
ReadReport(a, u, i) ==
    Becomes(a, IF Runs(u, i) /\ Works(content[content[i].search].query)
               THEN [at |-> "run", id |-> i] ELSE Idle)
RunReport(a) ==
    /\ doing[a].at = "run"
    /\ content' = IF There(doing[a].id) THEN [content EXCEPT ![doing[a].id].last = clock] ELSE content
    /\ Becomes(a, Idle)
    /\ UNCHANGED <<panels, occurrences, job, runner, worker, stored, clock, writes, restarts>>

AskEvaluate(u, r) ==
    /\ Asking(u) /\ MayWrite(u) /\ ReadRule(u, r) /\ Wrote
    /\ UNCHANGED <<content, panels, occurrences, job, runner, worker, stored, clock, restarts>>
AskRun(u, i) ==
    /\ Asking(u) /\ Runs(u, i) /\ ReadReport(u, u, i) /\ Wrote
    /\ UNCHANGED <<content, panels, occurrences, job, runner, worker, stored, clock, restarts>>

-----------------------------------------------------------------------------
(* The worker: the enabled rules, then the reports that are due, and again *)

WorkerSteps == UNCHANGED Others /\ UNCHANGED occurrences
\* analytics_worker wakes up and evaluate_all_rules lists the enabled rules.
WakeUp ==
    /\ worker.at = "asleep"
    /\ worker' = [at |-> "rules", todo |-> {r \in Rules : There(r) /\ content[r].enabled}]
    /\ UNCHANGED doing /\ WorkerSteps
NextRule ==
    /\ worker.at = "rules" /\ doing[Worker].at = "idle"
    /\ \E r \in worker.todo :
         /\ worker' = [worker EXCEPT !.todo = @ \ {r}]
         /\ ReadRule(Worker, r)
    /\ WorkerSteps
\* evaluate_due_reports.
Due(i) == There(i) /\ content[i].every > 0
          /\ (content[i].last = 0 \/ clock - content[i].last >= content[i].every)
ListReports ==
    /\ worker.at = "rules" /\ doing[Worker].at = "idle" /\ worker.todo = {}
    /\ worker' = [at |-> "reports", todo |-> {i \in Reports : Due(i)}]
    /\ UNCHANGED doing /\ WorkerSteps
NextReport ==
    /\ worker.at = "reports" /\ doing[Worker].at = "idle"
    /\ \E i \in worker.todo :
         /\ worker' = [worker EXCEPT !.todo = @ \ {i}]
         /\ ReadReport(Worker, content[i].owner, i)
    /\ WorkerSteps
FallAsleep ==
    /\ worker.at = "reports" /\ doing[Worker].at = "idle" /\ worker.todo = {}
    /\ worker' = Asleep
    /\ UNCHANGED doing /\ WorkerSteps

-----------------------------------------------------------------------------
(* Search jobs                                                             *)

JobSteps == UNCHANGED <<content, panels, occurrences, worker, stored, clock, writes, restarts>>
CreateJob(u, j) ==
    /\ Asking(u) /\ job[j].status = "none"
    /\ \E q \in {x \in Queries : Accepted(x)} :
         job' = [job EXCEPT ![j] = [status |-> "RUNNING", owner |-> u, query |-> q]]
    /\ runner' = [runner EXCEPT ![j] = "running"]
    /\ Wrote
    /\ UNCHANGED <<content, panels, occurrences, doing, worker, stored, clock, restarts>>
\* _run_job executes the query, looks whether the job was cancelled ...
RunJob(j) ==
    /\ runner[j] = "running"
    /\ runner' = [runner EXCEPT ![j] = IF ~Works(job[j].query) THEN "FAILED"
                                       ELSE IF job[j].status = "CANCELLED" THEN "off" ELSE "DONE"]
    /\ UNCHANGED <<job, doing>> /\ JobSteps
\* ... and settles it unless it no longer is RUNNING.
StillThere(j) == TRUE \* (mutant: the update does not look at the status)
StillRunning(j) == job[j].status = "RUNNING"
SettleJob(j) ==
    /\ runner[j] \in {"DONE", "FAILED"}
    /\ job' = IF StillRunning(j) THEN [job EXCEPT ![j].status = runner[j]] ELSE job
    /\ runner' = [runner EXCEPT ![j] = "off"]
    /\ UNCHANGED doing /\ JobSteps
\* cancel_search_job reads the status and then writes CANCELLED over what there is.
AskCancel(u, j) ==
    /\ Asking(u) /\ job[j].status = "RUNNING" /\ (Role[u] = "admin" \/ job[j].owner = u)
    /\ Becomes(u, [at |-> "cancel", job |-> j])
    /\ UNCHANGED <<job, runner>> /\ JobSteps
CancelJob(u) ==
    /\ doing[u].at = "cancel"
    /\ job' = [job EXCEPT ![doing[u].job].status = "CANCELLED"]
    /\ Becomes(u, Idle) /\ Wrote
    /\ UNCHANGED <<content, panels, occurrences, runner, worker, stored, clock, restarts>>

-----------------------------------------------------------------------------
(* The rest of the system, time and restarts                               *)

Store(r) ==
    /\ stored[r] = 0
    /\ stored' = [stored EXCEPT ![r] = clock]
    /\ UNCHANGED <<content, panels, occurrences, job, runner, doing, worker, clock, writes, restarts>>
Tick ==
    /\ clock < MaxTime
    /\ clock' = clock + 1
    /\ UNCHANGED <<content, panels, occurrences, job, runner, doing, worker, stored, writes, restarts>>
\* Requests and tasks are gone; the worker is started again.
Restart ==
    /\ restarts < MaxRestarts
    /\ restarts' = restarts + 1
    /\ doing' = [a \in DOMAIN doing |-> Idle]
    /\ runner' = [j \in Jobs |-> IF runner[j] = "off" THEN "off" ELSE "lost"]
    /\ worker' = Asleep
    /\ UNCHANGED <<content, panels, occurrences, job, stored, clock, writes>>

Asks(u, i) == AskCreate(u, i) \/ AskChange(u, i) \/ AskDelete(u, i)
SearchRequest(u) == \E i \in Searches : Asks(u, i)
DashboardRequest(u) ==
    \E d \in Dashboards : \/ Asks(u, d) \/ AskPanels(u, d)
                          \/ \E c \in Dashboards : AskDuplicate(u, d, c)
ReportRequest(u) == \E i \in Reports : Asks(u, i) \/ AskRun(u, i)
RuleRequest(u) == \E r \in Rules : Asks(u, r) \/ AskEvaluate(u, r)
JobRequest(u) == \E j \in Jobs : CreateJob(u, j) \/ AskCancel(u, j)
Write(u) == \/ CreateContent(u) \/ ChangeContent(u) \/ DeleteContent(u)
            \/ WritePanels(u) \/ WriteCopy(u) \/ CancelJob(u)
Work == WakeUp \/ NextRule \/ ListReports \/ NextReport \/ FallAsleep
        \/ WeighRule(Worker) \/ FireRule(Worker) \/ RunReport(Worker)
Next ==
    \/ \E u \in Users : \/ JobRequest(u) \/ SearchRequest(u) \/ DashboardRequest(u)
                       \/ ReportRequest(u) \/ RuleRequest(u) \/ Write(u)
                       \/ WeighRule(u) \/ FireRule(u) \/ RunReport(u)
    \/ Work
    \/ \E j \in Jobs : RunJob(j) \/ SettleJob(j)
    \/ \E r \in Rows : Store(r)
    \/ Tick \/ Restart

\* The worker's waits have a timeout and every await of a task returns.
Spec == /\ Init /\ [][Next]_vars
        /\ WF_vars(Work) /\ \A j \in Jobs : WF_vars(RunJob(j) \/ SettleJob(j))

-----------------------------------------------------------------------------
(* Properties                                                              *)

\* A search that was cancelled stays cancelled, whatever its task finds later.
CancelledStays ==
    [][\A j \in Jobs : job[j].status = "CANCELLED" => job'[j].status = "CANCELLED"]_vars

\* A rule that stays enabled, over a search that stays, is weighed over and over:
\* no other rule, whatever its query does, keeps the worker from it.
Enabled(r) == There(r) /\ content[r].enabled /\ There(content[r].search)
Weighing(r) == doing[Worker].at = "weigh" /\ doing[Worker].rule = r
EveryRuleIsWeighed == \A r \in Rules : <>[]Enabled(r) => []<>Weighing(r)

\* A query that gives one number over all the rows.
Counts(query) == \E s \in Latest(query, {"stats"}) : s.by = Unspecified
\* The rows a rule's search matches now.
Matched(task) ==
    LET query == task.search.query IN
    {row \in Table : /\ row.dataset = query.dataset /\ row.time >= clock - task.search.preset
                    /\ \A c \in Clauses(query) : Holds(row, c)}
Fires(a) == doing[a].at = "weigh" /\ doing'[a].at = "fire"
\* A rule fires only when its search matches at least as many rows as its
\* threshold (evaluate_alert_rule: on threshold match).  This holds of searches
\* that list or group rows; the count of everything is AnalyticsZero's.
FiresOnMatches ==
    [][\A a \in DOMAIN doing : Fires(a) /\ ~Counts(doing[a].search.query)
         => Cardinality(Matched(doing[a])) >= doing[a].threshold]_vars
\* In particular a rule does not fire when its search matches nothing.
NothingFiresNothing ==
    [][\A a \in DOMAIN doing : Fires(a) => Matched(doing[a]) # {}]_vars

=============================================================================
