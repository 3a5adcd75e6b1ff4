-------------------------------- MODULE Tier2 --------------------------------
(***************************************************************************)
(* The life of one decision: orchestrator/tier2 and its callers.           *)
(*                                                                         *)
(* A situation's analysis records an alert and proposes a plan of actions; *)
(* analysts edit, reject or approve it; the autopilot may approve it; a    *)
(* merge may overtake it.  An approval starts a background task that sends *)
(* the actions one by one, and an analyst may take a sent action back.     *)
(*                                                                         *)
(* The handlers are coroutines over one SQLite file.  The SELECTs a        *)
(* handler makes in a row are one step and its UPDATEs up to the commit    *)
(* another: between the two any other coroutine may commit.  What a        *)
(* handler has read is kept in proc[p].  Overlapping says which requests   *)
(* may be in progress at the same time, so that a property can be stated   *)
(* with the overlaps it survives; a background execution overlaps all.     *)
(***************************************************************************)
EXTENDS Integers, Sequences

CONSTANTS
    Actions,      \* an action with its target
    Permitted,    \* policy_allows_action lets it be dispatched
    Reversible,   \* reversibility = REVERSIBLE: an inverse verb exists
    Unattended,   \* autopilot_allows lets it run with no human
    Proposals,    \* plans an analysis may come out with
    Corrections,  \* plans an analyst may put in their place
    Analysts,     \* concurrent requests of people
    Analysers,    \* concurrent analyses of the situation
    Mergers,      \* concurrent intakes that may absorb the situation
    Overlapping,  \* the pairs of kinds of request that may overlap
    MaxBase,      \* bound: row ids that other alerts' plans take up
    MaxCrashes    \* bound: deaths of the broker process

Procs == Analysts \cup Analysers \cup Mergers
Approvers == Analysts \cup Analysers
Kinds == {"ensure", "edit", "reject", "approve", "rollback", "analyse", "merge"}

ASSUME Tier2Assumption ==
    /\ Permitted \subseteq Actions /\ Reversible \subseteq Actions
    /\ Unattended \subseteq Permitted
    /\ \A s \in Proposals : s \in Seq(Actions) /\ s # <<>>
    /\ \A s \in Corrections : s \in Seq(Permitted)
    /\ Analysts \cap Analysers = {} /\ Mergers \cap (Analysts \cup Analysers) = {}
    /\ \A pair \in Overlapping : pair \subseteq Kinds
    /\ MaxBase \in Nat /\ MaxCrashes \in Nat

VARIABLES
    decision,   \* the row of tier2_decisions; status "NONE": not inserted
    plan,       \* its rows of alert_soar_actions, in id order
    base,       \* the id of the i-th of them is base + i
    alert,      \* mitigation_status, and whether a person set it by hand
    record,     \* the plan recommended by the analysis stored on the alert
    situation,  \* does it point at the alert, and has it been merged away?
    proc,       \* request handlers
    run,        \* run[p]: the execution that p's approval started
    sent,       \* history: deliveries the executor confirmed, per action
    undone,     \* history: rollbacks the executor confirmed, per action
    approved,   \* history: the plan as it was when it was approved
    dryRun,     \* RESPONSE_DRY_RUN, read once when the process starts
    crashes     \* history: deaths of the process

data == <<decision, plan, base, alert, record, situation>>
history == <<sent, undone, approved, dryRun, crashes>>
vars == <<data, proc, run, history>>

Status == {"NONE", "PENDING", "APPROVED", "REJECTED", "EXECUTING",
           "DONE", "FAILED", "SUPERSEDED", "SIMULATED"}
Decision == [status : Status, human : BOOLEAN, machine : BOOLEAN]

Receipts == {"DONE", "FAILED", "BLOCKED", "SIMULATED"}
RowStatus == Receipts \cup {"PENDING", "QUEUED", "EXECUTING"}
UndoStatus == Receipts \cup {"", "AVAILABLE", "EXECUTING"}
Row == [action : Actions, status : RowStatus, undo : UndoStatus]
NewRows(s) == [i \in 1..Len(s) |-> [action |-> s[i], status |-> "PENDING", undo |-> ""]]
ActionsOf(rows) == [i \in 1..Len(rows) |-> rows[i].action]

\* A request: what kind, where it stands, the plan it will write or the
\* action it takes back, that action's row id, and the receipt it holds.
Where == {"idle", "attach", "create", "insert", "weigh", "rebuild?", "rebuild",
          "autopilot", "approve", "reject", "relabel", "replan", "merge",
          "absorb", "absorb bare",
          "claim", "undo", "undone", "reopen"}
Request == [doing : Kinds \cup {"nothing"}, pc : Where,
            plan : Seq(Actions), row : Nat, receipt : Receipts \cup {""}]
Idle == [doing |-> "nothing", pc |-> "idle", plan |-> <<>>, row |-> 0, receipt |-> ""]

\* An execution: its snapshot of the plan, the next action, its two flags,
\* and (history) how many of its actions the executor confirmed.
RunWhere == {"none", "start", "load", "next", "deliver", "record", "settle", "over", "lost"}
Execution == [pc : RunWhere, plan : Seq(Actions), base : Nat, at : Nat,
              failed : BOOLEAN, simulated : BOOLEAN,
              receipt : Receipts \cup {""}, acked : Nat]
NoRun == [pc |-> "none", plan |-> <<>>, base |-> 0, at |-> 1,
          failed |-> FALSE, simulated |-> FALSE, receipt |-> "", acked |-> 0]

Init ==
    /\ decision = [status |-> "NONE", human |-> FALSE, machine |-> FALSE]
    /\ plan = <<>> /\ base = 0 /\ record = <<>>
    /\ alert = [status |-> "NONE", byHand |-> FALSE]
    /\ situation = [attached |-> FALSE, merged |-> FALSE]
    /\ proc = [p \in Procs |-> Idle]
    /\ run = [p \in Approvers |-> NoRun]
    /\ sent = [a \in Actions |-> 0] /\ undone = [a \in Actions |-> 0]
    /\ approved = <<>>
    /\ dryRun \in BOOLEAN
    /\ crashes = 0

-----------------------------------------------------------------------------
(* Handlers *)

MayStart(p, kind) ==
    /\ proc[p].doing = "nothing"
    /\ \A q \in Procs : proc[q].doing # "nothing"
                            => {kind, proc[q].doing} \in Overlapping
Starts(p, kind, pc, steps) ==
    /\ MayStart(p, kind)
    /\ proc' = [proc EXCEPT ![p] = [Idle EXCEPT !.doing = kind, !.pc = pc, !.plan = steps]]
Goes(p, pc) == proc' = [proc EXCEPT ![p].pc = pc]
Ends(p) == proc' = [proc EXCEPT ![p] = Idle]

Pending == decision.status = "PENDING"

\* The decision's rows are deleted and the new plan inserted.  SQLite hands
\* out the highest rowid in use plus one: the same ids again, unless rows of
\* another alert have come to lie behind.
Replan(s) ==
    /\ plan' = NewRows(s)
    /\ base' \in {b \in {base, base + Len(plan)} : b <= MaxBase \/ b = base}

\* A row is addressed by id: an UPDATE of a deleted row changes nothing, and
\* one whose id was handed out again changes its new owner.
Holds(id) == id - base \in 1..Len(plan)
SetRow(id, status, undo) ==
    plan' = IF Holds(id)
            THEN [plan EXCEPT ![id - base].status = status, ![id - base].undo = undo]
            ELSE plan

-----------------------------------------------------------------------------
(* analyze_situation, and the proposal it makes or renews *)

\* The first analysis inserts the alert, then attaches it to the situation.
\* The model follows one alert: an analysis that dies between the two leaves
\* it unattached, and the next one's alert would be another.
AnalyseFirst(x, new) ==
    /\ ~situation.attached /\ alert.status = "NONE"
    /\ Starts(x, "analyse", "attach", new)
    /\ alert' = [status |-> "PENDING", byHand |-> FALSE]
    /\ record' = new
    /\ UNCHANGED <<decision, plan, base, situation, run, history>>

AttachAlert(x) ==
    /\ proc[x].pc = "attach"
    /\ situation' = [situation EXCEPT !.attached = TRUE]
    /\ Goes(x, "create")
    /\ UNCHANGED <<decision, plan, base, alert, record, run, history>>

\* A later one rewrites the analysis stored on the alert, whatever became of
\* the decision meanwhile.
AnalyseAgain(x, new) ==
    /\ situation.attached
    /\ Starts(x, "analyse", "rebuild?", new)
    /\ record' = new
    /\ UNCHANGED <<decision, plan, base, alert, situation, run, history>>

\* GET /decision backfills a missing decision from the stored alert.
Ensure(a) ==
    /\ alert.status # "NONE" /\ decision.status = "NONE"
    /\ Starts(a, "ensure", "create", record)
    /\ UNCHANGED <<data, run, history>>

\* The plan autopilot_if_eligible would run unattended; verdict, confidence
\* and precedent are left open.
\* (mutant: one action within policy is enough)
EligibleInPart == /\ Pending
                  /\ \E i \in 1..Len(plan) : plan[i].action \in Unattended
Eligible == /\ Pending
            /\ plan # <<>>
            /\ \A i \in 1..Len(plan) : plan[i].action \in Unattended
\* The handler has its decision; an analysis goes on to the autopilot.
Weighs(p) == IF p \in Analysers /\ Eligible THEN Goes(p, "autopilot") ELSE Ends(p)

\* rebuild_tier2_decision_for_alert reads: nothing yet, a machine's proposal
\* still pending, or a decision somebody stands behind.
\* (mutant: only a human's correction is refused)
RebuildReadAnyStatus(x) ==
    /\ proc[x].pc = "rebuild?"
    /\ IF decision.status = "NONE" THEN Goes(x, "create")
       ELSE IF ~decision.human THEN Goes(x, "rebuild")
       ELSE Weighs(x)
    /\ UNCHANGED <<data, run, history>>
RebuildRead(x) ==
    /\ proc[x].pc = "rebuild?"
    /\ IF decision.status = "NONE" THEN Goes(x, "create")
       ELSE IF Pending /\ ~decision.human THEN Goes(x, "rebuild")
       ELSE Weighs(x)
    /\ UNCHANGED <<data, run, history>>

\* ... and writes, without looking at the status again.
RebuildWrite(x) ==
    /\ proc[x].pc = "rebuild"
    /\ decision' = [decision EXCEPT !.human = FALSE]
    /\ Replan(proc[x].plan)
    /\ Goes(x, "weigh")
    /\ UNCHANGED <<alert, record, situation, run, history>>

CreateRead(p) ==
    /\ proc[p].pc = "create"
    /\ IF decision.status = "NONE" THEN Goes(p, "insert") ELSE Weighs(p)
    /\ UNCHANGED <<data, run, history>>

\* alert_id is unique: the second of two inserts raises.
CreateWrite(p) ==
    /\ proc[p].pc = "insert"
    /\ IF decision.status = "NONE"
       THEN /\ decision' = [decision EXCEPT !.status = "PENDING"]
            /\ Replan(proc[p].plan)
            /\ Goes(p, "weigh")
       ELSE Ends(p) /\ UNCHANGED <<decision, plan, base>>
    /\ UNCHANGED <<alert, record, situation, run, history>>

\* Both read back what they wrote, after the commit.
ReadBack(p) ==
    /\ proc[p].pc = "weigh"
    /\ Weighs(p)
    /\ UNCHANGED <<data, run, history>>

\* The autopilot finds a reason to leave it to an analyst, or approves.
AutopilotDeclines(x) ==
    /\ proc[x].pc = "autopilot"
    /\ Ends(x)
    /\ UNCHANGED <<data, run, history>>

AutopilotApproves(x) ==
    /\ proc[x].pc = "autopilot"
    /\ IF Pending THEN Goes(x, "approve") ELSE Ends(x)
    /\ UNCHANGED <<data, run, history>>

-----------------------------------------------------------------------------
(* Analysts: approve, reject, edit.  Each reads first and has no effect     *)
(* unless it finds the decision pending; the writes do not look again.      *)

\* (mutant: a whitelist turned into a list of end states)
ApproveReadUnsettled(a) ==
    /\ decision.status \notin {"NONE", "REJECTED", "DONE"}
    /\ Starts(a, "approve", "approve", <<>>)
    /\ UNCHANGED <<data, run, history>>
ApproveRead(a) ==
    /\ Pending /\ Starts(a, "approve", "approve", <<>>)
    /\ UNCHANGED <<data, run, history>>

ApproveWrite(p) ==
    /\ proc[p].pc = "approve"
    /\ decision' = [decision EXCEPT !.status = "APPROVED", !.machine = p \in Analysers]
    /\ plan' = [i \in 1..Len(plan) |-> [plan[i] EXCEPT !.status = "QUEUED"]]
    /\ approved' = ActionsOf(plan)
    /\ run' = [run EXCEPT ![p] = [NoRun EXCEPT !.pc = "start"]]
    /\ Ends(p)
    /\ UNCHANGED <<base, alert, record, situation, sent, undone, dryRun, crashes>>

\* (mutant: a decision under way can be rejected)
RejectReadLate(a) ==
    /\ decision.status \in {"PENDING", "APPROVED", "EXECUTING"}
    /\ Starts(a, "reject", "reject", <<>>)
    /\ UNCHANGED <<data, run, history>>
RejectRead(a) ==
    /\ Pending /\ Starts(a, "reject", "reject", <<>>)
    /\ UNCHANGED <<data, run, history>>

RejectWrite(a) ==
    /\ proc[a].pc = "reject"
    /\ decision' = [decision EXCEPT !.status = "REJECTED"]
    /\ Ends(a)
    /\ UNCHANGED <<plan, base, alert, record, situation, run, history>>

\* An edit gives a new plan, or corrects the verdict alone.
EditRead(a) ==
    /\ Pending
    /\ \/ Starts(a, "edit", "relabel", <<>>)
       \/ \E new \in Corrections : Starts(a, "edit", "replan", new)
    /\ UNCHANGED <<data, run, history>>

EditWrite(a) ==
    /\ proc[a].pc \in {"relabel", "replan"}
    /\ decision' = [decision EXCEPT !.human = TRUE]
    /\ IF proc[a].pc = "replan" THEN Replan(proc[a].plan) ELSE UNCHANGED <<plan, base>>
    /\ Ends(a)
    /\ UNCHANGED <<alert, record, situation, run, history>>

\* POST /mitigate: a person marks the alert contained.
MarkContained ==
    /\ alert.status # "NONE"
    /\ alert' = [status |-> "CONTAINED", byHand |-> TRUE]
    /\ UNCHANGED <<decision, plan, base, record, situation, proc, run, history>>

-----------------------------------------------------------------------------
(* The merge of this situation into another one *)

\* _partition_candidates: a situation is open while its decision is still a
\* machine's proposal.
MergeRead(m) ==
    /\ ~situation.merged
    /\ situation.attached => decision.status \in {"NONE", "PENDING"} /\ ~decision.human
    /\ Starts(m, "merge", "merge", <<>>)
    /\ UNCHANGED <<data, run, history>>

\* merge_situations reads the row again: gone already, with an alert, or bare.
MergeLoad(m) ==
    /\ proc[m].pc = "merge"
    /\ IF situation.merged THEN Ends(m)
       ELSE Goes(m, IF situation.attached THEN "absorb" ELSE "absorb bare")
    /\ UNCHANGED <<data, run, history>>

\* ... and folds the situation, and the alert it had, into the other one.
MergeWrite(m) ==
    /\ proc[m].pc \in {"absorb", "absorb bare"}
    /\ situation' = [situation EXCEPT !.merged = TRUE]
    /\ IF proc[m].pc = "absorb"
       THEN /\ decision' = IF Pending THEN [decision EXCEPT !.status = "SUPERSEDED"]
                                      ELSE decision
            /\ alert' = [status |-> "SUPERSEDED", byHand |-> FALSE]
       ELSE UNCHANGED <<decision, alert>>
    /\ Ends(m)
    /\ UNCHANGED <<plan, base, record, run, history>>

-----------------------------------------------------------------------------
(* _execute_soar_plan, the background task *)

Outcomes == Receipts \ (IF dryRun THEN {"DONE"} ELSE {"SIMULATED"})

RunStart(p) ==
    /\ run[p].pc = "start"
    /\ decision' = [decision EXCEPT !.status = "EXECUTING"]
    /\ run' = [run EXCEPT ![p].pc = "load"]
    /\ UNCHANGED <<plan, base, alert, record, situation, proc, history>>

RunLoad(p) ==
    /\ run[p].pc = "load"
    /\ run' = [run EXCEPT ![p].pc = "next", ![p].plan = ActionsOf(plan), ![p].base = base]
    /\ UNCHANGED <<data, proc, history>>

Remaining(p) == run[p].pc = "next" /\ run[p].at <= Len(run[p].plan)
Finished(p) == run[p].pc = "next" /\ run[p].at > Len(run[p].plan)
NextAction(p) == run[p].plan[run[p].at]
NextRow(p) == run[p].base + run[p].at
UndoOf(id) == IF Holds(id) THEN plan[id - base].undo ELSE ""

RunBlock(p) ==
    /\ Remaining(p) /\ NextAction(p) \notin Permitted
    /\ SetRow(NextRow(p), "BLOCKED", UndoOf(NextRow(p)))
    /\ run' = [run EXCEPT ![p].at = @ + 1, ![p].failed = TRUE]
    /\ UNCHANGED <<decision, base, alert, record, situation, proc, history>>

RunDispatch(p) ==
    /\ Remaining(p) /\ NextAction(p) \in Permitted
    /\ SetRow(NextRow(p), "EXECUTING", UndoOf(NextRow(p)))
    /\ run' = [run EXCEPT ![p].pc = "deliver"]
    /\ UNCHANGED <<decision, base, alert, record, situation, proc, history>>

\* response.deliver: the receipt comes back.
RunDeliver(p) ==
    /\ run[p].pc = "deliver"
    /\ \E receipt \in Outcomes :
        /\ run' = [run EXCEPT ![p].pc = "record", ![p].receipt = receipt,
                              ![p].acked = @ + (IF receipt = "DONE" THEN 1 ELSE 0)]
        /\ sent' = [sent EXCEPT ![NextAction(p)] = @ + (IF receipt = "DONE" THEN 1 ELSE 0)]
    /\ UNCHANGED <<data, proc, undone, approved, dryRun, crashes>>

\* (mutant: a connector's refusal is not counted as a failure)
RunRecordForgivingBlocked(p) ==
    /\ run[p].pc = "record"
    /\ SetRow(NextRow(p), run[p].receipt,
              IF run[p].receipt = "DONE" /\ NextAction(p) \in Reversible
              THEN "AVAILABLE" ELSE "")
    /\ run' = [run EXCEPT ![p].pc = "next", ![p].at = @ + 1,
                          ![p].simulated = @ \/ run[p].receipt = "SIMULATED",
                          ![p].failed = @ \/ run[p].receipt = "FAILED"]
    /\ UNCHANGED <<decision, base, alert, record, situation, proc, history>>
RunRecord(p) ==
    /\ run[p].pc = "record"
    /\ SetRow(NextRow(p), run[p].receipt,
              IF run[p].receipt = "DONE" /\ NextAction(p) \in Reversible
              THEN "AVAILABLE" ELSE "")
    /\ run' = [run EXCEPT ![p].pc = "next", ![p].at = @ + 1,
                          ![p].simulated = @ \/ run[p].receipt = "SIMULATED",
                          ![p].failed = @ \/ run[p].receipt \in {"FAILED", "BLOCKED"}]
    /\ UNCHANGED <<decision, base, alert, record, situation, proc, history>>

\* Nothing failed and nothing was simulated: mitigate_alert.
RunMitigate(p) ==
    /\ Finished(p) /\ ~run[p].failed /\ ~run[p].simulated
    /\ alert' = [status |-> "CONTAINED", byHand |-> FALSE]
    /\ run' = [run EXCEPT ![p].pc = "settle"]
    /\ UNCHANGED <<decision, plan, base, record, situation, proc, history>>

Verdict(p) == IF run[p].failed THEN "FAILED"
              ELSE IF run[p].simulated THEN "SIMULATED" ELSE "DONE"

\* (mutant: the task stops at a failed plan)
RunSettleUnlessFailed(p) ==
    /\ run[p].pc = "settle" \/ (Finished(p) /\ ~run[p].failed /\ run[p].simulated)
    /\ decision' = [decision EXCEPT !.status = Verdict(p)]
    /\ run' = [run EXCEPT ![p].pc = "over"]
    /\ UNCHANGED <<plan, base, alert, record, situation, proc, history>>
RunSettle(p) ==
    /\ run[p].pc = "settle" \/ (Finished(p) /\ (run[p].failed \/ run[p].simulated))
    /\ decision' = [decision EXCEPT !.status = Verdict(p)]
    /\ run' = [run EXCEPT ![p].pc = "over"]
    /\ UNCHANGED <<plan, base, alert, record, situation, proc, history>>

-----------------------------------------------------------------------------
(* rollback_tier2_action, asked for by an analyst *)

RollbackRead(a, i) ==
    /\ i \in 1..Len(plan)
    /\ plan[i].status = "DONE" /\ plan[i].action \in Reversible
    /\ MayStart(a, "rollback")
    /\ proc' = [proc EXCEPT ![a] = [doing |-> "rollback", pc |-> "claim",
                    plan |-> <<plan[i].action>>, row |-> base + i, receipt |-> ""]]
    /\ UNCHANGED <<data, run, history>>

\* The claim is a conditional UPDATE: one of two analysts gets it.
\* (mutant: the claim is not conditional on the rollback's status)
ClaimableAlways(id) == Holds(id)
Claimable(id) == Holds(id) /\ UndoOf(id) \in {"AVAILABLE", "FAILED", "BLOCKED", "SIMULATED"}

RollbackClaim(a) ==
    /\ proc[a].pc = "claim"
    /\ IF Claimable(proc[a].row)
       THEN plan' = [plan EXCEPT ![proc[a].row - base].undo = "EXECUTING"] /\ Goes(a, "undo")
       ELSE Ends(a) /\ UNCHANGED plan
    /\ UNCHANGED <<decision, base, alert, record, situation, run, history>>

RollbackDeliver(a) ==
    /\ proc[a].pc = "undo"
    /\ \E receipt \in Outcomes :
        /\ proc' = [proc EXCEPT ![a].pc = "undone", ![a].receipt = receipt]
        /\ undone' = [undone EXCEPT ![proc[a].plan[1]] =
                                @ + (IF receipt = "DONE" THEN 1 ELSE 0)]
    /\ UNCHANGED <<data, run, sent, approved, dryRun, crashes>>

RollbackRecord(a) ==
    /\ proc[a].pc = "undone"
    /\ plan' = IF Holds(proc[a].row)
               THEN [plan EXCEPT ![proc[a].row - base].undo = proc[a].receipt]
               ELSE plan
    /\ IF proc[a].receipt = "DONE" THEN Goes(a, "reopen") ELSE Ends(a)
    /\ UNCHANGED <<decision, base, alert, record, situation, run, history>>

\* reopen_alert: the containment was lifted.
ReopenAlert(a) ==
    /\ proc[a].pc = "reopen"
    /\ alert' = [status |-> "PENDING", byHand |-> FALSE]
    /\ Ends(a)
    /\ UNCHANGED <<decision, plan, base, record, situation, run, history>>

-----------------------------------------------------------------------------
(* Death of the process, and its restart, perhaps with another setting of  *)
(* RESPONSE_DRY_RUN.  Nothing recovers what was in progress.               *)

Crash ==
    /\ crashes < MaxCrashes
    /\ crashes' = crashes + 1
    /\ dryRun' \in BOOLEAN
    /\ proc' = [p \in Procs |-> Idle]
    /\ run' = [p \in Approvers |-> IF run[p].pc \in {"none", "over"} THEN run[p]
                                   ELSE [run[p] EXCEPT !.pc = "lost"]]
    /\ UNCHANGED <<data, sent, undone, approved>>

-----------------------------------------------------------------------------
ProposalStep(p) == CreateRead(p) \/ CreateWrite(p) \/ ReadBack(p)
AnalysisStep(x) == \/ AttachAlert(x) \/ RebuildRead(x) \/ RebuildWrite(x)
                   \/ AutopilotDeclines(x) \/ AutopilotApproves(x)
RollbackStep(a) == \/ RollbackClaim(a) \/ RollbackDeliver(a)
                   \/ RollbackRecord(a) \/ ReopenAlert(a)
RunStep(p) == \/ RunStart(p) \/ RunLoad(p) \/ RunBlock(p) \/ RunDispatch(p)
              \/ RunDeliver(p) \/ RunRecord(p) \/ RunMitigate(p) \/ RunSettle(p)

Analyse(x) == \/ \E new \in Proposals : AnalyseFirst(x, new) \/ AnalyseAgain(x, new)
              \/ AnalysisStep(x)
Analyst(a) == \/ Ensure(a) \/ ApproveRead(a) \/ RejectRead(a) \/ RejectWrite(a)
              \/ EditRead(a) \/ EditWrite(a)
              \/ \E i \in 1..Len(plan) : RollbackRead(a, i)
              \/ RollbackStep(a)
Merge(m) == MergeRead(m) \/ MergeLoad(m) \/ MergeWrite(m)

Next ==
    \/ \E x \in Analysers : Analyse(x)
    \/ \E a \in Analysts : Analyst(a)
    \/ \E p \in Approvers : ProposalStep(p) \/ ApproveWrite(p) \/ RunStep(p)
    \/ \E m \in Mergers : Merge(m)
    \/ MarkContained
    \/ Crash

Spec == Init /\ [][Next]_vars

(* A task the event loop holds is scheduled, and a delivery ends: its       *)
(* attempts and each attempt's timeout are bounded.                         *)
FairSpec == Spec /\ \A p \in Approvers : WF_vars(RunStep(p))

-----------------------------------------------------------------------------
(* Properties *)

\* Every variable stays in its domain.
TypeOK ==
    /\ decision \in Decision
    /\ plan \in Seq(Row) /\ base \in Nat
    /\ alert \in [status : {"NONE", "PENDING", "CONTAINED", "SUPERSEDED"}, byHand : BOOLEAN]
    /\ record \in Seq(Actions)
    /\ situation \in [attached : BOOLEAN, merged : BOOLEAN]
    /\ proc \in [Procs -> Request]
    /\ run \in [Approvers -> Execution]
    /\ sent \in [Actions -> Nat] /\ undone \in [Actions -> Nat]
    /\ approved \in Seq(Actions)
    /\ dryRun \in BOOLEAN
    /\ crashes \in Nat

Started(p) == run[p].pc # "none"
Active(p) == run[p].pc \notin {"none", "over", "lost"}

\* A plan is carried out by one execution, however it was approved.
OneExecution == \A p, q \in Approvers : Started(p) /\ Started(q) => p = q

\* What is sent is what was approved: the snapshot an execution works from.
SendsWhatWasApproved ==
    \A p \in Approvers : run[p].pc \in {"next", "deliver", "record", "settle"}
                            => run[p].plan = approved

\* "A machine only takes actions it can take back": whatever the autopilot
\* approved is, action by action, what the action policy lets it run.
AutopilotWithinPolicy ==
    decision.machine => \A i \in 1..Len(approved) : approved[i] \in Unattended

\* Only an action that ran is taken back, and no more often than it ran,
\* whichever analysts ask at the same time.
UndoesOnlyWhatRan == \A a \in Actions : undone[a] <= sent[a]

\* A decision reads DONE, and an alert CONTAINED by its plan, only if an
\* execution had every action of its plan confirmed: a failed, blocked or
\* simulated delivery never passes for a containment.
Clean(p) == run[p].acked = Len(run[p].plan)
DoneIsEarned ==
    /\ decision.status = "DONE" => \E p \in Approvers : run[p].pc = "over" /\ Clean(p)
    /\ alert.status = "CONTAINED" /\ ~alert.byHand
           => \E p \in Approvers : run[p].pc \in {"settle", "over", "lost"} /\ Clean(p)

\* A situation that was merged away is not acted on any more.
MergedIsNotActedOn ==
    situation.merged => \A p \in Approvers : ~Active(p)

\* A containment that was lifted is not displayed as standing.
LiftedIsReopened ==
    alert.status = "CONTAINED" /\ ~alert.byHand =>
        \A i \in 1..Len(plan) :
            plan[i].undo = "DONE" => \E a \in Analysts : proc[a].pc = "reopen"

\* Past PENDING, or corrected by a person, the analysed record is history.
Settled == decision.status \notin {"NONE", "PENDING"} \/ decision.human
RecordIsHistory == [][Settled => UNCHANGED record]_vars

\* The decision follows the life cycle the docstrings promise.
Lifecycle == INSTANCE DecisionLifecycle WITH
                 Plans <- Proposals \cup Corrections,
                 status <- decision.status,
                 steps <- ActionsOf(plan)
FollowsLifecycle == Lifecycle!Spec

\* An approved plan is carried through to an outcome, whatever else the
\* analysts, the analyses and the merges do, as long as the process lives.
ApprovedSettles ==
    decision.status \in {"APPROVED", "EXECUTING"}
        ~> decision.status \in {"DONE", "FAILED", "SIMULATED"} \/ crashes > 0

=============================================================================
