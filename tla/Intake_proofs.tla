---------------------------- MODULE Intake_proofs ----------------------------
(***************************************************************************)
(* What holds of the analysis queue, and of the way from a detection to a  *)
(* decision, for every number of situations, detections, workers, callers, *)
(* jobs, attempts and deaths of the process.                               *)
(*                                                                         *)
(* The queue.  TypeOK is inductive as it stands.  The other theorems need  *)
(* QInv: who holds _claim_lock, what the row of a half-finished handler    *)
(* still looks like, and how much of its budget a row in each status may   *)
(* have spent.  They hold when retries by hand do not overlap              *)
(* (OneOperator): of two that revive one dead letter, the second may write *)
(* after a worker's claim of the first, and the row is then run twice.     *)
(*                                                                         *)
(* The intake.  Every step of it is a step of the queue, so that what is   *)
(* proved of the queue holds here.  The rest needs InTurn: one detection   *)
(* is taken in at a time, and nobody revives a dead letter while its       *)
(* situation has another job.  Then a situation has one job, hence one run *)
(* of its analysis (OneRunner), and what that run has read still stands    *)
(* when it writes (Knows).  IntakeTwoAlerts.cfg shows what two intakes at  *)
(* once do.                                                                *)
(***************************************************************************)
EXTENDS Intake, FiniteSetTheorems, TLAPS

-----------------------------------------------------------------------------
(* Helpers *)

\* The places of due rows are natural numbers.
LEMMA PlacesAreNat ==
    ASSUME TypeOK
    PROVE  /\ LastPlace \in Nat
           /\ \A S \in SUBSET JobIds : Cardinality(S) \in Nat
<1>1. IsFiniteSet(JobIds)
  BY FS_Interval, QueueAssumption DEF JobIds
<1>2. \A S \in SUBSET JobIds : Cardinality(S) \in Nat
  BY <1>1, FS_Subset, FS_CardinalityType
<1>3. {j \in JobIds : due[j] > 0} \in SUBSET JobIds
  OBVIOUS
<1>4. QED
  BY <1>2, <1>3 DEF LastPlace

\* A row that leaves its place, or takes the last one, keeps due well typed.
LEMMA LeavesType ==
    ASSUME TypeOK, NEW j \in JobIds
    PROVE  /\ Leaves(due, j) \in [JobIds -> Nat]
           /\ JoinsLast(j) \in [JobIds -> Nat]
<1>1. Leaves(due, j) \in [JobIds -> Nat]
  BY DEF TypeOK, Leaves
<1>2. Cardinality({i \in JobIds \ {j} : due[i] > 0}) + 1 \in Nat
  <2>1. {i \in JobIds \ {j} : due[i] > 0} \in SUBSET JobIds
    OBVIOUS
  <2>2. Cardinality({i \in JobIds \ {j} : due[i] > 0}) \in Nat
    BY <2>1, PlacesAreNat
  <2>3. QED
    BY <2>2
<1>3. QED
  BY <1>1, <1>2 DEF JoinsLast

-----------------------------------------------------------------------------
(* Types *)

LEMMA TypeInit == Init => TypeOK
  BY QueueAssumption DEF Init, TypeOK, Idle, NoRow, Row, Status, Proc, Where

\* A coroutine past its first read works on a row that exists.  (Goes with
\* TypeOK: the writes of a handler are to jobs[proc[p].job].)
WorksOnRow ==
    \A p \in Procs :
        /\ proc[p].pc \in {"claim", "analysing", "settleFailed", "requeue"}
               => proc[p].job \in JobIds
        /\ proc[p].pc \in {"enqueueRunning", "insertRunning", "enqueue", "insertPending"}
               => p \in Callers

LEMMA TypeStep == TypeOK /\ WorksOnRow /\ [Next]_vars => TypeOK' /\ WorksOnRow'
<1> SUFFICES ASSUME TypeOK, WorksOnRow, [Next]_vars
             PROVE  TypeOK' /\ WorksOnRow'
  OBVIOUS
<1> USE QueueAssumption DEF TypeOK, WorksOnRow, Row, Status, Proc, Where, Idle, Procs
<1>1. ASSUME NEW c \in Callers, NEW s \in Situations, Submit(c, s)
      PROVE  TypeOK' /\ WorksOnRow'
  BY <1>1 DEF Submit
<1>2. ASSUME NEW c \in Callers, EnqueueRunningRead(c) PROVE TypeOK' /\ WorksOnRow'
  <2>1. CASE proc' = [proc EXCEPT ![c].pc = "enqueue"] /\ lock' = lock
    BY <1>2, <2>1 DEF EnqueueRunningRead
  <2>2. CASE proc' = [proc EXCEPT ![c].pc = "insertRunning"] /\ lock' = c
    BY <1>2, <2>2 DEF EnqueueRunningRead
  <2>3. QED
    BY <1>2, <2>1, <2>2 DEF EnqueueRunningRead, Goto
<1>3. ASSUME NEW c \in Callers, EnqueueRunningInsert(c) PROVE TypeOK' /\ WorksOnRow'
  <2>1. PICK j \in JobIds :
            /\ jobs' = [jobs EXCEPT ![j] = [sit |-> proc[c].sit,
                                            status |-> "RUNNING", attempts |-> 1]]
            /\ proc' = [proc EXCEPT ![c].pc = "analysing", ![c].job = j]
    BY <1>3 DEF EnqueueRunningInsert
  <2>2. jobs' \in [JobIds -> Row]
    BY <2>1
  <2>3. proc' \in [Procs -> Proc]
    <3>1. proc[c] \in Proc /\ j \in JobIds \cup {0} /\ "analysing" \in Where
      BY <2>1
    <3>2. [proc[c] EXCEPT !.pc = "analysing", !.job = j] \in Proc
      BY <3>1
    <3>3. proc' = [proc EXCEPT ![c] = [proc[c] EXCEPT !.pc = "analysing", !.job = j]]
      BY <2>1
    <3>4. QED
      BY <3>2, <3>3
  <2>4. WorksOnRow'
    <3>1. \A p \in Procs : p # c => proc'[p] = proc[p]
      BY <2>1
    <3>2. proc'[c].pc = "analysing" /\ proc'[c].job = j
      BY <2>1
    <3>3. QED
      BY <3>1, <3>2
  <2>5. QED
    BY <2>2, <2>3, <2>4, <1>3 DEF EnqueueRunningInsert
<1>4. ASSUME NEW c \in Callers, EnqueueRead(c) PROVE TypeOK' /\ WorksOnRow'
  BY <1>4 DEF EnqueueRead, Goto, Return
<1>5. ASSUME NEW c \in Callers, EnqueueInsert(c) PROVE TypeOK' /\ WorksOnRow'
  <2>1. PICK j \in JobIds : /\ jobs' = [jobs EXCEPT ![j] = [sit |-> proc[c].sit,
                                            status |-> "PENDING", attempts |-> 0]]
                            /\ due' = JoinsLast(j)
    BY <1>5 DEF EnqueueInsert
  <2>2. due' \in [JobIds -> Nat]
    BY <2>1, LeavesType
  <2>3. jobs' \in [JobIds -> Row]
    BY <2>1
  <2>4. QED
    BY <2>2, <2>3, <1>5 DEF EnqueueInsert, Return
<1>6. ASSUME NEW w \in Workers, ClaimRead(w) PROVE TypeOK' /\ WorksOnRow'
  BY <1>6 DEF ClaimRead
<1>7. ASSUME NEW w \in Workers, ClaimWrite(w) PROVE TypeOK' /\ WorksOnRow'
  <2>1. due' \in [JobIds -> Nat]
    BY <1>7, LeavesType DEF ClaimWrite
  <2>2. jobs' \in [JobIds -> Row]
    BY <1>7 DEF ClaimWrite, SetRow
  <2>3. proc' \in [Procs -> Proc] /\ WorksOnRow'
    BY <1>7 DEF ClaimWrite, Goto
  <2>4. lock' \in Procs \cup {Nobody} /\ UNCHANGED <<up, crashes, dbErrors>>
    BY <1>7 DEF ClaimWrite
  <2>5. QED
    BY <2>1, <2>2, <2>3, <2>4
<1>8. ASSUME NEW p \in Workers \cup Callers, SettleSuccess(p) PROVE TypeOK' /\ WorksOnRow'
  <2>1. due' \in [JobIds -> Nat]
    BY <1>8, LeavesType DEF SettleSuccess
  <2>2. QED
    BY <2>1, <1>8 DEF SettleSuccess, Return
<1>9. ASSUME NEW p \in Workers \cup Callers, AnalysisFails(p) PROVE TypeOK' /\ WorksOnRow'
  BY <1>9 DEF AnalysisFails
<1>10. ASSUME NEW p \in Workers \cup Callers, SettleFailure(p) PROVE TypeOK' /\ WorksOnRow'
  <2>1. due' \in [JobIds -> Nat]
    BY <1>10, LeavesType DEF SettleFailure
  <2>2. QED
    BY <2>1, <1>10 DEF SettleFailure, Return
<1>11. ASSUME NEW p \in Workers \cup Callers, SettleLost(p) PROVE TypeOK' /\ WorksOnRow'
  BY <1>11 DEF SettleLost, Return
<1>12. ASSUME NEW o \in Operators, NEW j \in JobIds, RetryRead(o, j)
       PROVE  TypeOK' /\ WorksOnRow'
  BY <1>12 DEF RetryRead
<1>13. ASSUME NEW o \in Operators, RetryWrite(o) PROVE TypeOK' /\ WorksOnRow'
  <2>1. due' \in [JobIds -> Nat]
    BY <1>13, LeavesType DEF RetryWrite
  <2>2. QED
    BY <2>1, <1>13 DEF RetryWrite, SetRow, Return
<1>14. ASSUME NEW j \in JobIds, BackoffElapses(j) PROVE TypeOK' /\ WorksOnRow'
  BY <1>14, LeavesType DEF BackoffElapses
<1>15. ASSUME Crash PROVE TypeOK' /\ WorksOnRow'
  <2>1. Idle \in Proc
    OBVIOUS
  <2>2. proc' \in [Procs -> Proc] /\ \A p \in Procs : proc'[p].pc = "idle"
    BY <1>15, <2>1 DEF Crash
  <2>3. WorksOnRow'
    BY <2>2
  <2>4. TypeOK'
    <3>1. up' \in BOOLEAN
      BY <1>15, Zenon DEF Crash
    <3>2. crashes' \in Nat /\ jobs' = jobs /\ due' = due /\ lock' = Nobody /\ dbErrors' = dbErrors
      BY <1>15 DEF Crash
    <3>3. QED
      BY <2>2, <3>1, <3>2
  <2>5. QED
    BY <2>3, <2>4
<1>16. ASSUME Restart PROVE TypeOK' /\ WorksOnRow'
  <2>1. \A j \in JobIds : LastPlace + Cardinality({i \in Orphans : i <= j}) \in Nat
    <3>1. \A j \in JobIds : {i \in Orphans : i <= j} \in SUBSET JobIds
      BY DEF Orphans
    <3>2. \A j \in JobIds : Cardinality({i \in Orphans : i <= j}) \in Nat
      BY <3>1, PlacesAreNat
    <3>3. QED
      BY <3>2, PlacesAreNat
  <2>2. due' \in [JobIds -> Nat]
    BY <2>1, <1>16 DEF Restart
  <2>3. QED
    BY <2>2, <1>16 DEF Restart
<1>17. CASE UNCHANGED vars
  BY <1>17 DEF vars
<1>18. QED
  BY <1>1, <1>2, <1>3, <1>4, <1>5, <1>6, <1>7, <1>8, <1>9, <1>10, <1>11, <1>12,
     <1>13, <1>14, <1>15, <1>16, <1>17
     DEF Next, CallerStep, WorkerStep, RunStep, OperatorStep

\* Every reachable state of the queue is well typed, whatever the instance.
THEOREM TypeCorrect == Spec => []TypeOK
<1>1. Init => WorksOnRow
  BY DEF Init, Idle, WorksOnRow
<1>2. QED
  BY <1>1, TypeInit, TypeStep, PTL DEF Spec

-----------------------------------------------------------------------------
(* The inductive invariant *)

OneOperator == \A o1, o2 \in Operators : o1 = o2

\* Whoever is between the read and the write under _claim_lock holds it.
LockInv == \A p \in Procs : proc[p].pc \in {"insertRunning", "claim"} => lock = p

\* Nothing runs while the process is down.
DownInv == ~up => \A p \in Procs : proc[p].pc = "idle"

\* Each kind of coroutine stays in its own handlers.
RoleInv == \A p \in Procs : /\ proc[p].pc = "requeue" <=> p \in Operators /\ proc[p].pc # "idle"
                            /\ proc[p].pc = "claim" => p \in Workers

\* The row a handler decided on still is as the handler read it.
RowInv ==
    \A p \in Procs : LET row == jobs[proc[p].job] IN
        /\ proc[p].pc = "claim" => row.status = "PENDING" /\ row.attempts = proc[p].seen
        /\ RunsJob(p) => row.status = "RUNNING"
        /\ proc[p].pc = "settleFailed" => row.attempts = proc[p].seen
        /\ proc[p].pc = "requeue" => row.status = "FAILED"

\* What a row may have spent of its budget: a row that waits can still be
\* attempted, one that runs spent the attempt it is in, and a row that was
\* running when the process died is due for the attempt the crash cost it.
BudgetInv ==
    \A j \in JobIds :
        /\ jobs[j].attempts <= MaxAttempts + crashes
        /\ jobs[j].status = "PENDING" => jobs[j].attempts < MaxAttempts + crashes
        /\ jobs[j].status = "RUNNING" /\ ~up => jobs[j].attempts < MaxAttempts + crashes

QInv == /\ TypeOK /\ WorksOnRow
        /\ LockInv /\ DownInv /\ RoleInv /\ RowInv /\ NoDoubleRun /\ BudgetInv
-----------------------------------------------------------------------------
LEMMA QInvInit == Init => QInv
<1> SUFFICES ASSUME Init PROVE QInv
  OBVIOUS
<1>1. TypeOK /\ \A p \in Procs : proc[p] = Idle
  BY TypeInit DEF Init
<1>2. QED
  BY <1>1, QueueAssumption
     DEF Init, QInv, WorksOnRow, LockInv, DownInv, RoleInv, RowInv, NoDoubleRun,
         RunsJob, BudgetInv, Idle, NoRow

LEMMA QInvStep == QInv /\ OneOperator /\ [Next]_vars => QInv'
<1> SUFFICES ASSUME QInv, OneOperator, [Next]_vars
             PROVE  QInv'
  OBVIOUS
<1> DEFINE Rest == LockInv /\ DownInv /\ RoleInv /\ RowInv /\ NoDoubleRun /\ BudgetInv
<1>1. TypeOK' /\ WorksOnRow'
  BY TypeStep DEF QInv
<1> USE <1>1, QueueAssumption
    DEF QInv, TypeOK, WorksOnRow, Procs, Row, Proc, RunsJob
<1>2. ASSUME NEW c \in Callers, NEW s \in Situations, Submit(c, s) PROVE Rest'
  <2>1. LockInv'
    BY <1>2 DEF Submit, Idle, LockInv
  <2>2. DownInv'
    BY <1>2 DEF Submit, Idle, DownInv
  <2>3. RoleInv'
    BY <1>2 DEF Submit, Idle, RoleInv, DownInv
  <2>4. RowInv'
    BY <1>2 DEF Submit, Idle, RowInv, NoDoubleRun, LockInv, RoleInv, DownInv
  <2>5. NoDoubleRun'
    BY <1>2 DEF Submit, Idle, RowInv, NoDoubleRun, LockInv, RoleInv, DownInv
  <2>6. BudgetInv'
    BY <1>2 DEF Submit, Idle, BudgetInv, RowInv, DownInv
  <2>7. QED
    BY <2>1, <2>2, <2>3, <2>4, <2>5, <2>6
<1>3. ASSUME NEW c \in Callers, EnqueueRunningRead(c) PROVE Rest'
  <2>1. LockInv'
    BY <1>3 DEF EnqueueRunningRead, Goto, LockInv
  <2>2. DownInv'
    BY <1>3 DEF EnqueueRunningRead, Goto, DownInv
  <2>3. RoleInv'
    BY <1>3 DEF EnqueueRunningRead, Goto, RoleInv, DownInv
  <2>4. RowInv'
    BY <1>3 DEF EnqueueRunningRead, Goto, RowInv, NoDoubleRun, LockInv, RoleInv, DownInv
  <2>5. NoDoubleRun'
    BY <1>3 DEF EnqueueRunningRead, Goto, RowInv, NoDoubleRun, LockInv, RoleInv, DownInv
  <2>6. BudgetInv'
    BY <1>3 DEF EnqueueRunningRead, Goto, BudgetInv, RowInv, DownInv
  <2>7. QED
    BY <2>1, <2>2, <2>3, <2>4, <2>5, <2>6
<1>4. ASSUME NEW c \in Callers, EnqueueRunningInsert(c) PROVE Rest'
  <2>1. LockInv'
    BY <1>4 DEF EnqueueRunningInsert, IsNextId, LockInv
  <2>2. DownInv'
    BY <1>4 DEF EnqueueRunningInsert, IsNextId, DownInv
  <2>3. RoleInv'
    BY <1>4 DEF EnqueueRunningInsert, IsNextId, RoleInv, DownInv
  <2>4. RowInv'
    BY <1>4 DEF EnqueueRunningInsert, IsNextId, RowInv, NoDoubleRun, LockInv, RoleInv, DownInv
  <2>5. NoDoubleRun'
    BY <1>4 DEF EnqueueRunningInsert, IsNextId, RowInv, NoDoubleRun, LockInv, RoleInv, DownInv
  <2>6. BudgetInv'
    <3>1. PICK j \in JobIds :
              jobs' = [jobs EXCEPT ![j] = [sit |-> proc[c].sit,
                                           status |-> "RUNNING", attempts |-> 1]]
      BY <1>4 DEF EnqueueRunningInsert
    <3>2. up' = up /\ up /\ crashes' = crashes
      BY <1>4 DEF EnqueueRunningInsert, DownInv
    <3>3. 1 <= MaxAttempts + crashes
      OBVIOUS
    <3>4. jobs'[j].attempts = 1 /\ jobs'[j].status = "RUNNING"
      BY <3>1
    <3>5. \A i \in JobIds : i # j => jobs'[i] = jobs[i]
      BY <3>1
    <3>6. QED
      BY <3>2, <3>3, <3>4, <3>5 DEF BudgetInv
  <2>7. QED
    BY <2>1, <2>2, <2>3, <2>4, <2>5, <2>6
<1>5. ASSUME NEW c \in Callers, EnqueueRead(c) PROVE Rest'
  <2>1. LockInv'
    BY <1>5 DEF EnqueueRead, Goto, Return, Idle, LockInv
  <2>2. DownInv'
    BY <1>5 DEF EnqueueRead, Goto, Return, Idle, DownInv
  <2>3. RoleInv'
    BY <1>5 DEF EnqueueRead, Goto, Return, Idle, RoleInv, DownInv
  <2>4. RowInv'
    BY <1>5 DEF EnqueueRead, Goto, Return, Idle, RowInv, NoDoubleRun, LockInv, RoleInv, DownInv
  <2>5. NoDoubleRun'
    BY <1>5 DEF EnqueueRead, Goto, Return, Idle, RowInv, NoDoubleRun, LockInv, RoleInv, DownInv
  <2>6. BudgetInv'
    BY <1>5 DEF EnqueueRead, Goto, Return, Idle, BudgetInv, RowInv, DownInv
  <2>7. QED
    BY <2>1, <2>2, <2>3, <2>4, <2>5, <2>6
<1>6. ASSUME NEW c \in Callers, EnqueueInsert(c) PROVE Rest'
  <2>1. LockInv'
    BY <1>6 DEF EnqueueInsert, IsNextId, Return, Idle, LockInv
  <2>2. DownInv'
    BY <1>6 DEF EnqueueInsert, IsNextId, Return, Idle, DownInv
  <2>3. RoleInv'
    BY <1>6 DEF EnqueueInsert, IsNextId, Return, Idle, RoleInv, DownInv
  <2>4. RowInv'
    BY <1>6 DEF EnqueueInsert, IsNextId, Return, Idle, RowInv, NoDoubleRun, LockInv, RoleInv, DownInv
  <2>5. NoDoubleRun'
    BY <1>6 DEF EnqueueInsert, IsNextId, Return, Idle, RowInv, NoDoubleRun, LockInv, RoleInv, DownInv
  <2>6. BudgetInv'
    BY <1>6 DEF EnqueueInsert, IsNextId, Return, Idle, BudgetInv, RowInv, DownInv
  <2>7. QED
    BY <2>1, <2>2, <2>3, <2>4, <2>5, <2>6
<1>7. ASSUME NEW w \in Workers, ClaimRead(w) PROVE Rest'
  <2>1. LockInv'
    BY <1>7 DEF ClaimRead, IsOldestDue, IsDue, LockInv
  <2>2. DownInv'
    BY <1>7 DEF ClaimRead, IsOldestDue, IsDue, DownInv
  <2>3. RoleInv'
    BY <1>7 DEF ClaimRead, IsOldestDue, IsDue, RoleInv, DownInv
  <2>4. RowInv'
    BY <1>7 DEF ClaimRead, IsOldestDue, IsDue, RowInv, NoDoubleRun, LockInv, RoleInv, DownInv
  <2>5. NoDoubleRun'
    BY <1>7 DEF ClaimRead, IsOldestDue, IsDue, RowInv, NoDoubleRun, LockInv, RoleInv, DownInv
  <2>6. BudgetInv'
    BY <1>7 DEF ClaimRead, IsOldestDue, IsDue, BudgetInv, RowInv, DownInv
  <2>7. QED
    BY <2>1, <2>2, <2>3, <2>4, <2>5, <2>6
<1>8. ASSUME NEW w \in Workers, ClaimWrite(w) PROVE Rest'
  <2>1. LockInv'
    BY <1>8 DEF ClaimWrite, SetRow, Goto, LockInv
  <2>2. DownInv'
    BY <1>8 DEF ClaimWrite, SetRow, Goto, DownInv
  <2>3. RoleInv'
    BY <1>8 DEF ClaimWrite, SetRow, Goto, RoleInv, DownInv
  <2>4. RowInv'
    BY <1>8 DEF ClaimWrite, SetRow, Goto, RowInv, NoDoubleRun, LockInv, RoleInv, DownInv
  <2>5. NoDoubleRun'
    BY <1>8 DEF ClaimWrite, SetRow, Goto, RowInv, NoDoubleRun, LockInv, RoleInv, DownInv
  <2>6. BudgetInv'
    BY <1>8 DEF ClaimWrite, SetRow, Goto, BudgetInv, RowInv, DownInv
  <2>7. QED
    BY <2>1, <2>2, <2>3, <2>4, <2>5, <2>6
<1>9. ASSUME NEW p \in Workers \cup Callers, SettleSuccess(p) PROVE Rest'
  <2>1. LockInv'
    BY <1>9 DEF SettleSuccess, Return, Idle, LockInv
  <2>2. DownInv'
    BY <1>9 DEF SettleSuccess, Return, Idle, DownInv
  <2>3. RoleInv'
    BY <1>9 DEF SettleSuccess, Return, Idle, RoleInv, DownInv
  <2>4. RowInv'
    BY <1>9 DEF SettleSuccess, Return, Idle, RowInv, NoDoubleRun, LockInv, RoleInv, DownInv
  <2>5. NoDoubleRun'
    BY <1>9 DEF SettleSuccess, Return, Idle, RowInv, NoDoubleRun, LockInv, RoleInv, DownInv
  <2>6. BudgetInv'
    BY <1>9 DEF SettleSuccess, Return, Idle, BudgetInv, RowInv, DownInv
  <2>7. QED
    BY <2>1, <2>2, <2>3, <2>4, <2>5, <2>6
<1>10. ASSUME NEW p \in Workers \cup Callers, AnalysisFails(p) PROVE Rest'
  <2>1. LockInv'
    BY <1>10 DEF AnalysisFails, LockInv
  <2>2. DownInv'
    BY <1>10 DEF AnalysisFails, DownInv
  <2>3. RoleInv'
    BY <1>10 DEF AnalysisFails, RoleInv, DownInv
  <2>4. RowInv'
    BY <1>10 DEF AnalysisFails, RowInv, NoDoubleRun, LockInv, RoleInv, DownInv
  <2>5. NoDoubleRun'
    BY <1>10 DEF AnalysisFails, RowInv, NoDoubleRun, LockInv, RoleInv, DownInv
  <2>6. BudgetInv'
    BY <1>10 DEF AnalysisFails, BudgetInv, RowInv, DownInv
  <2>7. QED
    BY <2>1, <2>2, <2>3, <2>4, <2>5, <2>6
<1>11. ASSUME NEW p \in Workers \cup Callers, SettleFailure(p) PROVE Rest'
  <2>1. LockInv'
    BY <1>11 DEF SettleFailure, Exhausted, Return, Idle, LockInv
  <2>2. DownInv'
    BY <1>11 DEF SettleFailure, Exhausted, Return, Idle, DownInv
  <2>3. RoleInv'
    BY <1>11 DEF SettleFailure, Exhausted, Return, Idle, RoleInv, DownInv
  <2>4. RowInv'
    BY <1>11 DEF SettleFailure, Exhausted, Return, Idle, RowInv, NoDoubleRun, LockInv, RoleInv, DownInv
  <2>5. NoDoubleRun'
    BY <1>11 DEF SettleFailure, Exhausted, Return, Idle, RowInv, NoDoubleRun, LockInv, RoleInv, DownInv
  <2>6. BudgetInv'
    BY <1>11 DEF SettleFailure, Exhausted, Return, Idle, BudgetInv, RowInv, DownInv
  <2>7. QED
    BY <2>1, <2>2, <2>3, <2>4, <2>5, <2>6
<1>12. ASSUME NEW p \in Workers \cup Callers, SettleLost(p) PROVE Rest'
  <2>1. LockInv'
    BY <1>12 DEF SettleLost, Return, Idle, LockInv
  <2>2. DownInv'
    BY <1>12 DEF SettleLost, Return, Idle, DownInv
  <2>3. RoleInv'
    BY <1>12 DEF SettleLost, Return, Idle, RoleInv, DownInv
  <2>4. RowInv'
    BY <1>12 DEF SettleLost, Return, Idle, RowInv, NoDoubleRun, LockInv, RoleInv, DownInv
  <2>5. NoDoubleRun'
    BY <1>12 DEF SettleLost, Return, Idle, RowInv, NoDoubleRun, LockInv, RoleInv, DownInv
  <2>6. BudgetInv'
    BY <1>12 DEF SettleLost, Return, Idle, BudgetInv, RowInv, DownInv
  <2>7. QED
    BY <2>1, <2>2, <2>3, <2>4, <2>5, <2>6
<1>13. ASSUME NEW o \in Operators, NEW j \in JobIds, RetryRead(o, j) PROVE Rest'
  <2>1. LockInv'
    BY <1>13 DEF RetryRead, LockInv
  <2>2. DownInv'
    BY <1>13 DEF RetryRead, DownInv
  <2>3. RoleInv'
    BY <1>13 DEF RetryRead, RoleInv, DownInv
  <2>4. RowInv'
    BY <1>13 DEF RetryRead, RowInv, NoDoubleRun, LockInv, RoleInv, DownInv, OneOperator
  <2>5. NoDoubleRun'
    BY <1>13 DEF RetryRead, RowInv, NoDoubleRun, LockInv, RoleInv, DownInv, OneOperator
  <2>6. BudgetInv'
    BY <1>13 DEF RetryRead, BudgetInv, RowInv, DownInv
  <2>7. QED
    BY <2>1, <2>2, <2>3, <2>4, <2>5, <2>6
<1>14. ASSUME NEW o \in Operators, RetryWrite(o) PROVE Rest'
  <2>1. LockInv'
    BY <1>14 DEF RetryWrite, SetRow, Return, Idle, LockInv
  <2>2. DownInv'
    BY <1>14 DEF RetryWrite, SetRow, Return, Idle, DownInv
  <2>3. RoleInv'
    BY <1>14 DEF RetryWrite, SetRow, Return, Idle, RoleInv, DownInv
  <2>4. RowInv'
    BY <1>14 DEF RetryWrite, SetRow, Return, Idle, RowInv, NoDoubleRun, LockInv, RoleInv, DownInv, OneOperator
  <2>5. NoDoubleRun'
    BY <1>14 DEF RetryWrite, SetRow, Return, Idle, RowInv, NoDoubleRun, LockInv, RoleInv, DownInv, OneOperator
  <2>6. BudgetInv'
    <3> DEFINE j == proc[o].job
    <3>1. up' = up /\ crashes' = crashes /\ j \in JobIds
      BY <1>14 DEF RetryWrite
    <3>2. jobs'[j].attempts = 0 /\ jobs'[j].status = "PENDING"
      BY <1>14, <3>1 DEF RetryWrite, SetRow
    <3>3. \A i \in JobIds : i # j => jobs'[i] = jobs[i]
      BY <1>14, <3>1 DEF RetryWrite, SetRow
    <3>4. 0 < MaxAttempts + crashes
      OBVIOUS
    <3> HIDE DEF j
    <3>5. QED
      BY <3>1, <3>2, <3>3, <3>4 DEF BudgetInv
  <2>7. QED
    BY <2>1, <2>2, <2>3, <2>4, <2>5, <2>6
<1>15. ASSUME NEW j \in JobIds, BackoffElapses(j) PROVE Rest'
  <2>1. LockInv'
    BY <1>15 DEF BackoffElapses, LockInv
  <2>2. DownInv'
    BY <1>15 DEF BackoffElapses, DownInv
  <2>3. RoleInv'
    BY <1>15 DEF BackoffElapses, RoleInv, DownInv
  <2>4. RowInv'
    BY <1>15 DEF BackoffElapses, RowInv, NoDoubleRun, LockInv, RoleInv, DownInv
  <2>5. NoDoubleRun'
    BY <1>15 DEF BackoffElapses, RowInv, NoDoubleRun, LockInv, RoleInv, DownInv
  <2>6. BudgetInv'
    BY <1>15 DEF BackoffElapses, BudgetInv, RowInv, DownInv
  <2>7. QED
    BY <2>1, <2>2, <2>3, <2>4, <2>5, <2>6
<1>16. ASSUME Crash PROVE Rest'
  <2>1. LockInv'
    BY <1>16 DEF Crash, Idle, LockInv
  <2>2. DownInv'
    BY <1>16 DEF Crash, Idle, DownInv
  <2>3. RoleInv'
    BY <1>16 DEF Crash, Idle, RoleInv, DownInv
  <2>4. RowInv'
    BY <1>16 DEF Crash, Idle, RowInv, NoDoubleRun, LockInv, RoleInv, DownInv
  <2>5. NoDoubleRun'
    BY <1>16 DEF Crash, Idle, RowInv, NoDoubleRun, LockInv, RoleInv, DownInv
  <2>6. BudgetInv'
    BY <1>16 DEF Crash, Idle, BudgetInv, RowInv, DownInv
  <2>7. QED
    BY <2>1, <2>2, <2>3, <2>4, <2>5, <2>6
<1>17. ASSUME Restart PROVE Rest'
  <2>1. LockInv'
    BY <1>17 DEF Restart, Orphans, LockInv
  <2>2. DownInv'
    BY <1>17 DEF Restart, Orphans, DownInv
  <2>3. RoleInv'
    BY <1>17 DEF Restart, Orphans, RoleInv, DownInv
  <2>4. RowInv'
    BY <1>17 DEF Restart, Orphans, RowInv, NoDoubleRun, LockInv, RoleInv, DownInv
  <2>5. NoDoubleRun'
    BY <1>17 DEF Restart, Orphans, RowInv, NoDoubleRun, LockInv, RoleInv, DownInv
  <2>6. BudgetInv'
    BY <1>17 DEF Restart, Orphans, BudgetInv, RowInv, DownInv
  <2>7. QED
    BY <2>1, <2>2, <2>3, <2>4, <2>5, <2>6
<1>18. CASE UNCHANGED vars
  BY <1>18 DEF vars, LockInv, DownInv, RoleInv, RowInv, NoDoubleRun, BudgetInv
<1>19. QED
  BY <1>2, <1>3, <1>4, <1>5, <1>6, <1>7, <1>8, <1>9, <1>10, <1>11, <1>12, <1>13, <1>14, <1>15, <1>16, <1>17, <1>18
     DEF Next, CallerStep, WorkerStep, RunStep, OperatorStep

\* The invariant holds throughout when retries by hand do not overlap.
THEOREM QInvCorrect == ASSUME OneOperator PROVE Spec => []QInv
<1>1. QInv /\ [Next]_vars => QInv'
  BY QInvStep
<1>2. QED
  BY <1>1, QInvInit, PTL DEF Spec

\* No row is ever run twice at once: claim, inline intake, settlement, a
\* retry by hand and a restart interleave in any order, for any number of
\* workers and callers.
THEOREM NeverDoubleRun == ASSUME OneOperator PROVE Spec => []NoDoubleRun
<1>1. QInv => NoDoubleRun
  BY DEF QInv
<1>2. QED
  BY <1>1, QInvCorrect, PTL

\* A row is attempted at most MaxAttempts times plus once per death of the
\* process.
THEOREM AttemptsStayBounded == ASSUME OneOperator PROVE Spec => []AttemptsBounded
<1>1. QInv => AttemptsBounded
  BY DEF QInv, BudgetInv, AttemptsBounded
<1>2. QED
  BY <1>1, QInvCorrect, PTL

-----------------------------------------------------------------------------
(* The queue implements the ledger *)

LEMMA LedgerInit == Init => Ledger!Init
  BY DEF Init, Ledger!Init, NoRow

LEMMA LedgerStep == QInv /\ [Next]_vars => [Ledger!Next]_(Ledger!ledger)
<1> SUFFICES ASSUME QInv, [Next]_vars
             PROVE  [Ledger!Next]_(Ledger!ledger)
  OBVIOUS
<1> DEFINE Same == \A j \in JobIds : /\ jobs'[j].status = jobs[j].status
                                     /\ jobs'[j].attempts = jobs[j].attempts
           Moves(j, from, to, count) ==
               /\ jobs[j].status = from
               /\ jobs'[j].status = to /\ jobs'[j].attempts = count
               /\ \A i \in JobIds : i # j => jobs'[i] = jobs[i]
<1> USE QueueAssumption DEF QInv, TypeOK, WorksOnRow, Row, Proc, Procs
<1>1. Same => UNCHANGED Ledger!ledger
  BY DEF Ledger!ledger
<1>2. ASSUME NEW j \in JobIds, NEW from, NEW to, NEW count, Moves(j, from, to, count)
      PROVE  Ledger!Move(j, from, to, count)
  BY <1>2 DEF Ledger!Move
<1> HIDE DEF Same, Moves
<1>3. ASSUME NEW c \in Callers, EnqueueRunningInsert(c) PROVE Ledger!Next
  <2>1. PICK j \in JobIds : Moves(j, "NONE", "RUNNING", 1)
    BY <1>3 DEF EnqueueRunningInsert, IsNextId, Moves
  <2>2. QED
    BY <2>1, <1>2 DEF Ledger!Next, Ledger!OweAndRun
<1>4. ASSUME NEW c \in Callers, EnqueueInsert(c) PROVE Ledger!Next
  <2>1. PICK j \in JobIds : Moves(j, "NONE", "PENDING", 0)
    BY <1>4 DEF EnqueueInsert, IsNextId, Moves
  <2>2. QED
    BY <2>1, <1>2 DEF Ledger!Next, Ledger!Owe
<1>5. ASSUME NEW w \in Workers, ClaimWrite(w) PROVE Ledger!Next
  <2>1. PICK j \in JobIds : j = proc[w].job
    BY <1>5 DEF ClaimWrite
  <2>2. Moves(j, "PENDING", "RUNNING", jobs[j].attempts + 1)
    BY <1>5, <2>1 DEF ClaimWrite, SetRow, RowInv, Moves
  <2>3. Ledger!Attempt(j)
    BY <2>2 DEF Moves, Ledger!Attempt, Ledger!Move
  <2>4. QED
    BY <2>3 DEF Ledger!Next
<1>6. ASSUME NEW p \in Workers \cup Callers, SettleSuccess(p) PROVE Ledger!Next
  <2>1. PICK j \in JobIds : j = proc[p].job
    BY <1>6 DEF SettleSuccess
  <2>2. Moves(j, "RUNNING", "DONE", jobs[j].attempts)
    BY <1>6, <2>1 DEF SettleSuccess, RowInv, RunsJob, Moves
  <2>3. Ledger!Answer(j)
    BY <2>2 DEF Moves, Ledger!Answer, Ledger!Move
  <2>4. QED
    BY <2>3 DEF Ledger!Next
<1>7. ASSUME NEW p \in Workers \cup Callers, SettleFailure(p) PROVE Ledger!Next
  <2>1. PICK j \in JobIds : j = proc[p].job /\ jobs[j].attempts = proc[p].seen
    BY <1>7 DEF SettleFailure, RowInv
  <2>2. CASE Exhausted(p)
    <3>1. Moves(j, "RUNNING", "FAILED", jobs[j].attempts)
      BY <1>7, <2>1, <2>2 DEF SettleFailure, RowInv, RunsJob, Moves
    <3>2. jobs[j].attempts >= MaxAttempts
      BY <2>1, <2>2 DEF Exhausted
    <3>3. Ledger!DeadLetter(j)
      BY <3>1, <3>2 DEF Moves, Ledger!DeadLetter, Ledger!Move
    <3>4. QED
      BY <2>1, <3>3 DEF Ledger!Next
  <2>3. CASE ~Exhausted(p)
    <3>1. Moves(j, "RUNNING", "PENDING", jobs[j].attempts)
      BY <1>7, <2>1, <2>3 DEF SettleFailure, RowInv, RunsJob, Moves
    <3>2. jobs[j].attempts < MaxAttempts
      BY <2>1, <2>3 DEF Exhausted
    <3>3. Ledger!Defer(j)
      BY <3>1, <3>2 DEF Moves, Ledger!Defer, Ledger!Move
    <3>4. QED
      BY <2>1, <3>3 DEF Ledger!Next
  <2>4. QED
    BY <2>2, <2>3
<1>8. ASSUME NEW o \in Operators, RetryWrite(o) PROVE Ledger!Next
  <2>1. PICK j \in JobIds : j = proc[o].job
    BY <1>8 DEF RetryWrite
  <2>2. Moves(j, "FAILED", "PENDING", 0)
    BY <1>8, <2>1 DEF RetryWrite, SetRow, RowInv, Moves
  <2>3. QED
    BY <2>1, <2>2, <1>2 DEF Ledger!Next, Ledger!Revive
<1>9. ASSUME Restart PROVE Ledger!Next
  <2>1. Ledger!Recover
    BY <1>9 DEF Restart, Orphans, Ledger!Recover
  <2>2. QED
    BY <2>1 DEF Ledger!Next
<1>10. CASE jobs' = jobs
  <2>1. Same
    BY <1>10 DEF Same
  <2>2. QED
    BY <1>1, <2>1
<1>11. QED
  BY <1>3, <1>4, <1>5, <1>6, <1>7, <1>8, <1>9, <1>10
     DEF Next, vars, CallerStep, WorkerStep, RunStep, OperatorStep, Submit,
         EnqueueRunningRead, EnqueueRead, ClaimRead, AnalysisFails, SettleLost,
         RetryRead, BackoffElapses, Crash

\* The rows of analysis_jobs follow JobLedger: what the module's comment and
\* docstrings promise of a row holds of the interleaved program.
THEOREM ImplementsLedger == ASSUME OneOperator PROVE Spec => FollowsLedger
<1>1. Spec => []QInv
  BY QInvCorrect
<1>2. QED
  BY <1>1, LedgerInit, LedgerStep, PTL DEF Spec, FollowsLedger, Ledger!Spec

-----------------------------------------------------------------------------
(* The intake *)

InTurn == /\ OneOperator /\ ~RetriesOverlap
          /\ \A c1, c2 \in Callers : c1 = c2

-----------------------------------------------------------------------------
(* The inductive invariant *)

Enqueuing == {"enqueueRunning", "insertRunning", "enqueue", "insertPending"}
OnRow == {"claim", "analysing", "settleFailed", "requeue"}
Carried(d) == \E c \in Callers : carries[c] = d

\* A caller submits the situation of the detection it carries.
CarryInv ==
    \A c \in Callers :
        /\ carries[c] # NoDetection => home[carries[c]] \in Situations
        /\ proc[c].pc \in Enqueuing => /\ carries[c] # NoDetection
                                       /\ proc[c].sit = home[carries[c]]

\* A caller about to insert is right that its situation has no job.
VacantInv == \A c \in Callers : proc[c].pc \in {"insertRunning", "insertPending"}
                                    => ~HasOutstanding(proc[c].sit)

\* Every row is of a situation, and a coroutine knows the one of its row.
SitInv ==
    /\ \A j \in JobIds : jobs[j].status # "NONE" => jobs[j].sit \in Situations
    /\ \A p \in Procs : proc[p].pc \in OnRow =>
           proc[p].sit = jobs[proc[p].job].sit /\ proc[p].sit \in Situations

RestInv == \A p \in Runners : proc[p].pc # "analysing" => work[p] = NoWork

JobsInv == CarryInv /\ VacantInv /\ SitInv /\ RestInv /\ OneJobPerSituation

\* The alert of a situation is its own and tells of its detections only.
AlertInv ==
    /\ \A s \in Situations : alertOf[s] # 0 =>
           /\ alert[alertOf[s]].sit = s
           /\ alert[alertOf[s]].basis \subseteq Members(s)
    /\ \A a \in Alerts : alert[a].sit = NoSituation => alert[a] = NoAlert /\ plan[a].state = "none"

\* A plan that waits tells what the alert it was made for told.
PlanFits(a, basis) == plan[a].state = "PENDING" => plan[a].basis = basis

\* What a run of an analysis has read, and written so far, still stands.
Knows(p) ==
    LET s == proc[p].sit
        a == work[p].alert
    IN
    /\ work[p].basis \subseteq Members(s)
    /\ \A d \in Members(s) \ excused : d \in work[p].basis \/ Carried(d)
    /\ work[p].at = "model" =>
           a = alertOf[s] /\ (a # 0 => alert[a].basis \subseteq work[p].basis)
    /\ work[p].at = "attach" => alertOf[s] = 0
    /\ work[p].at \in {"rebuild", "replan", "decide", "case", "done"} => a = alertOf[s]
    /\ work[p].at \notin {"load", "model"} =>
           a # 0 /\ alert[a] = [sit |-> s, basis |-> work[p].basis]
    /\ work[p].at \in {"attach", "decide", "case", "done"} => PlanFits(a, work[p].basis)
    /\ work[p].at \in {"replan", "case", "done"} => plan[a].state # "none"
    /\ work[p].at = "done" => caseOf[s] = a
WorkInv == \A p \in Runners : proc[p].pc = "analysing" /\ work[p].at # "load" => Knows(p)

IInv == /\ QInv /\ IntakeTypeOK /\ JobsInv /\ AlertInv /\ WorkInv
        /\ NothingForgotten /\ RecordsAgree /\ AlertsAccounted

-----------------------------------------------------------------------------
(* Every step of the intake is one of the queue *)

LEMMA QueueStep == CarryInv /\ [IntakeNext]_intakeVars => [Next]_vars
<1> SUFFICES ASSUME CarryInv, IntakeNext \/ UNCHANGED intakeVars
             PROVE  Next \/ UNCHANGED vars
  OBVIOUS
<1>1. ASSUME NEW c \in Callers, NEW d \in Detections, NEW s \in Situations, Correlate(c, d, s)
      PROVE  UNCHANGED vars
  BY <1>1 DEF Correlate
<1>2. ASSUME NEW c \in Callers, IngestStep(c) PROVE Next
  BY <1>2
     DEF Next, CallerStep, IngestStep, SubmitPlaced, LooksRunning, InsertsRunning,
         LooksOutstanding, InsertsPending, CarryInv
<1>3. ASSUME NEW w \in Workers, WorkerStep(w) PROVE Next
  BY <1>3 DEF Next
<1>4. ASSUME NEW p \in Runners, WorkStep(p) PROVE UNCHANGED vars
  BY <1>4 DEF WorkStep, Load, Rewrite, RebuildRead, RebuildWrite, Insert, Attach, Decide,
              EnsureCase, InWork
<1>5. ASSUME NEW p \in Runners, Succeeds(p) \/ Raises(p) \/ SettlesFailure(p) \/ LosesSettlement(p)
      PROVE  Next
  BY <1>5 DEF Succeeds, Raises, SettlesFailure, LosesSettlement, Runners, Next, RunStep
<1>6. ASSUME NEW o \in Operators, Requeue(o) PROVE Next
  BY <1>6 DEF Requeue, Next, OperatorStep
<1>7. ASSUME NEW a \in Alerts, Settle(a) \/ Backfill(a) PROVE UNCHANGED vars
  BY <1>7 DEF Settle, Backfill
<1>8. CASE UNCHANGED intakeVars
  BY <1>8 DEF intakeVars
<1>9. QED
  BY <1>1, <1>2, <1>3, <1>4, <1>5, <1>6, <1>7, <1>8 DEF IntakeNext, Next, Dies

-----------------------------------------------------------------------------
(* One run at a time *)

LEMMA OneRunner ==
    ASSUME QInv, SitInv, OneJobPerSituation,
           NEW p \in Procs, NEW q \in Procs, RunsJob(p), RunsJob(q), proc[p].sit = proc[q].sit
    PROVE  p = q
<1>1. /\ proc[p].job \in JobIds /\ jobs[proc[p].job].status = "RUNNING"
      /\ proc[q].job \in JobIds /\ jobs[proc[q].job].status = "RUNNING"
  BY DEF QInv, WorksOnRow, RowInv, RunsJob
<1>2. jobs[proc[p].job].sit = jobs[proc[q].job].sit
  BY DEF SitInv, RunsJob, OnRow
<1>3. proc[p].job = proc[q].job
  BY <1>1, <1>2 DEF OneJobPerSituation, Outstanding
<1>4. QED
  BY <1>3 DEF QInv, NoDoubleRun

-----------------------------------------------------------------------------
(* Types *)

LEMMA IntakeTypeInit == IntakeInit => IntakeTypeOK
  BY IntakeAssumption DEF IntakeInit, IntakeTypeOK, NoAlert, NoPlan, NoWork, NoCase, Alert, Plan,
     Work, Stages, Alerts

LEMMA IntakeTypeStep == QInv /\ JobsInv /\ IntakeTypeOK /\ [IntakeNext]_intakeVars => IntakeTypeOK'
<1> SUFFICES ASSUME QInv, JobsInv, IntakeTypeOK, IntakeNext \/ UNCHANGED intakeVars
             PROVE  IntakeTypeOK'
  OBVIOUS
<1> USE IntakeAssumption, QueueAssumption DEF IntakeTypeOK, records
<1>1. ASSUME NEW c \in Callers, NEW d \in Detections, NEW s \in Situations, Correlate(c, d, s)
      PROVE  IntakeTypeOK'
  BY <1>1 DEF Correlate
<1>2. ASSUME NEW c \in Callers, IngestStep(c) PROVE IntakeTypeOK'
  <2>1. carries' \in [Callers -> Detections \cup {NoDetection}]
    BY <1>2 DEF IngestStep, SubmitPlaced, LooksRunning, InsertsRunning, LooksOutstanding,
                InsertsPending, Answers
  <2>2. excused' \subseteq Detections
    <3>1. CASE LooksOutstanding(c)
      <4>1. carries[c] \in Detections
        BY <3>1 DEF LooksOutstanding, EnqueueRead, JobsInv, CarryInv, Enqueuing
      <4>2. QED
        BY <3>1, <4>1 DEF LooksOutstanding
    <3>2. QED
      BY <1>2, <3>1 DEF IngestStep, SubmitPlaced, LooksRunning, InsertsRunning, InsertsPending
  <2>3. UNCHANGED <<home, alertOf, alert, plan, caseOf, work>>
    BY <1>2 DEF IngestStep, SubmitPlaced, LooksRunning, InsertsRunning, LooksOutstanding,
                InsertsPending
  <2>4. QED
    BY <2>1, <2>2, <2>3
<1>3. ASSUME AsInQueue PROVE IntakeTypeOK'
  BY <1>3 DEF AsInQueue
<1>4. ASSUME NEW p \in Runners, WorkStep(p) PROVE IntakeTypeOK'
  <2> DEFINE s == proc[p].sit
             a == work[p].alert
  <2>1. /\ work[p] \in Work /\ p \in Procs
        /\ UNCHANGED <<home, carries, excused>>
    BY <1>4 DEF Runners, Procs, WorkStep, Load, Rewrite, RebuildRead, RebuildWrite, Insert, Attach,
                Decide, EnsureCase, InWork
  <2>2. s \in Situations
    BY <1>4, <2>1 DEF WorkStep, Load, Rewrite, RebuildRead, RebuildWrite, Insert, Attach,
                      Decide, EnsureCase, Runs, JobsInv, SitInv, OnRow
  <2>3. ASSUME NEW at \in Stages, Onto(p, at) PROVE work' \in [Runners -> Work]
    BY <2>1, <2>3 DEF Onto, Work
  <2>4. CASE Load(p)
    BY <2>1, <2>2, <2>4 DEF Load, Members, Work, Stages
  <2>5. CASE Rewrite(p)
    BY <2>1, <2>3, <2>5 DEF Rewrite, Work, Stages, Alert
  <2>6. CASE RebuildRead(p)
    BY <2>1, <2>3, <2>6 DEF RebuildRead, Stages
  <2>7. CASE RebuildWrite(p)
    <3>1. \A b \in Alerts : [plan[b] EXCEPT !.basis = work[p].basis] \in Plan
      BY <2>1 DEF Plan, Work
    <3>2. plan' \in [Alerts -> Plan]
      BY <3>1, <2>7 DEF RebuildWrite
    <3>3. QED
      BY <2>1, <2>3, <2>7, <3>2 DEF RebuildWrite, Stages
  <2>8. CASE Insert(p)
    <3>1. PICK b \in Alerts :
              /\ alert' = [alert EXCEPT ![b] = [sit |-> s, basis |-> work[p].basis]]
              /\ work' = [work EXCEPT ![p].at = "attach", ![p].alert = b]
      BY <2>8 DEF Insert
    <3>2. [work[p] EXCEPT !.at = "attach", !.alert = b] \in Work
      BY <2>1 DEF Work, Stages
    <3>3. work' = [work EXCEPT ![p] = [work[p] EXCEPT !.at = "attach", !.alert = b]]
      BY <3>1
    <3>4. work' \in [Runners -> Work]
      BY <3>2, <3>3
    <3>5. [sit |-> s, basis |-> work[p].basis] \in Alert
      BY <2>1, <2>2 DEF Alert, Work
    <3>6. alert' \in [Alerts -> Alert]
      BY <3>1, <3>5
    <3>7. QED
      BY <2>1, <2>8, <3>4, <3>6 DEF Insert
  <2>9. CASE Attach(p)
    BY <2>1, <2>2, <2>3, <2>9 DEF Attach, Work, Stages
  <2>10. CASE Decide(p)
    <3>1. [state |-> "PENDING", basis |-> work[p].basis] \in Plan
      BY <2>1 DEF Plan, Work
    <3>2. plan' \in [Alerts -> Plan]
      BY <3>1, <2>10 DEF Decide
    <3>3. QED
      BY <2>3, <2>10, <3>2, <2>1 DEF Decide, Stages
  <2>11. CASE EnsureCase(p)
    BY <2>1, <2>2, <2>3, <2>11 DEF EnsureCase, Stages, Work
  <2>12. QED
    BY <1>4, <2>4, <2>5, <2>6, <2>7, <2>8, <2>9, <2>10, <2>11 DEF WorkStep
<1>5. ASSUME NEW p \in Runners, Leave(p) PROVE IntakeTypeOK'
  BY <1>5 DEF Leave, NoWork, Work, Stages
<1>6. ASSUME NEW a \in Alerts, Settle(a) \/ Backfill(a) PROVE IntakeTypeOK'
  <2>1. /\ [plan[a] EXCEPT !.state = "SETTLED"] \in Plan
        /\ [state |-> "PENDING", basis |-> alert[a].basis] \in Plan
    BY DEF Plan, Alert
  <2>2. plan' \in [Alerts -> Plan]
    <3>1. CASE Settle(a)
      BY <3>1, <2>1 DEF Settle
    <3>2. CASE Backfill(a)
      BY <3>2, <2>1 DEF Backfill
    <3>3. QED
      BY <1>6, <3>1, <3>2
  <2>3. QED
    BY <1>6, <2>2 DEF Settle, Backfill
<1>7. ASSUME Dies PROVE IntakeTypeOK'
  <2>1. excused' \subseteq Detections
    BY <1>7 DEF Dies
  <2>2. work' \in [Runners -> Work] /\ carries' \in [Callers -> Detections \cup {NoDetection}]
    BY <1>7 DEF Dies, NoWork, Work, Stages
  <2>3. UNCHANGED <<home, alertOf, alert, plan, caseOf>>
    BY <1>7 DEF Dies
  <2>4. QED
    BY <2>1, <2>2, <2>3
<1>8. CASE UNCHANGED intakeVars
  BY <1>8 DEF intakeVars
<1>9. QED
  BY <1>1, <1>2, <1>3, <1>4, <1>5, <1>6, <1>7, <1>8
     DEF IntakeNext, Succeeds, Raises, SettlesFailure, LosesSettlement, Requeue
-----------------------------------------------------------------------------
(* Jobs *)

LEMMA JobsInit == IntakeInit => JobsInv
  BY QueueAssumption, IntakeAssumption
     DEF IntakeInit, Init, JobsInv, CarryInv, VacantInv, SitInv, RestInv, OneJobPerSituation,
         Enqueuing, OnRow, Outstanding, Idle, NoRow, Runners, Procs

LEMMA JobsStep == InTurn /\ QInv /\ IntakeTypeOK /\ JobsInv /\ [IntakeNext]_intakeVars => JobsInv'
<1> SUFFICES ASSUME InTurn, QInv, IntakeTypeOK, JobsInv, IntakeNext \/ UNCHANGED intakeVars
             PROVE  JobsInv'
  OBVIOUS
<1> USE QueueAssumption, IntakeAssumption
    DEF QInv, TypeOK, WorksOnRow, Row, Proc, Procs, RunsJob, JobsInv, Runners, IntakeTypeOK,
        Enqueuing, OnRow, records
<1>1. ASSUME NEW c \in Callers, NEW d \in Detections, NEW s \in Situations, Correlate(c, d, s)
      PROVE  JobsInv'
  <2>1. CarryInv'
    BY <1>1 DEF Correlate, vars, CarryInv
  <2>2. VacantInv'
    BY <1>1 DEF Correlate, vars, VacantInv, HasOutstanding, Outstanding, CarryInv, RowInv, InTurn
  <2>3. SitInv'
    BY <1>1 DEF Correlate, vars, SitInv, CarryInv, RoleInv, RowInv
  <2>4. RestInv'
    BY <1>1 DEF Correlate, vars, RestInv, RoleInv
  <2>5. OneJobPerSituation'
    BY <1>1 DEF Correlate, vars, OneJobPerSituation, HasOutstanding, Outstanding, VacantInv, SitInv, RowInv
  <2>6. QED
    BY <2>1, <2>2, <2>3, <2>4, <2>5
<1>2. ASSUME NEW c \in Callers, SubmitPlaced(c)
      PROVE  JobsInv'
  <2>1. CarryInv'
    BY <1>2 DEF SubmitPlaced, Submit, Idle, CarryInv
  <2>2. VacantInv'
    BY <1>2 DEF SubmitPlaced, Submit, Idle, VacantInv, HasOutstanding, Outstanding, CarryInv, RowInv, InTurn
  <2>3. SitInv'
    BY <1>2 DEF SubmitPlaced, Submit, Idle, SitInv, CarryInv, RoleInv, RowInv
  <2>4. RestInv'
    BY <1>2 DEF SubmitPlaced, Submit, Idle, RestInv, RoleInv
  <2>5. OneJobPerSituation'
    BY <1>2 DEF SubmitPlaced, Submit, Idle, OneJobPerSituation, HasOutstanding, Outstanding, VacantInv, SitInv, RowInv
  <2>6. QED
    BY <2>1, <2>2, <2>3, <2>4, <2>5
<1>3. ASSUME NEW c \in Callers, LooksRunning(c)
      PROVE  JobsInv'
  <2>1. CarryInv'
    BY <1>3 DEF LooksRunning, EnqueueRunningRead, Goto, CarryInv
  <2>2. VacantInv'
    BY <1>3 DEF LooksRunning, EnqueueRunningRead, Goto, VacantInv, HasOutstanding, Outstanding, CarryInv, RowInv, InTurn
  <2>3. SitInv'
    <3>1. jobs' = jobs /\ \A q \in Procs : q # c => proc'[q] = proc[q]
      BY <1>3 DEF LooksRunning, EnqueueRunningRead, Goto
    <3>2. proc'[c].pc \in {"enqueue", "insertRunning"}
      BY <1>3 DEF LooksRunning, EnqueueRunningRead, Goto
    <3>3. QED
      BY <3>1, <3>2 DEF SitInv
  <2>4. RestInv'
    BY <1>3 DEF LooksRunning, EnqueueRunningRead, Goto, RestInv, RoleInv
  <2>5. OneJobPerSituation'
    BY <1>3 DEF LooksRunning, EnqueueRunningRead, Goto, OneJobPerSituation, HasOutstanding, Outstanding, VacantInv, SitInv, RowInv
  <2>6. QED
    BY <2>1, <2>2, <2>3, <2>4, <2>5
<1>4. ASSUME NEW c \in Callers, InsertsRunning(c)
      PROVE  JobsInv'
  <2>1. CarryInv'
    BY <1>4 DEF InsertsRunning, EnqueueRunningInsert, Answers, IsNextId, CarryInv
  <2>2. VacantInv'
    BY <1>4 DEF InsertsRunning, EnqueueRunningInsert, Answers, IsNextId, VacantInv, HasOutstanding, Outstanding, CarryInv, RowInv, InTurn
  <2>3. SitInv'
    BY <1>4 DEF InsertsRunning, EnqueueRunningInsert, Answers, IsNextId, SitInv, CarryInv, RoleInv, RowInv
  <2>4. RestInv'
    BY <1>4 DEF InsertsRunning, EnqueueRunningInsert, Answers, IsNextId, RestInv, RoleInv
  <2>5. OneJobPerSituation'
    BY <1>4 DEF InsertsRunning, EnqueueRunningInsert, Answers, IsNextId, OneJobPerSituation, HasOutstanding, Outstanding, VacantInv, SitInv, RowInv
  <2>6. QED
    BY <2>1, <2>2, <2>3, <2>4, <2>5
<1>5. ASSUME NEW c \in Callers, LooksOutstanding(c)
      PROVE  JobsInv'
  <2>1. CarryInv'
    BY <1>5 DEF LooksOutstanding, EnqueueRead, Answers, Return, Goto, Idle, CarryInv
  <2>2. VacantInv'
    BY <1>5 DEF LooksOutstanding, EnqueueRead, Answers, Return, Goto, Idle, VacantInv, HasOutstanding, Outstanding, CarryInv, RowInv, InTurn
  <2>3. SitInv'
    BY <1>5 DEF LooksOutstanding, EnqueueRead, Answers, Return, Goto, Idle, SitInv, CarryInv, RoleInv, RowInv
  <2>4. RestInv'
    BY <1>5 DEF LooksOutstanding, EnqueueRead, Answers, Return, Goto, Idle, RestInv, RoleInv
  <2>5. OneJobPerSituation'
    BY <1>5 DEF LooksOutstanding, EnqueueRead, Answers, Return, Goto, Idle, OneJobPerSituation, HasOutstanding, Outstanding, VacantInv, SitInv, RowInv
  <2>6. QED
    BY <2>1, <2>2, <2>3, <2>4, <2>5
<1>6. ASSUME NEW c \in Callers, InsertsPending(c)
      PROVE  JobsInv'
  <2>1. CarryInv'
    BY <1>6 DEF InsertsPending, EnqueueInsert, Answers, Return, Idle, IsNextId, CarryInv
  <2>2. VacantInv'
    BY <1>6 DEF InsertsPending, EnqueueInsert, Answers, Return, Idle, IsNextId, VacantInv, HasOutstanding, Outstanding, CarryInv, RowInv, InTurn
  <2>3. SitInv'
    BY <1>6 DEF InsertsPending, EnqueueInsert, Answers, Return, Idle, IsNextId, SitInv, CarryInv, RoleInv, RowInv
  <2>4. RestInv'
    BY <1>6 DEF InsertsPending, EnqueueInsert, Answers, Return, Idle, IsNextId, RestInv, RoleInv
  <2>5. OneJobPerSituation'
    BY <1>6 DEF InsertsPending, EnqueueInsert, Answers, Return, Idle, IsNextId, OneJobPerSituation, HasOutstanding, Outstanding, VacantInv, SitInv, RowInv
  <2>6. QED
    BY <2>1, <2>2, <2>3, <2>4, <2>5
<1>7. ASSUME NEW w \in Workers, ClaimRead(w), AsInQueue
      PROVE  JobsInv'
  <2>1. CarryInv'
    BY <1>7 DEF ClaimRead, AsInQueue, IsOldestDue, IsDue, CarryInv
  <2>2. VacantInv'
    BY <1>7 DEF ClaimRead, AsInQueue, IsOldestDue, IsDue, VacantInv, HasOutstanding, Outstanding, CarryInv, RowInv, InTurn
  <2>3. SitInv'
    BY <1>7 DEF ClaimRead, AsInQueue, IsOldestDue, IsDue, SitInv, CarryInv, RoleInv, RowInv
  <2>4. RestInv'
    BY <1>7 DEF ClaimRead, AsInQueue, IsOldestDue, IsDue, RestInv, RoleInv
  <2>5. OneJobPerSituation'
    BY <1>7 DEF ClaimRead, AsInQueue, IsOldestDue, IsDue, OneJobPerSituation, HasOutstanding, Outstanding, VacantInv, SitInv, RowInv
  <2>6. QED
    BY <2>1, <2>2, <2>3, <2>4, <2>5
<1>8. ASSUME NEW w \in Workers, ClaimWrite(w), AsInQueue
      PROVE  JobsInv'
  <2>1. CarryInv'
    BY <1>8 DEF ClaimWrite, AsInQueue, SetRow, Goto, CarryInv
  <2>2. VacantInv'
    BY <1>8 DEF ClaimWrite, AsInQueue, SetRow, Goto, VacantInv, HasOutstanding, Outstanding, CarryInv, RowInv, InTurn
  <2>3. SitInv'
    BY <1>8 DEF ClaimWrite, AsInQueue, SetRow, Goto, SitInv, CarryInv, RoleInv, RowInv
  <2>4. RestInv'
    BY <1>8 DEF ClaimWrite, AsInQueue, SetRow, Goto, RestInv, RoleInv
  <2>5. OneJobPerSituation'
    BY <1>8 DEF ClaimWrite, AsInQueue, SetRow, Goto, OneJobPerSituation, HasOutstanding, Outstanding, VacantInv, SitInv, RowInv
  <2>6. QED
    BY <2>1, <2>2, <2>3, <2>4, <2>5
<1>9. ASSUME NEW p \in Runners, Succeeds(p)
      PROVE  JobsInv'
  <2>1. CarryInv'
    BY <1>9 DEF Succeeds, SettleSuccess, Leave, Return, Idle, CarryInv
  <2>2. VacantInv'
    BY <1>9 DEF Succeeds, SettleSuccess, Leave, Return, Idle, VacantInv, HasOutstanding, Outstanding, CarryInv, RowInv, InTurn
  <2>3. SitInv'
    BY <1>9 DEF Succeeds, SettleSuccess, Leave, Return, Idle, SitInv, CarryInv, RoleInv, RowInv
  <2>4. RestInv'
    BY <1>9 DEF Succeeds, SettleSuccess, Leave, Return, Idle, RestInv, RoleInv
  <2>5. OneJobPerSituation'
    BY <1>9 DEF Succeeds, SettleSuccess, Leave, Return, Idle, OneJobPerSituation, HasOutstanding, Outstanding, VacantInv, SitInv, RowInv
  <2>6. QED
    BY <2>1, <2>2, <2>3, <2>4, <2>5
<1>10. ASSUME NEW p \in Runners, Raises(p)
      PROVE  JobsInv'
  <2>1. CarryInv'
    BY <1>10 DEF Raises, AnalysisFails, Leave, CarryInv
  <2>2. VacantInv'
    BY <1>10 DEF Raises, AnalysisFails, Leave, VacantInv, HasOutstanding, Outstanding, CarryInv, RowInv, InTurn
  <2>3. SitInv'
    BY <1>10 DEF Raises, AnalysisFails, Leave, SitInv, CarryInv, RoleInv, RowInv
  <2>4. RestInv'
    BY <1>10 DEF Raises, AnalysisFails, Leave, RestInv, RoleInv
  <2>5. OneJobPerSituation'
    BY <1>10 DEF Raises, AnalysisFails, Leave, OneJobPerSituation, HasOutstanding, Outstanding, VacantInv, SitInv, RowInv
  <2>6. QED
    BY <2>1, <2>2, <2>3, <2>4, <2>5
<1>11. ASSUME NEW p \in Runners, SettlesFailure(p)
      PROVE  JobsInv'
  <2>1. CarryInv'
    BY <1>11 DEF SettlesFailure, SettleFailure, Leave, Return, Idle, CarryInv
  <2>2. VacantInv'
    BY <1>11 DEF SettlesFailure, SettleFailure, Leave, Return, Idle, VacantInv, HasOutstanding, Outstanding, CarryInv, RowInv, InTurn
  <2>3. SitInv'
    BY <1>11 DEF SettlesFailure, SettleFailure, Leave, Return, Idle, SitInv, CarryInv, RoleInv, RowInv
  <2>4. RestInv'
    BY <1>11 DEF SettlesFailure, SettleFailure, Leave, Return, Idle, RestInv, RoleInv
  <2>5. OneJobPerSituation'
    BY <1>11 DEF SettlesFailure, SettleFailure, Leave, Return, Idle, OneJobPerSituation, HasOutstanding, Outstanding, VacantInv, SitInv, RowInv
  <2>6. QED
    BY <2>1, <2>2, <2>3, <2>4, <2>5
<1>12. ASSUME NEW p \in Runners, LosesSettlement(p)
      PROVE  JobsInv'
  <2>1. CarryInv'
    BY <1>12 DEF LosesSettlement, SettleLost, Leave, Return, Idle, CarryInv
  <2>2. VacantInv'
    BY <1>12 DEF LosesSettlement, SettleLost, Leave, Return, Idle, VacantInv, HasOutstanding, Outstanding, CarryInv, RowInv, InTurn
  <2>3. SitInv'
    BY <1>12 DEF LosesSettlement, SettleLost, Leave, Return, Idle, SitInv, CarryInv, RoleInv, RowInv
  <2>4. RestInv'
    BY <1>12 DEF LosesSettlement, SettleLost, Leave, Return, Idle, RestInv, RoleInv
  <2>5. OneJobPerSituation'
    BY <1>12 DEF LosesSettlement, SettleLost, Leave, Return, Idle, OneJobPerSituation, HasOutstanding, Outstanding, VacantInv, SitInv, RowInv
  <2>6. QED
    BY <2>1, <2>2, <2>3, <2>4, <2>5
<1>13. ASSUME NEW o \in Operators, NEW j \in JobIds, RetryRead(o, j), AsInQueue
      PROVE  JobsInv'
  <2>1. CarryInv'
    BY <1>13 DEF RetryRead, AsInQueue, CarryInv
  <2>2. VacantInv'
    BY <1>13 DEF RetryRead, AsInQueue, VacantInv, HasOutstanding, Outstanding, CarryInv, RowInv, InTurn
  <2>3. SitInv'
    BY <1>13 DEF RetryRead, AsInQueue, SitInv, CarryInv, RoleInv, RowInv
  <2>4. RestInv'
    BY <1>13 DEF RetryRead, AsInQueue, RestInv, RoleInv
  <2>5. OneJobPerSituation'
    BY <1>13 DEF RetryRead, AsInQueue, OneJobPerSituation, HasOutstanding, Outstanding, VacantInv, SitInv, RowInv
  <2>6. QED
    BY <2>1, <2>2, <2>3, <2>4, <2>5
<1>14. ASSUME NEW o \in Operators, RetryWrite(o), Calm(proc[o].sit), AsInQueue
      PROVE  JobsInv'
  <2>1. CarryInv'
    BY <1>14 DEF RetryWrite, AsInQueue, SetRow, Return, Idle, Calm, CarryInv
  <2>2. VacantInv'
    BY <1>14 DEF RetryWrite, AsInQueue, SetRow, Return, Idle, Calm, VacantInv, HasOutstanding, Outstanding, CarryInv, RowInv, InTurn
  <2>3. SitInv'
    BY <1>14 DEF RetryWrite, AsInQueue, SetRow, Return, Idle, Calm, SitInv, CarryInv, RoleInv, RowInv
  <2>4. RestInv'
    BY <1>14 DEF RetryWrite, AsInQueue, SetRow, Return, Idle, Calm, RestInv, RoleInv
  <2>5. OneJobPerSituation'
    BY <1>14 DEF RetryWrite, AsInQueue, SetRow, Return, Idle, Calm, OneJobPerSituation, HasOutstanding, Outstanding, VacantInv, SitInv, RowInv
  <2>6. QED
    BY <2>1, <2>2, <2>3, <2>4, <2>5
<1>15. ASSUME Dies
      PROVE  JobsInv'
  <2>1. CarryInv'
    BY <1>15 DEF Dies, Crash, Idle, CarryInv
  <2>2. VacantInv'
    BY <1>15 DEF Dies, Crash, Idle, VacantInv, HasOutstanding, Outstanding, CarryInv, RowInv, InTurn
  <2>3. SitInv'
    BY <1>15 DEF Dies, Crash, Idle, SitInv, CarryInv, RoleInv, RowInv
  <2>4. RestInv'
    BY <1>15 DEF Dies, Crash, Idle, RestInv, RoleInv
  <2>5. OneJobPerSituation'
    BY <1>15 DEF Dies, Crash, Idle, OneJobPerSituation, HasOutstanding, Outstanding, VacantInv, SitInv, RowInv
  <2>6. QED
    BY <2>1, <2>2, <2>3, <2>4, <2>5
<1>16. ASSUME Restart, AsInQueue
      PROVE  JobsInv'
  <2>1. CarryInv'
    BY <1>16 DEF Restart, Orphans, AsInQueue, CarryInv
  <2>2. VacantInv'
    BY <1>16 DEF Restart, Orphans, AsInQueue, VacantInv, HasOutstanding, Outstanding, CarryInv, RowInv, InTurn
  <2>3. SitInv'
    BY <1>16 DEF Restart, Orphans, AsInQueue, SitInv, CarryInv, RoleInv, RowInv
  <2>4. RestInv'
    BY <1>16 DEF Restart, Orphans, AsInQueue, RestInv, RoleInv
  <2>5. OneJobPerSituation'
    BY <1>16 DEF Restart, Orphans, AsInQueue, OneJobPerSituation, HasOutstanding, Outstanding, VacantInv, SitInv, RowInv
  <2>6. QED
    BY <2>1, <2>2, <2>3, <2>4, <2>5
<1>17. ASSUME NEW p \in Runners, WorkStep(p) PROVE JobsInv'
  <2>1. /\ UNCHANGED <<vars, home, carries>> /\ proc[p].pc = "analysing"
        /\ \A q \in Runners : q # p => work'[q] = work[q]
    BY <1>17 DEF WorkStep, Load, Rewrite, RebuildRead, RebuildWrite, Insert, Attach, Decide,
                EnsureCase, Runs, InWork, Onto
  <2>2. QED
    BY <2>1 DEF vars, CarryInv, VacantInv, SitInv, RestInv, OneJobPerSituation, HasOutstanding,
                Outstanding
<1>18. CASE UNCHANGED <<jobs, proc, home, carries, work>>
  BY <1>18 DEF CarryInv, VacantInv, SitInv, RestInv, OneJobPerSituation, HasOutstanding, Outstanding
<1>19. QED
  BY <1>1, <1>2, <1>3, <1>4, <1>5, <1>6, <1>7, <1>8, <1>9, <1>10, <1>11, <1>12, <1>13, <1>14, <1>15, <1>16, <1>17, <1>18
     DEF IntakeNext, IngestStep, WorkerStep, Requeue, InTurn, Settle, Backfill, BackoffElapses,
         AsInQueue, intakeVars, vars
-----------------------------------------------------------------------------
(* Records *)

\* Whoever runs an analysis has an outstanding job of its situation.
LEMMA Busy ==
    ASSUME QInv, JobsInv, NEW p \in Runners, proc[p].pc = "analysing"
    PROVE  /\ p \in Procs /\ RunsJob(p) /\ proc[p].sit \in Situations
           /\ proc[p].job \in JobIds /\ Outstanding(proc[p].job)
           /\ jobs[proc[p].job].sit = proc[p].sit
           /\ HasOutstanding(proc[p].sit) /\ BeingDecided(proc[p].sit)
<1>1. p \in Procs /\ RunsJob(p)
  BY DEF Runners, Procs, RunsJob
<1>2. /\ proc[p].sit \in Situations /\ proc[p].job \in JobIds
      /\ jobs[proc[p].job].sit = proc[p].sit
  BY <1>1 DEF JobsInv, SitInv, OnRow, QInv, WorksOnRow
<1>3. Outstanding(proc[p].job)
  BY <1>1 DEF QInv, RowInv, Outstanding
<1>4. QED
  BY <1>1, <1>2, <1>3 DEF HasOutstanding, BeingDecided, JobsOf

\* Two runs write different alerts.
LEMMA OtherAlert ==
    ASSUME QInv, JobsInv, IntakeTypeOK, AlertInv, WorkInv,
           NEW p \in Runners, proc[p].pc = "analysing", work[p].at # "load",
           NEW q \in Runners, proc[q].pc = "analysing", work[q].at # "load",
           p # q, work[p].alert # 0, work[q].alert # 0
    PROVE  /\ proc[p].sit # proc[q].sit /\ work[p].alert # work[q].alert
           /\ alert[work[p].alert].sit = proc[p].sit
           /\ alert[work[q].alert].sit = proc[q].sit
<1>1. /\ p \in Procs /\ RunsJob(p) /\ proc[p].sit \in Situations
      /\ q \in Procs /\ RunsJob(q) /\ proc[q].sit \in Situations
  BY Busy
<1>2. proc[p].sit # proc[q].sit
  BY <1>1, OneRunner DEF JobsInv
<1>3. Knows(p) /\ Knows(q) /\ work[p].at \in Stages /\ work[q].at \in Stages
  BY DEF WorkInv, IntakeTypeOK, Work
<1>4. alert[work[p].alert].sit = proc[p].sit
  BY <1>1, <1>3 DEF Knows, AlertInv, Stages
<1>5. alert[work[q].alert].sit = proc[q].sit
  BY <1>1, <1>3 DEF Knows, AlertInv, Stages
<1>6. QED
  BY <1>2, <1>4, <1>5

LEMMA ActorKnows ==
    ASSUME QInv, JobsInv, IntakeTypeOK, AlertInv, WorkInv,
           NEW p \in Runners, proc[p].pc = "analysing", work[p].at # "load", work[p].alert # 0
    PROVE  /\ Knows(p) /\ work[p].alert \in Alerts
           /\ alert[work[p].alert].sit = proc[p].sit /\ proc[p].sit # NoSituation
<1>1. p \in Procs /\ RunsJob(p) /\ proc[p].sit \in Situations
  BY Busy
<1>2. Knows(p) /\ work[p].at \in Stages /\ work[p].alert \in Alerts
  BY DEF WorkInv, IntakeTypeOK, Work
<1>3. alert[work[p].alert].sit = proc[p].sit
  BY <1>1, <1>2 DEF Knows, AlertInv, Stages
<1>4. QED
  BY <1>1, <1>2, <1>3, QueueAssumption

\* Which steps write which record.
LEMMA Writers ==
    ASSUME IntakeNext \/ UNCHANGED intakeVars
    PROVE  /\ \/ UNCHANGED alert
              \/ \E p \in Runners : Rewrite(p) \/ Insert(p)
           /\ UNCHANGED alertOf \/ \E p \in Runners : Attach(p)
           /\ \/ UNCHANGED plan
              \/ \E p \in Runners : RebuildWrite(p) \/ Decide(p)
              \/ \E a \in Alerts : Settle(a) \/ Backfill(a)
           /\ UNCHANGED caseOf \/ \E p \in Runners : EnsureCase(p)
           /\ \/ UNCHANGED home
              \/ \E c \in Callers, d \in Detections, s \in Situations : Correlate(c, d, s)
<1>1. CASE UNCHANGED intakeVars
  BY <1>1 DEF intakeVars, records
<1>2. ASSUME NEW c \in Callers, NEW d \in Detections, NEW s \in Situations, Correlate(c, d, s)
      PROVE  UNCHANGED <<alert, alertOf, plan, caseOf>>
  BY <1>2 DEF Correlate
<1>3. ASSUME NEW c \in Callers, IngestStep(c) PROVE UNCHANGED records
  BY <1>3 DEF IngestStep, SubmitPlaced, LooksRunning, InsertsRunning, LooksOutstanding,
              InsertsPending
<1>4. ASSUME NEW p \in Runners, WorkStep(p)
      PROVE  /\ UNCHANGED alert \/ Rewrite(p) \/ Insert(p)
             /\ UNCHANGED alertOf \/ Attach(p)
             /\ UNCHANGED plan \/ RebuildWrite(p) \/ Decide(p)
             /\ UNCHANGED caseOf \/ EnsureCase(p)
             /\ UNCHANGED home
  BY <1>4 DEF WorkStep, Load, Rewrite, RebuildRead, RebuildWrite, Insert, Attach, Decide,
              EnsureCase, InWork
<1>5. ASSUME NEW p \in Runners, Succeeds(p) \/ Raises(p) \/ SettlesFailure(p) \/ LosesSettlement(p)
      PROVE  UNCHANGED records
  BY <1>5 DEF Succeeds, Raises, SettlesFailure, LosesSettlement, Leave
<1>6. ASSUME NEW a \in Alerts, Settle(a) \/ Backfill(a)
      PROVE  UNCHANGED <<home, alert, alertOf, caseOf>>
  BY <1>6 DEF Settle, Backfill
<1>7. ASSUME AsInQueue \/ Dies PROVE UNCHANGED records
  BY <1>7 DEF AsInQueue, Dies
<1>8. UNCHANGED records => UNCHANGED <<home, alertOf, alert, plan, caseOf>>
  BY DEF records
<1>9. ASSUME NEW o \in Operators, Requeue(o) PROVE AsInQueue
  BY <1>9 DEF Requeue
<1>10. QED
  BY <1>1, <1>2, <1>3, <1>4, <1>5, <1>6, <1>7, <1>8, <1>9 DEF IntakeNext

LEMMA AlertStep ==
    ASSUME QInv, JobsInv, IntakeTypeOK, AlertInv, WorkInv, IntakeNext \/ UNCHANGED intakeVars
    PROVE  AlertInv'
<1> USE DEF IntakeTypeOK
<1>1. \A s \in Situations : Members(s) \subseteq Members(s)'
  BY Writers, QueueAssumption DEF Members, Correlate
<1>2. ASSUME NEW s \in Situations, alertOf'[s] # 0
      PROVE  /\ alert'[alertOf'[s]].sit = s
             /\ alert'[alertOf'[s]].basis \subseteq Members(s)'
  <2>1. CASE UNCHANGED <<alert, alertOf>>
    BY <1>1, <1>2, <2>1 DEF AlertInv
  <2>2. ASSUME NEW p \in Runners, Rewrite(p)
        PROVE  /\ alert'[alertOf'[s]].sit = s
               /\ alert'[alertOf'[s]].basis \subseteq Members(s)'
    <3>1. /\ proc[p].pc = "analysing" /\ work[p].at = "model" /\ work[p].alert # 0
          /\ alertOf' = alertOf
          /\ alert' = [alert EXCEPT ![work[p].alert].basis = work[p].basis]
      BY <2>2 DEF Rewrite, Runs
    <3>2. /\ work[p].alert \in Alerts /\ Knows(p)
          /\ alert[work[p].alert].sit = proc[p].sit
      BY <3>1, ActorKnows
    <3>3. CASE alertOf[s] = work[p].alert
      <4>1. s = proc[p].sit
        BY <1>2, <3>1, <3>2, <3>3 DEF AlertInv
      <4>2. work[p].basis \subseteq Members(s)
        BY <3>2, <4>1 DEF Knows
      <4>3. alert'[alertOf'[s]].basis = work[p].basis /\ alert'[alertOf'[s]].sit = s
        BY <3>1, <3>2, <3>3, <4>1 DEF Alert
      <4>4. QED
        BY <1>1, <4>2, <4>3
    <3>4. CASE alertOf[s] # work[p].alert
      <4>1. alert'[alertOf'[s]] = alert[alertOf[s]]
        BY <1>2, <3>1, <3>4
      <4>2. QED
        BY <1>1, <1>2, <3>1, <4>1 DEF AlertInv
    <3>5. QED
      BY <3>3, <3>4
  <2>3. ASSUME NEW p \in Runners, Insert(p)
        PROVE  /\ alert'[alertOf'[s]].sit = s
               /\ alert'[alertOf'[s]].basis \subseteq Members(s)'
    <3>1. PICK b \in Alerts : /\ alert[b] = NoAlert
                              /\ alert' = [alert EXCEPT ![b] = [sit |-> proc[p].sit, basis |-> work[p].basis]]
      BY <2>3 DEF Insert
    <3>2. alertOf' = alertOf /\ alert[alertOf[s]].sit = s
      BY <1>2, <2>3 DEF Insert, AlertInv
    <3>3. alertOf[s] # b
      BY <3>1, <3>2, QueueAssumption DEF NoAlert
    <3>4. alert'[alertOf'[s]] = alert[alertOf[s]]
      BY <1>2, <3>1, <3>2, <3>3
    <3>5. QED
      BY <1>1, <1>2, <3>2, <3>4 DEF AlertInv
  <2>4. ASSUME NEW p \in Runners, Attach(p)
        PROVE  /\ alert'[alertOf'[s]].sit = s
               /\ alert'[alertOf'[s]].basis \subseteq Members(s)'
    <3>1. /\ proc[p].pc = "analysing" /\ work[p].at = "attach" /\ alert' = alert
          /\ alertOf' = [alertOf EXCEPT ![proc[p].sit] = work[p].alert]
      BY <2>4 DEF Attach, Runs
    <3>2. Knows(p)
      BY <3>1 DEF WorkInv
    <3>3. CASE s = proc[p].sit
      BY <1>1, <3>1, <3>2, <3>3 DEF Knows
    <3>4. CASE s # proc[p].sit
      BY <1>1, <1>2, <3>1, <3>4 DEF AlertInv
    <3>5. QED
      BY <3>3, <3>4
  <2>5. (\E p \in Runners : Rewrite(p) \/ Insert(p)) => UNCHANGED alertOf
    BY DEF Rewrite, Insert
  <2>6. QED
    BY <2>1, <2>2, <2>3, <2>4, <2>5, Writers
<1>3. ASSUME NEW a \in Alerts, alert'[a].sit = NoSituation
      PROVE  alert'[a] = NoAlert /\ plan'[a].state = "none"
  <2>1. alert[a].sit = NoSituation /\ alert'[a] = alert[a]
    <3>1. ASSUME NEW p \in Runners, Rewrite(p)
          PROVE  alert'[a].sit = alert[a].sit /\ (alert[a].sit = NoSituation => alert'[a] = alert[a])
      <4>1. /\ work[p].alert # 0 /\ proc[p].pc = "analysing" /\ work[p].at = "model"
            /\ alert' = [alert EXCEPT ![work[p].alert].basis = work[p].basis]
        BY <3>1 DEF Rewrite, Runs
      <4>2. alert[work[p].alert].sit # NoSituation
        BY <4>1, ActorKnows
      <4>3. QED
        BY <4>1, <4>2 DEF Alert
    <3>2. ASSUME NEW p \in Runners, Insert(p)
          PROVE  alert'[a] = alert[a]
      <4>1. proc[p].sit # NoSituation
        BY <3>2, Busy, QueueAssumption DEF Insert, Runs
      <4>2. QED
        BY <1>3, <3>2, <4>1 DEF Insert
    <3>3. QED
      BY <1>3, <3>1, <3>2, Writers
  <2>2. alert[a] = NoAlert /\ plan[a].state = "none"
    BY <2>1 DEF AlertInv
  <2>3. plan'[a].state = "none"
    <3>1. ASSUME NEW p \in Runners, RebuildWrite(p) \/ Decide(p) PROVE plan'[a] = plan[a]
      <4>1. proc[p].pc = "analysing" /\ work[p].at \in {"replan", "decide"}
        BY <3>1 DEF RebuildWrite, Decide, Runs
      <4>2. work[p].alert # 0
        BY <4>1 DEF WorkInv, Knows
      <4>3. work[p].alert # a
        BY <2>1, <4>1, <4>2, ActorKnows
      <4>4. QED
        BY <3>1, <4>3 DEF RebuildWrite, Decide
    <3>2. ASSUME NEW b \in Alerts, Settle(b) \/ Backfill(b) PROVE plan'[a] = plan[a]
      BY <2>2, <3>2 DEF Settle, Backfill
    <3>3. QED
      BY <2>2, <3>1, <3>2, Writers
  <2>4. QED
    BY <2>1, <2>2, <2>3
<1>4. QED
  BY <1>2, <1>3 DEF AlertInv

-----------------------------------------------------------------------------
(* What a step keeps *)

\* The alert of a situation is never exchanged, and never tells less.
LEMMA GrowStep ==
    ASSUME QInv, JobsInv, IntakeTypeOK, AlertInv, WorkInv, IntakeNext \/ UNCHANGED intakeVars,
           NEW s \in Situations, alertOf[s] # 0
    PROVE  /\ alertOf'[s] = alertOf[s]
           /\ alert[alertOf[s]].basis \subseteq alert'[alertOf[s]].basis
           /\ alert'[alertOf[s]].sit = alert[alertOf[s]].sit
<1> USE DEF IntakeTypeOK
<1>1. alertOf'[s] = alertOf[s]
  <2>1. ASSUME NEW p \in Runners, Attach(p) PROVE alertOf'[s] = alertOf[s]
    <3>1. proc[p].pc = "analysing" /\ work[p].at = "attach"
      BY <2>1 DEF Attach, Runs
    <3>2. alertOf[proc[p].sit] = 0
      BY <3>1 DEF WorkInv, Knows
    <3>3. QED
      BY <2>1, <3>2 DEF Attach
  <2>2. QED
    BY <2>1, Writers
<1>2. /\ alert[alertOf[s]].basis \subseteq alert'[alertOf[s]].basis
      /\ alert'[alertOf[s]].sit = alert[alertOf[s]].sit
  <2>1. ASSUME NEW p \in Runners, Rewrite(p)
        PROVE  /\ alert[alertOf[s]].basis \subseteq alert'[alertOf[s]].basis
               /\ alert'[alertOf[s]].sit = alert[alertOf[s]].sit
    <3>1. /\ proc[p].pc = "analysing" /\ work[p].at = "model" /\ work[p].alert # 0
          /\ alert' = [alert EXCEPT ![work[p].alert].basis = work[p].basis]
      BY <2>1 DEF Rewrite, Runs
    <3>2. alert[work[p].alert].basis \subseteq work[p].basis
      BY <3>1 DEF WorkInv, Knows
    <3>3. QED
      BY <3>1, <3>2 DEF Alert
  <2>2. ASSUME NEW p \in Runners, Insert(p)
        PROVE  alert'[alertOf[s]] = alert[alertOf[s]]
    <3>1. alert[alertOf[s]].sit # NoSituation
      BY QueueAssumption DEF AlertInv
    <3>2. QED
      BY <2>2, <3>1 DEF Insert, NoAlert
  <2>3. QED
    BY <2>1, <2>2, Writers
<1>3. QED
  BY <1>1, <1>2

\* A plan that exists stays, and one that is settled stays so.
LEMMA PlanKept ==
    ASSUME IntakeTypeOK, IntakeNext \/ UNCHANGED intakeVars, NEW a \in Alerts
    PROVE  /\ plan[a].state # "none" => plan'[a].state # "none"
           /\ plan[a].state = "SETTLED" => plan'[a].state = "SETTLED"
<1> USE DEF IntakeTypeOK, Plan
<1>1. ASSUME NEW p \in Runners, RebuildWrite(p) PROVE plan'[a].state = plan[a].state
  BY <1>1 DEF RebuildWrite
<1>2. ASSUME NEW p \in Runners, Decide(p), plan[a].state # "none" PROVE plan'[a] = plan[a]
  BY <1>2 DEF Decide
<1>3. ASSUME NEW b \in Alerts, Settle(b)
      PROVE  plan'[a].state = plan[a].state \/ plan'[a].state = "SETTLED"
  BY <1>3 DEF Settle
<1>4. ASSUME NEW b \in Alerts, Backfill(b), plan[a].state # "none" PROVE plan'[a] = plan[a]
  BY <1>4 DEF Backfill
<1>5. QED
  BY <1>1, <1>2, <1>3, <1>4, Writers

LEMMA FrozenKept ==
    ASSUME QInv, JobsInv, IntakeTypeOK, AlertInv, WorkInv, IntakeNext \/ UNCHANGED intakeVars,
           NEW s \in Situations, IsFrozen(s)
    PROVE  IsFrozen(s)'
<1>1. alertOf[s] \in Alerts /\ alertOf[s] # 0 /\ plan[alertOf[s]].state = "SETTLED"
  BY DEF IsFrozen, IntakeTypeOK
<1>2. alertOf'[s] = alertOf[s]
  BY <1>1, GrowStep
<1>3. plan'[alertOf[s]].state = "SETTLED"
  BY <1>1, PlanKept
<1>4. QED
  BY <1>1, <1>2, <1>3 DEF IsFrozen

\* What is to be decided is so until a run of an analysis has succeeded.
LEMMA DecidedKept ==
    ASSUME QInv, JobsInv, IntakeTypeOK, IntakeNext \/ UNCHANGED intakeVars,
           NEW s \in Situations, BeingDecided(s),
           \A p \in Runners : Succeeds(p) => proc[p].sit # s
    PROVE  BeingDecided(s)'
<1> USE DEF QInv, TypeOK, Row, WorksOnRow
<1>1. PICK j \in JobIds : jobs[j].sit = s /\ jobs[j].status \in {"PENDING", "RUNNING", "FAILED"}
  BY DEF BeingDecided, JobsOf, Outstanding
<1> DEFINE Stays == jobs'[j].sit = s /\ jobs'[j].status \in {"PENDING", "RUNNING", "FAILED"}
<1>2. ASSUME NEW c \in Callers, IngestStep(c) PROVE Stays
  BY <1>1, <1>2 DEF IngestStep, SubmitPlaced, Submit, LooksRunning, EnqueueRunningRead,
      InsertsRunning, EnqueueRunningInsert, LooksOutstanding, EnqueueRead, InsertsPending,
      EnqueueInsert, IsNextId
<1>3. ASSUME NEW w \in Workers, WorkerStep(w) PROVE Stays
  <2>1. CASE ClaimRead(w)
    BY <1>1, <2>1 DEF ClaimRead
  <2>2. CASE ClaimWrite(w)
    <3>1. jobs' = [jobs EXCEPT ![proc[w].job] = [jobs[proc[w].job] EXCEPT !.status = "RUNNING",
                                                          !.attempts = proc[w].seen + 1]]
      BY <2>2 DEF ClaimWrite, SetRow
    <3>2. QED
      BY <1>1, <3>1
  <2>3. QED
    BY <1>3, <2>1, <2>2 DEF WorkerStep
<1>4. ASSUME NEW p \in Runners, Succeeds(p) PROVE Stays
  <2>1. proc[p].pc = "analysing" /\ proc[p].sit # s
    BY <1>4 DEF Succeeds, Runs
  <2>2. proc[p].job # j
    BY <1>1, <2>1, Busy
  <2>3. QED
    BY <1>1, <1>4, <2>2 DEF Succeeds, SettleSuccess
<1>5. ASSUME NEW p \in Runners, Raises(p) \/ SettlesFailure(p) \/ LosesSettlement(p) PROVE Stays
  BY <1>1, <1>5 DEF Raises, AnalysisFails, SettlesFailure, SettleFailure, LosesSettlement, SettleLost
<1>6. ASSUME NEW o \in Operators, Requeue(o) PROVE Stays
  <2>1. ASSUME NEW i \in JobIds, RetryRead(o, i) PROVE Stays
    BY <1>1, <2>1 DEF RetryRead
  <2>2. CASE RetryWrite(o)
    <3>1. jobs' = [jobs EXCEPT ![proc[o].job] = [jobs[proc[o].job] EXCEPT !.status = "PENDING",
                                                                         !.attempts = 0]]
      BY <2>2 DEF RetryWrite, SetRow
    <3>2. QED
      BY <1>1, <3>1
  <2>3. QED
    BY <1>6, <2>1, <2>2 DEF Requeue
<1>7. ASSUME Restart PROVE Stays
  BY <1>1, <1>7 DEF Restart, Orphans
<1>8. ASSUME UNCHANGED jobs PROVE Stays
  BY <1>1, <1>8
<1>9. ASSUME NEW p \in Runners, WorkStep(p) PROVE UNCHANGED vars
  BY <1>9 DEF WorkStep, Load, Rewrite, RebuildRead, RebuildWrite, Insert, Attach, Decide,
              EnsureCase, InWork
<1>10. Stays
  BY <1>2, <1>3, <1>4, <1>5, <1>6, <1>7, <1>8, <1>9
     DEF IntakeNext, Correlate, Settle, Backfill, BackoffElapses, Dies, Crash, vars, intakeVars
<1>11. QED
  BY <1>10 DEF BeingDecided, JobsOf, Outstanding

-----------------------------------------------------------------------------
(* What a run knows *)

\* A step of a run is a step of that run alone.
LEMMA OwnStep ==
    ASSUME IntakeTypeOK, NEW p \in Runners, WorkStep(p)
    PROVE  /\ proc[p].pc = "analysing" /\ work'[p].at # work[p].at
           /\ UNCHANGED <<vars, home, carries, excused>>
           /\ \A q \in Runners : q # p => work'[q] = work[q]
<1> USE DEF IntakeTypeOK, Work, Runs, Onto
<1>1. proc[p].pc = "analysing" /\ UNCHANGED <<vars, home, carries, excused>>
  BY DEF WorkStep, Load, Rewrite, RebuildRead, RebuildWrite, Insert, Attach, Decide, EnsureCase,
         InWork
<1>2. \A q \in Runners : q # p => work'[q] = work[q]
  BY DEF WorkStep, Load, Rewrite, RebuildRead, RebuildWrite, Insert, Attach, Decide, EnsureCase
<1>3. work'[p].at # work[p].at
  BY DEF WorkStep, Load, Rewrite, RebuildRead, RebuildWrite, Insert, Attach, Decide, EnsureCase
<1>4. QED
  BY <1>1, <1>2, <1>3

\* No detection is answered for that a run of its situation should have
\* weighed, unless it is excused.
LEMMA WeighsKept ==
    ASSUME InTurn, QInv, JobsInv, IntakeTypeOK, WorkInv, IntakeNext \/ UNCHANGED intakeVars,
           NEW p \in Runners, proc[p].pc = "analysing", work[p].at # "load",
           proc'[p] = proc[p],
           NEW d \in Members(proc[p].sit)' \ excused'
    PROVE  d \in work[p].basis \/ Carried(d)'
<1> DEFINE s == proc[p].sit
<1> USE DEF IntakeTypeOK, Members, Carried
<1>1. /\ p \in Procs /\ RunsJob(p) /\ s \in Situations /\ HasOutstanding(s)
      /\ proc[p].job \in JobIds /\ Outstanding(proc[p].job) /\ jobs[proc[p].job].sit = s
  BY Busy
<1>2. \A e \in Members(s) \ excused : e \in work[p].basis \/ Carried(e)
  BY DEF WorkInv, Knows
<1>3. home'[d] = s /\ d \notin excused'
  OBVIOUS
<1>4. CASE UNCHANGED <<home, carries, excused>>
  BY <1>2, <1>4
<1>5. ASSUME NEW c \in Callers, NEW e \in Detections, NEW t \in Situations, Correlate(c, e, t)
      PROVE  d \in work[p].basis \/ Carried(d)'
  <2>1. /\ carries' = [carries EXCEPT ![c] = e] /\ carries[c] = NoDetection
        /\ home' = [home EXCEPT ![e] = t] /\ excused' = excused
    BY <1>5 DEF Correlate
  <2>2. CASE d = e
    BY <2>1, <2>2
  <2>3. CASE d # e
    <3>1. d \in work[p].basis \/ Carried(d)
      BY <1>2, <1>3, <2>1, <2>3
    <3>2. ASSUME NEW b \in Callers, carries[b] = d PROVE carries'[b] = d
      BY <2>1, <3>2, IntakeAssumption
    <3>3. QED
      BY <3>1, <3>2
  <2>4. QED
    BY <2>2, <2>3
<1>6. ASSUME NEW c \in Callers, InsertsRunning(c) \/ InsertsPending(c)
      PROVE  d \in work[p].basis \/ Carried(d)'
  <2>1. /\ carries' = [carries EXCEPT ![c] = NoDetection] /\ UNCHANGED <<home, excused>>
        /\ proc[c].pc \in {"insertRunning", "insertPending"}
    BY <1>6 DEF InsertsRunning, InsertsPending, Answers, EnqueueRunningInsert, EnqueueInsert, records
  <2>2. proc[c].sit # s /\ carries[c] # NoDetection /\ proc[c].sit = home[carries[c]]
    BY <1>1, <2>1 DEF JobsInv, VacantInv, CarryInv, Enqueuing
  <2>3. carries[c] # d
    BY <1>3, <2>1, <2>2
  <2>4. QED
    BY <1>2, <1>3, <2>1, <2>3
<1>7. ASSUME NEW c \in Callers, LooksOutstanding(c)
      PROVE  d \in work[p].basis \/ Carried(d)'
  <2>1. home' = home /\ proc[c].pc = "enqueue"
    BY <1>7 DEF LooksOutstanding, EnqueueRead, records
  <2>2. carries[c] # NoDetection /\ proc[c].sit = home[carries[c]]
    BY <2>1 DEF JobsInv, CarryInv, Enqueuing
  <2>3. CASE ~HasOutstanding(proc[c].sit)
    BY <1>2, <1>3, <1>7, <2>1, <2>3 DEF LooksOutstanding
  <2>4. CASE HasOutstanding(proc[c].sit) /\ Overtaken(proc[c].sit)
    <3>1. excused' = excused \cup {carries[c]} /\ carries' = [carries EXCEPT ![c] = NoDetection]
      BY <1>7, <2>4 DEF LooksOutstanding, Answers
    <3>2. QED
      BY <1>2, <1>3, <2>1, <3>1
  <2>5. CASE HasOutstanding(proc[c].sit) /\ ~Overtaken(proc[c].sit)
    <3>1. excused' = excused /\ carries' = [carries EXCEPT ![c] = NoDetection]
      BY <1>7, <2>5 DEF LooksOutstanding, Answers
    <3>2. PICK j \in JobIds : Outstanding(j) /\ jobs[j].sit = proc[c].sit /\ ~Loaded(j)
      BY <2>5 DEF Overtaken
    <3>3. Loaded(proc[p].job)
      BY <1>1 DEF Loaded
    <3>4. proc[c].sit # s
      BY <1>1, <3>2, <3>3 DEF JobsInv, OneJobPerSituation
    <3>5. carries[c] # d
      BY <1>3, <2>1, <2>2, <3>4
    <3>6. QED
      BY <1>2, <1>3, <2>1, <3>1, <3>5
  <2>6. QED
    BY <2>3, <2>4, <2>5
<1>8. ASSUME Dies PROVE FALSE
  <2>1. proc'[p] = Idle
    BY <1>1, <1>8 DEF Dies, Crash
  <2>2. QED
    BY <2>1 DEF Idle
<1>9. ASSUME NEW q \in Runners, WorkStep(q) PROVE UNCHANGED <<home, carries, excused>>
  BY <1>9, OwnStep
<1>10. QED
  BY <1>4, <1>5, <1>6, <1>7, <1>8, <1>9
     DEF IntakeNext, IngestStep, SubmitPlaced, LooksRunning, Succeeds, Raises, SettlesFailure,
         LosesSettlement, Leave, Requeue, Settle, Backfill, AsInQueue, records, intakeVars

\* What a run knows holds through the steps of all others.
LEMMA KnowsKept ==
    ASSUME InTurn, QInv, JobsInv, IntakeTypeOK, AlertInv, WorkInv,
           IntakeNext \/ UNCHANGED intakeVars,
           NEW p \in Runners, proc[p].pc = "analysing", work[p].at # "load",
           proc'[p] = proc[p], work'[p] = work[p]
    PROVE  Knows(p)'
<1> DEFINE s == proc[p].sit
           a == work[p].alert
<1> USE DEF IntakeTypeOK
<1>1. /\ p \in Procs /\ RunsJob(p) /\ s \in Situations /\ s # NoSituation /\ Knows(p)
      /\ work[p] \in Work
  BY Busy, QueueAssumption DEF WorkInv
<1>2. ASSUME NEW q \in Runners, WorkStep(q)
      PROVE  /\ q # p /\ proc[q].pc = "analysing" /\ proc[q].sit # s
             /\ work[q].at # "load" /\ work[q].alert # 0 /\ a # 0 => work[q].alert # a
  <2>1. q # p /\ proc[q].pc = "analysing"
    BY <1>2, OwnStep
  <2>2. q \in Procs /\ RunsJob(q)
    BY <2>1, Busy
  <2>3. proc[q].sit # s
    BY <1>1, <2>1, <2>2, OneRunner DEF JobsInv
  <2>4. QED
    BY <2>1, <2>3, OtherAlert
<1>3. alertOf'[s] = alertOf[s]
  <2>1. ASSUME NEW q \in Runners, Attach(q) PROVE alertOf'[s] = alertOf[s]
    <3>1. proc[q].sit # s
      BY <2>1, <1>2 DEF WorkStep
    <3>2. QED
      BY <2>1, <3>1 DEF Attach
  <2>2. QED
    BY <2>1, Writers
<1>4. caseOf'[s] = caseOf[s]
  <2>1. ASSUME NEW q \in Runners, EnsureCase(q) PROVE caseOf'[s] = caseOf[s]
    <3>1. proc[q].sit # s
      BY <2>1, <1>2 DEF WorkStep
    <3>2. QED
      BY <2>1, <3>1 DEF EnsureCase
  <2>2. QED
    BY <2>1, Writers
<1>5. ASSUME a # 0 PROVE alert'[a] = alert[a]
  <2>1. ASSUME NEW q \in Runners, Rewrite(q) PROVE alert'[a] = alert[a]
    <3>1. work[q].alert # 0 /\ work[q].at = "model"
      BY <2>1 DEF Rewrite, Runs
    <3>2. work[q].alert # a
      BY <1>2, <1>5, <2>1, <3>1 DEF WorkStep
    <3>3. QED
      BY <2>1, <3>2 DEF Rewrite
  <2>2. ASSUME NEW q \in Runners, Insert(q) PROVE alert'[a] = alert[a]
    <3>1. alert[a].sit = s
      BY <1>5, ActorKnows
    <3>2. QED
      BY <1>1, <2>2, <3>1 DEF Insert, NoAlert
  <2>3. QED
    BY <2>1, <2>2, Writers
<1>6. ASSUME a # 0
      PROVE  \/ plan'[a] = plan[a] \/ plan'[a].state = "SETTLED"
             \/ plan[a].state = "none" /\ plan'[a] = [state |-> "PENDING", basis |-> alert[a].basis]
  <2>1. ASSUME NEW q \in Runners, RebuildWrite(q) \/ Decide(q) PROVE plan'[a] = plan[a]
    <3>1. proc[q].pc = "analysing" /\ work[q].at \in {"replan", "decide"}
      BY <2>1 DEF RebuildWrite, Decide, Runs
    <3>2. work[q].alert # 0
      BY <3>1 DEF WorkInv, Knows
    <3>3. work[q].alert # a
      BY <1>2, <1>6, <2>1, <3>1, <3>2 DEF WorkStep
    <3>4. CASE RebuildWrite(q)
      BY <3>3, <3>4 DEF RebuildWrite
    <3>5. CASE Decide(q)
      BY <3>3, <3>5 DEF Decide
    <3>6. QED
      BY <2>1, <3>4, <3>5
  <2>2. ASSUME NEW b \in Alerts, Settle(b)
        PROVE  plan'[a] = plan[a] \/ plan'[a].state = "SETTLED"
    BY <1>1, <1>6, <2>2 DEF Settle, Work, Plan
  <2>3. ASSUME NEW b \in Alerts, Backfill(b)
        PROVE  \/ plan'[a] = plan[a]
               \/ plan[a].state = "none" /\ plan'[a] = [state |-> "PENDING", basis |-> alert[a].basis]
    BY <1>1, <1>6, <2>3 DEF Backfill, Work
  <2>4. QED
    BY <2>1, <2>2, <2>3, Writers
<1>7. Members(s) \subseteq Members(s)'
  BY Writers, <1>1 DEF Members, Correlate
<1>8. \A d \in Members(s)' \ excused' : d \in work[p].basis \/ Carried(d)'
  BY WeighsKept
<1>9. QED
  <2>1. proc'[p].sit = s /\ work'[p] = work[p]
    OBVIOUS
  <2>2. work[p].at \notin {"load", "model"} => a # 0 /\ alert'[a] = [sit |-> s, basis |-> work[p].basis]
    BY <1>1, <1>5 DEF Knows
  <2>3. work[p].at \in {"attach", "decide", "case", "done"} => PlanFits(a, work[p].basis)'
    BY <1>1, <1>5, <1>6, <2>2 DEF Knows, PlanFits
  <2>4. work[p].at \in {"replan", "case", "done"} => plan'[a].state # "none"
    BY <1>1, <1>6, <2>2 DEF Knows
  <2>5. work[p].at = "model" => a = alertOf'[s] /\ (a # 0 => alert'[a].basis \subseteq work[p].basis)
    BY <1>1, <1>3, <1>5 DEF Knows
  <2>6. /\ work[p].at = "attach" => alertOf'[s] = 0
        /\ work[p].at \in {"rebuild", "replan", "decide", "case", "done"} => a = alertOf'[s]
        /\ work[p].at = "done" => caseOf'[s] = a
    BY <1>1, <1>3, <1>4 DEF Knows
  <2>7. work[p].basis \subseteq Members(s)'
    BY <1>1, <1>7 DEF Knows
  <2>8. QED
    BY <1>8, <2>1, <2>2, <2>3, <2>4, <2>5, <2>6, <2>7 DEF Knows, PlanFits, Members

\* What a run learns in a step of its own.
LEMMA KnowsLearnt ==
    ASSUME QInv, JobsInv, IntakeTypeOK, AlertInv, WorkInv,
           NEW p \in Runners, WorkStep(p)
    PROVE  Knows(p)'
<1> DEFINE s == proc[p].sit
           a == work[p].alert
           Same == Members(s)' = Members(s) /\ proc'[p].sit = s
           Weighs == \A d \in Members(s)' \ excused' : d \in work[p].basis \/ Carried(d)'
<1> USE DEF IntakeTypeOK
<1>1. /\ p \in Procs /\ RunsJob(p) /\ s \in Situations /\ s # NoSituation
      /\ proc[p].pc = "analysing" /\ work[p] \in Work
      /\ UNCHANGED <<vars, home, carries, excused>>
  BY OwnStep, Busy, QueueAssumption
<1>2. Same
  BY <1>1 DEF Members, vars
<1>3. work[p].at # "load" => Knows(p)
  BY <1>1 DEF WorkInv
<1>4. work[p].at # "load" => Weighs /\ work[p].basis \subseteq Members(s)'
  BY <1>1, <1>2, <1>3 DEF Knows, Carried
<1>5. CASE Load(p)
  <2>1. /\ work'[p] = [at |-> "model", basis |-> Members(s), alert |-> alertOf[s]]
        /\ UNCHANGED <<alertOf, alert, plan, caseOf>>
    BY <1>5 DEF Load
  <2>2. alertOf[s] # 0 => alert[alertOf[s]].basis \subseteq Members(s)
    BY <1>1 DEF AlertInv
  <2>3. QED
    BY <1>2, <2>1, <2>2 DEF Knows
<1> DEFINE Next1(at) == work'[p] = [work[p] EXCEPT !.at = at]
<1>6. CASE Rewrite(p)
  <2>1. /\ Next1("rebuild") /\ work[p].at = "model" /\ a # 0 /\ a \in Alerts
        /\ UNCHANGED <<alertOf, plan, caseOf>>
        /\ alert'[a] = [alert[a] EXCEPT !.basis = work[p].basis]
    BY <1>1, <1>6 DEF Rewrite, Runs, Onto, Work
  <2>2. a = alertOf[s] /\ alert[a].sit = s
    BY <1>1, <1>3, <2>1 DEF Knows, AlertInv
  <2>3. alert'[a] = [sit |-> s, basis |-> work[p].basis]
    BY <2>1, <2>2 DEF Alert
  <2>4. /\ work'[p].at = "rebuild" /\ work'[p].alert = a /\ work'[p].basis = work[p].basis
    BY <1>1, <2>1 DEF Work
  <2>5. QED
    BY <1>2, <1>4, <2>1, <2>2, <2>3, <2>4 DEF Knows
<1>7. CASE RebuildRead(p)
  <2>1. /\ work[p].at = "rebuild" /\ UNCHANGED <<alertOf, alert, plan, caseOf>>
        /\ \/ Next1("decide") /\ plan[a].state = "none"
           \/ Next1("replan") /\ plan[a].state = "PENDING"
           \/ Next1("case") /\ plan[a].state = "SETTLED"
    BY <1>1, <1>7 DEF RebuildRead, Runs, Onto
  <2>2. work'[p].alert = a /\ work'[p].basis = work[p].basis
    BY <1>1, <2>1 DEF Work
  <2>3. a = alertOf[s] /\ a # 0 /\ alert[a] = [sit |-> s, basis |-> work[p].basis]
    BY <1>3, <2>1 DEF Knows
  <2>4. \/ work'[p].at = "decide" /\ plan[a].state = "none"
        \/ work'[p].at = "replan" /\ plan[a].state = "PENDING"
        \/ work'[p].at = "case" /\ plan[a].state = "SETTLED"
    BY <1>1, <2>1 DEF Work
  <2>5. QED
    BY <1>2, <1>4, <2>1, <2>2, <2>3, <2>4 DEF Knows, PlanFits
<1>8. CASE RebuildWrite(p)
  <2>1. /\ work[p].at = "replan" /\ UNCHANGED <<alertOf, alert, caseOf>> /\ Next1("case")
        /\ plan' = [plan EXCEPT ![a].basis = work[p].basis]
    BY <1>1, <1>8 DEF RebuildWrite, Runs, Onto
  <2>2. work'[p].at = "case" /\ work'[p].alert = a /\ work'[p].basis = work[p].basis
    BY <1>1, <2>1 DEF Work
  <2>3. /\ a = alertOf[s] /\ a # 0 /\ alert[a] = [sit |-> s, basis |-> work[p].basis]
        /\ plan[a].state # "none"
    BY <1>3, <2>1 DEF Knows
  <2>4. plan'[a].state = plan[a].state /\ plan'[a].basis = work[p].basis
    BY <1>1, <2>1, <2>3 DEF Work, Plan
  <2>5. QED
    BY <1>2, <1>4, <2>1, <2>2, <2>3, <2>4 DEF Knows, PlanFits
<1>9. CASE Insert(p)
  <2>1. PICK b \in Alerts :
            /\ alert[b] = NoAlert
            /\ alert' = [alert EXCEPT ![b] = [sit |-> s, basis |-> work[p].basis]]
            /\ work' = [work EXCEPT ![p].at = "attach", ![p].alert = b]
            /\ work[p].at = "model" /\ a = 0
            /\ UNCHANGED <<alertOf, plan, caseOf>>
    BY <1>9 DEF Insert, Runs
  <2>2. work'[p] = [work[p] EXCEPT !.at = "attach", !.alert = b]
    BY <2>1
  <2>3. work'[p].at = "attach" /\ work'[p].alert = b /\ work'[p].basis = work[p].basis
    BY <1>1, <2>2 DEF Work
  <2>4. b # 0 /\ alert'[b] = [sit |-> s, basis |-> work[p].basis] /\ plan[b].state = "none"
    BY <2>1 DEF Alerts, AlertInv, NoAlert
  <2>5. alertOf[s] = 0
    BY <1>3, <2>1 DEF Knows
  <2>6. QED
    BY <1>2, <1>4, <2>1, <2>3, <2>4, <2>5 DEF Knows, PlanFits
<1>10. CASE Attach(p)
  <2>1. /\ work[p].at = "attach" /\ UNCHANGED <<alert, plan, caseOf>> /\ Next1("decide")
        /\ alertOf'[s] = a
    BY <1>1, <1>10 DEF Attach, Runs, Onto
  <2>2. work'[p].at = "decide" /\ work'[p].alert = a /\ work'[p].basis = work[p].basis
    BY <1>1, <2>1 DEF Work
  <2>3. /\ a # 0 /\ alert[a] = [sit |-> s, basis |-> work[p].basis]
        /\ PlanFits(a, work[p].basis)
    BY <1>3, <2>1 DEF Knows
  <2>4. QED
    BY <1>2, <1>4, <2>1, <2>2, <2>3 DEF Knows, PlanFits
<1>11. CASE Decide(p)
  <2>1. /\ work[p].at = "decide" /\ UNCHANGED <<alert, alertOf, caseOf>> /\ Next1("case")
        /\ plan' = [plan EXCEPT ![a] = IF plan[a].state = "none"
                                       THEN [state |-> "PENDING", basis |-> work[p].basis]
                                       ELSE plan[a]]
    BY <1>1, <1>11 DEF Decide, Runs, Onto
  <2>2. work'[p].at = "case" /\ work'[p].alert = a /\ work'[p].basis = work[p].basis
    BY <1>1, <2>1 DEF Work
  <2>3. /\ a = alertOf[s] /\ a # 0 /\ alert[a] = [sit |-> s, basis |-> work[p].basis]
        /\ PlanFits(a, work[p].basis) /\ a \in Alerts
    BY <1>1, <1>3, <2>1 DEF Knows, Work
  <2>4. plan'[a].state # "none" /\ (plan'[a].state = "PENDING" => plan'[a].basis = work[p].basis)
    BY <2>1, <2>3 DEF PlanFits
  <2>5. QED
    BY <1>2, <1>4, <2>1, <2>2, <2>3, <2>4 DEF Knows, PlanFits
<1>12. CASE EnsureCase(p)
  <2>1. /\ work[p].at = "case" /\ UNCHANGED <<alert, alertOf, plan>> /\ Next1("done")
        /\ caseOf'[s] = a
    BY <1>1, <1>12 DEF EnsureCase, Runs, Onto
  <2>2. work'[p].at = "done" /\ work'[p].alert = a /\ work'[p].basis = work[p].basis
    BY <1>1, <2>1 DEF Work
  <2>3. /\ a = alertOf[s] /\ a # 0 /\ alert[a] = [sit |-> s, basis |-> work[p].basis]
        /\ PlanFits(a, work[p].basis) /\ plan[a].state # "none"
    BY <1>3, <2>1 DEF Knows
  <2>4. QED
    BY <1>2, <1>4, <2>1, <2>2, <2>3 DEF Knows, PlanFits
<1>13. QED
  BY <1>5, <1>6, <1>7, <1>8, <1>9, <1>10, <1>11, <1>12 DEF WorkStep

\* A run in progress goes on undisturbed, or takes a step of its own.
LEMMA RunKept ==
    ASSUME QInv, JobsInv, IntakeTypeOK, IntakeNext \/ UNCHANGED intakeVars,
           NEW p \in Runners,
           \/ proc'[p].pc = "analysing" /\ work'[p].at # "load"
           \/ proc[p].pc = "analysing" /\ work[p].at = "attach" /\ ~Dies
    PROVE  (proc'[p] = proc[p] /\ work'[p] = work[p]) \/ WorkStep(p)
<1> USE QueueAssumption DEF Runners, Procs, QInv, TypeOK, IntakeTypeOK
<1>1. p \in Procs /\ (proc[p].pc # "analysing" => work[p].at = "load")
  BY DEF JobsInv, RestInv, NoWork
<1>2. ASSUME NEW c \in Callers, NEW d \in Detections, NEW s \in Situations, Correlate(c, d, s)
      PROVE  proc'[p] = proc[p] /\ work'[p] = work[p]
  BY <1>2 DEF Correlate, vars
<1>3. ASSUME NEW c \in Callers, IngestStep(c) PROVE proc'[p] = proc[p] /\ work'[p] = work[p]
  <2>1. work' = work /\ proc[c].pc # "analysing"
    BY <1>3 DEF IngestStep, SubmitPlaced, LooksRunning, InsertsRunning, LooksOutstanding,
                InsertsPending, Submit, EnqueueRunningRead, EnqueueRunningInsert, EnqueueRead,
                EnqueueInsert
  <2>2. p # c
    BY <1>1, <2>1
  <2>3. QED
    BY <1>3, <2>1, <2>2 DEF IngestStep, SubmitPlaced, LooksRunning, InsertsRunning,
       LooksOutstanding, InsertsPending, Submit, EnqueueRunningRead, EnqueueRunningInsert,
       EnqueueRead, EnqueueInsert, Goto, Return
<1>4. ASSUME NEW w \in Workers, WorkerStep(w), AsInQueue
      PROVE  proc'[p] = proc[p] /\ work'[p] = work[p]
  <2>1. work' = work /\ proc[w].pc # "analysing"
    BY <1>4 DEF WorkerStep, ClaimRead, ClaimWrite, AsInQueue
  <2>2. p # w
    BY <1>1, <2>1
  <2>3. QED
    BY <1>4, <2>1, <2>2 DEF WorkerStep, ClaimRead, ClaimWrite, Goto
<1>5. ASSUME NEW q \in Runners, Succeeds(q) \/ Raises(q) \/ SettlesFailure(q) \/ LosesSettlement(q)
      PROVE  proc'[p] = proc[p] /\ work'[p] = work[p]
  <2>1. work' = [work EXCEPT ![q] = NoWork]
    BY <1>5 DEF Succeeds, Raises, SettlesFailure, LosesSettlement, Leave
  <2>2. p # q
    <3>1. \/ proc[q].pc = "analysing" /\ work[q].at \in {"model", "done"}
          \/ proc[q].pc = "settleFailed"
      BY <1>5 DEF Succeeds, Raises, SettlesFailure, SettleFailure, LosesSettlement, SettleLost, Runs
    <3>2. QED
      BY <2>1, <3>1 DEF NoWork
  <2>3. QED
    BY <1>5, <2>1, <2>2 DEF Succeeds, Raises, SettlesFailure, LosesSettlement, SettleSuccess,
       AnalysisFails, SettleFailure, SettleLost, Return
<1>6. ASSUME NEW o \in Operators, Requeue(o) PROVE proc'[p] = proc[p] /\ work'[p] = work[p]
  <2>1. p # o /\ work' = work
    BY <1>6 DEF Requeue, AsInQueue
  <2>2. QED
    BY <1>6, <2>1 DEF Requeue, RetryRead, RetryWrite, Return
<1>7. ~Dies
  BY <1>1 DEF Dies, Crash, Idle
<1>8. ASSUME NEW q \in Runners, WorkStep(q), q # p
      PROVE  proc'[p] = proc[p] /\ work'[p] = work[p]
  BY <1>8, OwnStep DEF vars
<1>9. QED
  BY <1>2, <1>3, <1>4, <1>5, <1>6, <1>7, <1>8
     DEF IntakeNext, Settle, Backfill, BackoffElapses, Restart, AsInQueue, vars, intakeVars

LEMMA WorkInvStep ==
    ASSUME InTurn, QInv, JobsInv, IntakeTypeOK, AlertInv, WorkInv,
           IntakeNext \/ UNCHANGED intakeVars
    PROVE  WorkInv'
<1> SUFFICES ASSUME NEW p \in Runners, proc'[p].pc = "analysing", work'[p].at # "load"
             PROVE  Knows(p)'
  BY DEF WorkInv
<1> USE QueueAssumption DEF IntakeTypeOK
<1>1. CASE WorkStep(p)
  BY <1>1, KnowsLearnt
<1>2. CASE proc'[p] = proc[p] /\ work'[p] = work[p]
  <2>1. proc[p].pc = "analysing" /\ work[p].at # "load"
    BY <1>2
  <2>2. QED
    BY <1>2, <2>1, KnowsKept
<1>3. (proc'[p] = proc[p] /\ work'[p] = work[p]) \/ WorkStep(p)
  BY RunKept
<1>4. QED
  BY <1>1, <1>2, <1>3

-----------------------------------------------------------------------------
(* The properties, step by step *)

LEMMA ForgottenStep ==
    ASSUME InTurn, QInv, JobsInv, IntakeTypeOK, AlertInv, WorkInv, NothingForgotten,
           IntakeNext \/ UNCHANGED intakeVars
    PROVE  NothingForgotten'
<1> USE DEF IntakeTypeOK
<1> SUFFICES ASSUME NEW d \in Detections, NEW s \in Situations,
                    d \notin excused', home'[d] = s, ~IsFrozen(s)'
             PROVE  \/ BeingDecided(s)' \/ Carried(d)'
                    \/ alertOf'[s] # 0 /\ d \in alert'[alertOf'[s]].basis
  BY DEF NothingForgotten, Carried
<1> DEFINE Goal == \/ BeingDecided(s)' \/ Carried(d)'
                   \/ alertOf'[s] # 0 /\ d \in alert'[alertOf'[s]].basis
<1>1. CASE home[d] # s
  <2>1. PICK c \in Callers : carries' = [carries EXCEPT ![c] = d]
    BY <1>1, Writers DEF Correlate
  <2>2. QED
    BY <2>1 DEF Carried
<1>2. CASE home[d] = s
  <2>1. d \notin excused
    BY DEF IntakeNext, Correlate, IngestStep, SubmitPlaced, LooksRunning, InsertsRunning,
           LooksOutstanding, InsertsPending, WorkStep, Load, Rewrite, RebuildRead, RebuildWrite,
           Insert, Attach, Decide, EnsureCase, InWork, Succeeds, Raises, SettlesFailure,
           LosesSettlement, Leave, Requeue, Settle, Backfill, Dies, AsInQueue, intakeVars
  <2>2. ~IsFrozen(s)
    BY FrozenKept
  <2>3. CASE alertOf[s] # 0 /\ d \in alert[alertOf[s]].basis
    BY <2>3, GrowStep
  <2>4. CASE Carried(d)
    <3>1. PICK c \in Callers : carries[c] = d
      BY <2>4 DEF Carried
    <3>2. CASE carries'[c] = d
      BY <3>2 DEF Carried
    <3>3. CASE carries'[c] # d
      <4>1. InsertsRunning(c) \/ InsertsPending(c) \/ (LooksOutstanding(c) /\ HasOutstanding(proc[c].sit))
        <5>1. ASSUME NEW b \in Callers, NEW e \in Detections, NEW t \in Situations, Correlate(b, e, t)
              PROVE  carries'[c] = carries[c]
          BY <3>1, <5>1, IntakeAssumption DEF Correlate
        <5>2. ASSUME NEW b \in Callers, IngestStep(b), b # c PROVE carries'[c] = carries[c]
          BY <5>2 DEF IngestStep, SubmitPlaced, LooksRunning, InsertsRunning, LooksOutstanding,
                      InsertsPending, Answers
        <5>3. ASSUME NEW p \in Runners, WorkStep(p) PROVE carries' = carries
          BY <5>3, OwnStep
        <5>4. ASSUME Dies PROVE d \in excused'
          BY <3>1, <5>4, IntakeAssumption DEF Dies
        <5>5. IngestStep(c) => \/ carries' = carries \/ InsertsRunning(c) \/ InsertsPending(c)
                               \/ (LooksOutstanding(c) /\ HasOutstanding(proc[c].sit))
          BY DEF IngestStep, SubmitPlaced, LooksRunning, LooksOutstanding
        <5>6. QED
          BY <3>1, <3>3, <5>1, <5>2, <5>3, <5>4, <5>5
             DEF IntakeNext, Succeeds, Raises, SettlesFailure, LosesSettlement, Leave, Requeue,
                 Settle, Backfill, AsInQueue, intakeVars
      <4>2. proc[c].sit = s
        BY <1>2, <3>1, <4>1
           DEF JobsInv, CarryInv, Enqueuing, InsertsRunning, EnqueueRunningInsert, InsertsPending,
               EnqueueInsert, LooksOutstanding, EnqueueRead
      <4>3. CASE InsertsRunning(c) \/ InsertsPending(c)
        <5>1. PICK j \in JobIds, status \in {"PENDING", "RUNNING"}, n \in {0, 1} :
                  jobs' = [jobs EXCEPT ![j] = [sit |-> s, status |-> status, attempts |-> n]]
          BY <4>2, <4>3 DEF InsertsRunning, EnqueueRunningInsert, InsertsPending, EnqueueInsert
        <5>2. jobs'[j].sit = s /\ jobs'[j].status \in {"PENDING", "RUNNING"}
          BY <5>1 DEF QInv, TypeOK
        <5>3. QED
          BY <5>2 DEF BeingDecided, JobsOf, Outstanding
      <4>4. CASE LooksOutstanding(c) /\ HasOutstanding(proc[c].sit)
        <5>1. jobs' = jobs
          BY <4>4 DEF LooksOutstanding, EnqueueRead
        <5>2. QED
          BY <4>2, <4>4, <5>1 DEF HasOutstanding, Outstanding, BeingDecided, JobsOf
      <4>5. QED
        BY <4>1, <4>3, <4>4
    <3>4. QED
      BY <3>2, <3>3
  <2>5. CASE BeingDecided(s) /\ ~Carried(d)
    <3>1. CASE \A p \in Runners : Succeeds(p) => proc[p].sit # s
      BY <2>5, <3>1, DecidedKept
    <3>2. ASSUME NEW p \in Runners, Succeeds(p), proc[p].sit = s PROVE Goal
      <4>1. proc[p].pc = "analysing" /\ work[p].at = "done" /\ UNCHANGED <<alertOf, alert>>
        BY <3>2 DEF Succeeds, Runs, Leave, records
      <4>2. Knows(p)
        BY <4>1 DEF WorkInv
      <4>3. d \in work[p].basis
        BY <1>2, <2>1, <2>5, <3>2, <4>2 DEF Knows, Members
      <4>4. /\ work[p].alert # 0 /\ work[p].alert = alertOf[s]
            /\ alert[work[p].alert] = [sit |-> s, basis |-> work[p].basis]
        BY <3>2, <4>1, <4>2 DEF Knows
      <4>5. QED
        BY <4>1, <4>3, <4>4
    <3>3. QED
      BY <3>1, <3>2
  <2>6. QED
    BY <1>2, <2>1, <2>2, <2>3, <2>4, <2>5 DEF NothingForgotten, Carried
<1>3. QED
  BY <1>1, <1>2

LEMMA AgreeStep ==
    ASSUME QInv, JobsInv, IntakeTypeOK, AlertInv, WorkInv, RecordsAgree,
           IntakeNext \/ UNCHANGED intakeVars
    PROVE  RecordsAgree'
<1> USE DEF IntakeTypeOK
<1> SUFFICES ASSUME NEW s \in Situations, alertOf'[s] # 0, ~BeingDecided(s)'
             PROVE  LET a == alertOf'[s] IN
                    /\ caseOf'[s] = a /\ alert'[a].sit = s
                    /\ plan'[a].state # "none"
                    /\ plan'[a].state = "PENDING" => plan'[a].basis = alert'[a].basis
  BY DEF RecordsAgree
<1>1. CASE BeingDecided(s)
  <2>1. PICK p \in Runners : Succeeds(p) /\ proc[p].sit = s
    BY <1>1, DecidedKept
  <2>2. /\ proc[p].pc = "analysing" /\ work[p].at = "done"
        /\ UNCHANGED <<alertOf, alert, plan, caseOf>>
    BY <2>1 DEF Succeeds, Runs, Leave, records
  <2>3. Knows(p)
    BY <2>2 DEF WorkInv
  <2>4. /\ work[p].alert = alertOf[s] /\ caseOf[s] = work[p].alert
        /\ alert[work[p].alert] = [sit |-> s, basis |-> work[p].basis]
        /\ plan[work[p].alert].state # "none" /\ PlanFits(work[p].alert, work[p].basis)
    BY <2>1, <2>2, <2>3 DEF Knows
  <2>5. QED
    BY <2>2, <2>4 DEF PlanFits
<1>2. CASE ~BeingDecided(s)
  <2> DEFINE a == alertOf[s]
  <2>1. ASSUME NEW p \in Runners, WorkStep(p)
        PROVE  /\ proc[p].sit # s /\ proc[p].pc = "analysing"
               /\ work[p].at # "load" /\ work[p].alert # 0 /\ a # 0 => work[p].alert # a
    <3>1. proc[p].sit # s /\ proc[p].pc = "analysing"
      BY <1>2, <2>1, OwnStep, Busy
    <3>2. QED
      BY <3>1, ActorKnows DEF AlertInv
  <2>2. alertOf'[s] = a
    <3>1. ASSUME NEW p \in Runners, Attach(p) PROVE alertOf'[s] = a
      <4>1. proc[p].sit # s
        BY <2>1, <3>1 DEF WorkStep
      <4>2. QED
        BY <3>1, <4>1 DEF Attach
    <3>2. QED
      BY <3>1, Writers
  <2>3. /\ a \in Alerts /\ caseOf[s] = a /\ alert[a].sit = s /\ plan[a].state # "none"
        /\ plan[a].state = "PENDING" => plan[a].basis = alert[a].basis
    BY <1>2, <2>2 DEF RecordsAgree
  <2>4. caseOf'[s] = a
    <3>1. ASSUME NEW p \in Runners, EnsureCase(p) PROVE caseOf'[s] = a
      <4>1. proc[p].sit # s
        BY <2>1, <3>1 DEF WorkStep
      <4>2. QED
        BY <2>3, <3>1, <4>1 DEF EnsureCase
    <3>2. QED
      BY <2>3, <3>1, Writers
  <2>5. alert'[a] = alert[a]
    <3>1. ASSUME NEW p \in Runners, Rewrite(p) PROVE alert'[a] = alert[a]
      <4>1. work[p].alert # a
        BY <2>1, <2>2, <3>1 DEF WorkStep, Rewrite, Runs
      <4>2. QED
        BY <3>1, <4>1 DEF Rewrite
    <3>2. ASSUME NEW p \in Runners, Insert(p) PROVE alert'[a] = alert[a]
      BY <2>3, <3>2, QueueAssumption DEF Insert, NoAlert
    <3>3. QED
      BY <3>1, <3>2, Writers
  <2>6. plan'[a] = plan[a] \/ plan'[a].state = "SETTLED"
    <3>1. ASSUME NEW p \in Runners, RebuildWrite(p) \/ Decide(p) PROVE plan'[a] = plan[a]
      <4>1. proc[p].pc = "analysing" /\ work[p].at \in {"replan", "decide"} /\ WorkStep(p)
        BY <3>1 DEF RebuildWrite, Decide, Runs, WorkStep
      <4>2. work[p].alert # 0
        BY <4>1 DEF WorkInv, Knows
      <4>3. work[p].alert # a
        BY <2>1, <2>2, <4>1, <4>2
      <4>4. CASE RebuildWrite(p)
        BY <4>3, <4>4 DEF RebuildWrite
      <4>5. CASE Decide(p)
        BY <4>3, <4>5 DEF Decide
      <4>6. QED
        BY <3>1, <4>4, <4>5
    <3>2. ASSUME NEW b \in Alerts, Settle(b)
          PROVE  plan'[a] = plan[a] \/ plan'[a].state = "SETTLED"
      BY <2>3, <3>2 DEF Settle, Plan
    <3>3. ASSUME NEW b \in Alerts, Backfill(b) PROVE plan'[a] = plan[a]
      BY <2>3, <3>3 DEF Backfill
    <3>4. QED
      BY <3>1, <3>2, <3>3, Writers
  <2>7. QED
    BY <2>2, <2>3, <2>4, <2>5, <2>6
<1>3. QED
  BY <1>1, <1>2

\* The runs that are about to attach an alert to a situation: one, or none.
Attaching(s) == {p \in Runners : Runs(p, "attach") /\ proc[p].sit = s}

LEMMA AttachingOne ==
    ASSUME QInv, JobsInv, NEW s, NEW p \in Attaching(s)
    PROVE  Attaching(s) = {p}
<1>1. \A q \in Attaching(s) : q \in Procs /\ RunsJob(q) /\ proc[q].sit = s
  BY Busy DEF Attaching, Runs
<1>2. \A q \in Attaching(s) : q = p
  BY <1>1, OneRunner DEF JobsInv
<1>3. QED
  BY <1>2

LEMMA AccountStep ==
    ASSUME QInv, JobsInv, IntakeTypeOK, AlertInv, WorkInv, AlertsAccounted,
           IntakeNext \/ UNCHANGED intakeVars
    PROVE  AlertsAccounted'
<1> USE DEF IntakeTypeOK
<1> SUFFICES ASSUME NEW s \in Situations
             PROVE  Cardinality(Unattached(s)') <= crashes' + Cardinality(Attaching(s)')
  BY DEF AlertsAccounted, Attaching
<1>1. Cardinality(Unattached(s)) <= crashes + Cardinality(Attaching(s))
  BY DEF AlertsAccounted, Attaching
<1>2. /\ IsFiniteSet(Unattached(s)) /\ Cardinality(Unattached(s)) \in Nat
      /\ crashes \in Nat /\ s # NoSituation
  <2>1. IsFiniteSet(Alerts)
    BY FS_Interval, IntakeAssumption DEF Alerts
  <2>2. Unattached(s) \subseteq Alerts
    BY DEF Unattached
  <2>3. QED
    BY <2>1, <2>2, FS_Subset, FS_CardinalityType, QueueAssumption DEF QInv, TypeOK
<1>3. Cardinality({}) = 0
  BY FS_EmptySet
<1>4. ASSUME NEW p \in Runners, Insert(p), proc[p].sit = s
      PROVE  Cardinality(Unattached(s)') <= crashes' + Cardinality(Attaching(s)')
  <2>1. PICK b \in Alerts :
            /\ alert[b] = NoAlert
            /\ alert' = [alert EXCEPT ![b] = [sit |-> s, basis |-> work[p].basis]]
            /\ work' = [work EXCEPT ![p].at = "attach", ![p].alert = b]
            /\ proc[p].pc = "analysing" /\ work[p].at = "model" /\ work[p].alert = 0
            /\ UNCHANGED <<alertOf, vars>>
    BY <1>4 DEF Insert, Runs, InWork
  <2>2. alertOf[s] = 0 /\ b # 0
    BY <1>4, <2>1 DEF WorkInv, Knows, Alerts
  <2>3. Unattached(s)' = Unattached(s) \cup {b} /\ b \notin Unattached(s)
    BY <1>2, <2>1, <2>2 DEF Unattached, NoAlert
  <2>4. Cardinality(Unattached(s)') = Cardinality(Unattached(s)) + 1
    BY <1>2, <2>3, FS_AddElement
  <2>5. Attaching(s) = {}
    <3>1. p \in Procs /\ RunsJob(p)
      BY <2>1, Busy
    <3>2. ASSUME NEW q \in Attaching(s) PROVE q = p
      BY <1>4, <3>1, Busy, OneRunner DEF JobsInv, Attaching, Runs
    <3>3. p \notin Attaching(s)
      BY <2>1 DEF Attaching, Runs
    <3>4. QED
      BY <3>2, <3>3
  <2>6. Attaching(s)' = {p}
    <3>1. \A q \in Runners : q # p => work'[q] = work[q]
      BY <2>1
    <3>2. work'[p].at = "attach"
      BY <2>1 DEF Work
    <3>3. QED
      BY <1>4, <2>1, <2>5, <3>1, <3>2 DEF Attaching, Runs, vars
  <2>7. crashes' = crashes
    BY <2>1 DEF vars
  <2>8. Cardinality(Attaching(s)) = 0 /\ Cardinality(Attaching(s)') = 1
    BY <1>3, <2>5, <2>6, FS_Singleton
  <2>9. QED
    BY <1>1, <1>2, <2>4, <2>7, <2>8
<1>5. ASSUME NEW p \in Runners, Attach(p), proc[p].sit = s
      PROVE  Cardinality(Unattached(s)') <= crashes' + Cardinality(Attaching(s)')
  <2> DEFINE a == work[p].alert
  <2>1. /\ proc[p].pc = "analysing" /\ work[p].at = "attach" /\ UNCHANGED <<alert, vars>>
        /\ alertOf' = [alertOf EXCEPT ![s] = a]
        /\ work' = [work EXCEPT ![p].at = "decide"]
    BY <1>5 DEF Attach, Runs, Onto, InWork
  <2>2. /\ alertOf[s] = 0 /\ a # 0 /\ a \in Alerts
        /\ alert[a] = [sit |-> s, basis |-> work[p].basis]
    BY <1>5, <2>1 DEF WorkInv, Knows, Work
  <2>3. Unattached(s)' = Unattached(s) \ {a} /\ a \in Unattached(s)
    <3>1. \A b \in Alerts : b # 0
      BY DEF Alerts
    <3>2. alertOf'[s] = a /\ alert' = alert
      BY <2>1
    <3>3. QED
      BY <2>2, <3>1, <3>2 DEF Unattached
  <2>4. Cardinality(Unattached(s)') = Cardinality(Unattached(s)) - 1
    <3>1. \A S, x : IsFiniteSet(S) /\ x \in S => Cardinality(S \ {x}) = Cardinality(S) - 1
      BY FS_RemoveElement
    <3>2. Cardinality(Unattached(s) \ {a}) = Cardinality(Unattached(s)) - 1
      <4> HIDE DEF a
      <4> QED
        BY <1>2, <2>3, <3>1
    <3>3. QED
      BY <2>3, <3>2
  <2>5. p \in Attaching(s)
    BY <1>5, <2>1 DEF Attaching, Runs
  <2>6. Attaching(s) = {p}
    BY <2>5, AttachingOne
  <2>7. Attaching(s)' = {}
    <3>1. \A q \in Runners : q # p => work'[q] = work[q]
      BY <2>1
    <3>2. work'[p].at = "decide"
      BY <2>1 DEF Work
    <3>3. QED
      BY <2>1, <2>6, <3>1, <3>2 DEF Attaching, Runs, vars
  <2>8. crashes' = crashes
    BY <2>1 DEF vars
  <2>9. Cardinality(Attaching(s)) = 1 /\ Cardinality(Attaching(s)') = 0
    BY <1>3, <2>6, <2>7, FS_Singleton
  <2>10. QED
    BY <1>1, <1>2, <2>4, <2>8, <2>9
<1>6. ASSUME Dies
      PROVE  Cardinality(Unattached(s)') <= crashes' + Cardinality(Attaching(s)')
  <2>1. /\ crashes' = crashes + 1 /\ UNCHANGED <<alert, alertOf>>
        /\ \A p \in Procs : proc'[p] = Idle
    BY <1>6 DEF Dies, Crash, records
  <2>2. Unattached(s)' = Unattached(s)
    BY <2>1 DEF Unattached
  <2>3. Attaching(s)' = {}
    BY <2>1 DEF Attaching, Runs, Idle, Runners, Procs
  <2>4. Cardinality(Attaching(s)) \in {0, 1}
    <3>1. ASSUME NEW p \in Attaching(s) PROVE Cardinality(Attaching(s)) = 1
      BY AttachingOne, FS_Singleton
    <3>2. CASE Attaching(s) = {}
      BY <1>3, <3>2
    <3>3. QED
      BY <3>1, <3>2
  <2>5. Cardinality(Attaching(s)') = 0
    BY <1>3, <2>3
  <2>6. Cardinality(Unattached(s)') = Cardinality(Unattached(s))
    BY <2>2
  <2>7. QED
    BY <1>1, <1>2, <2>1, <2>4, <2>5, <2>6
<1>7. CASE ~Dies /\ \A p \in Runners : Insert(p) \/ Attach(p) => proc[p].sit # s
  <2>1. alertOf'[s] = alertOf[s]
    BY <1>7, Writers DEF Attach
  <2>2. ASSUME NEW b \in Alerts PROVE (alert'[b].sit = s) <=> (alert[b].sit = s)
    <3>1. ASSUME NEW p \in Runners, Rewrite(p) PROVE alert'[b].sit = alert[b].sit
      BY <3>1 DEF Rewrite, Alert
    <3>2. ASSUME NEW p \in Runners, Insert(p)
          PROVE  (alert'[b].sit = s) <=> (alert[b].sit = s)
      <4>1. PICK c \in Alerts :
                /\ alert[c] = NoAlert
                /\ alert' = [alert EXCEPT ![c] = [sit |-> proc[p].sit, basis |-> work[p].basis]]
        BY <3>2 DEF Insert
      <4>2. proc[p].sit # s
        BY <1>7, <3>2
      <4>3. CASE b = c
        BY <1>2, <4>1, <4>2, <4>3 DEF NoAlert
      <4>4. CASE b # c
        BY <4>1, <4>4
      <4>5. QED
        BY <4>3, <4>4
    <3>3. QED
      BY <3>1, <3>2, Writers
  <2>3. Unattached(s)' = Unattached(s)
    BY <2>1, <2>2 DEF Unattached
  <2>4. ASSUME NEW p \in Runners PROVE (p \in Attaching(s))' <=> p \in Attaching(s)
    <3>1. CASE proc'[p] = proc[p] /\ work'[p] = work[p]
      BY <3>1 DEF Attaching, Runs
    <3>2. CASE WorkStep(p)
      <4>1. proc' = proc /\ work[p] \in Work
        BY <3>2, OwnStep DEF vars
      <4>2. Insert(p) \/ Attach(p) => p \notin Attaching(s) /\ (p \notin Attaching(s))'
        BY <1>7, <4>1 DEF Attaching
      <4>3. ~(Insert(p) \/ Attach(p)) => work[p].at # "attach" /\ work'[p].at # "attach"
        BY <3>2, <4>1
           DEF WorkStep, Load, Rewrite, RebuildRead, RebuildWrite, Decide, EnsureCase, Runs, Onto,
               Work
      <4>4. QED
        BY <4>2, <4>3 DEF Attaching, Runs
    <3>3. CASE ~((proc'[p] = proc[p] /\ work'[p] = work[p]) \/ WorkStep(p))
      <4>1. /\ ~(proc'[p].pc = "analysing" /\ work'[p].at # "load")
            /\ ~(proc[p].pc = "analysing" /\ work[p].at = "attach")
        BY <1>7, <3>3, RunKept
      <4>2. QED
        BY <4>1 DEF Attaching, Runs
    <3>4. QED
      BY <3>1, <3>2, <3>3
  <2>5. Attaching(s)' = Attaching(s)
    BY <2>4 DEF Attaching
  <2>6. crashes' = crashes
    <3>1. ASSUME NEW p \in Runners, WorkStep(p) PROVE crashes' = crashes
      BY <3>1, OwnStep DEF vars
    <3>2. QED
      BY <1>7, <3>1
         DEF IntakeNext, Correlate, IngestStep, SubmitPlaced, Submit, LooksRunning,
             EnqueueRunningRead, InsertsRunning, EnqueueRunningInsert, LooksOutstanding,
             EnqueueRead, InsertsPending, EnqueueInsert, WorkerStep, ClaimRead, ClaimWrite,
             Succeeds, SettleSuccess, Raises, AnalysisFails, SettlesFailure, SettleFailure,
             LosesSettlement, SettleLost, Requeue, RetryRead, RetryWrite, BackoffElapses, Settle,
             Backfill, Restart, vars, intakeVars
  <2>7. QED
    BY <1>1, <2>3, <2>5, <2>6
<1>8. QED
  BY <1>4, <1>5, <1>6, <1>7

-----------------------------------------------------------------------------
(* Theorems *)

LEMMA IInvInit == IntakeInit => IInv
<1> SUFFICES ASSUME IntakeInit PROVE IInv
  OBVIOUS
<1>1. Init
  BY DEF IntakeInit
<1>2. QInv /\ IntakeTypeOK /\ JobsInv
  BY <1>1, QInvInit, IntakeTypeInit, JobsInit
<1>3. AlertInv /\ WorkInv /\ RecordsAgree
  BY QueueAssumption DEF IntakeInit, AlertInv, WorkInv, RecordsAgree, NoAlert, NoPlan, NoWork
<1>4. NothingForgotten
  BY QueueAssumption DEF IntakeInit, NothingForgotten
<1>5. AlertsAccounted
  <2>1. \A s \in Situations : Unattached(s) = {}
    BY QueueAssumption DEF IntakeInit, Unattached, NoAlert
  <2>2. \A s \in Situations : {p \in Runners : Runs(p, "attach") /\ proc[p].sit = s} = {}
    BY DEF IntakeInit, Runs, NoWork
  <2>3. crashes = 0 /\ Cardinality({}) = 0
    BY <1>1, FS_EmptySet DEF Init
  <2>4. QED
    BY <2>1, <2>2, <2>3 DEF AlertsAccounted
<1>6. QED
  BY <1>2, <1>3, <1>4, <1>5 DEF IInv

LEMMA IInvStep == InTurn /\ IInv /\ [IntakeNext]_intakeVars => IInv'
<1> SUFFICES ASSUME InTurn, IInv, [IntakeNext]_intakeVars PROVE IInv'
  OBVIOUS
<1>1. IntakeNext \/ UNCHANGED intakeVars
  OBVIOUS
<1>2. /\ QInv /\ JobsInv /\ IntakeTypeOK /\ AlertInv /\ WorkInv /\ NothingForgotten
      /\ RecordsAgree /\ AlertsAccounted
  BY DEF IInv
<1>3. QInv'
  <2>1. [Next]_vars
    BY <1>2, QueueStep DEF JobsInv
  <2>2. QED
    BY <1>2, <2>1, QInvStep DEF InTurn
<1>4. IntakeTypeOK' /\ JobsInv'
  BY <1>2, IntakeTypeStep, JobsStep
<1>5. AlertInv' /\ WorkInv'
  BY <1>1, <1>2, AlertStep, WorkInvStep
<1>6. NothingForgotten' /\ RecordsAgree' /\ AlertsAccounted'
  BY <1>1, <1>2, ForgottenStep, AgreeStep, AccountStep
<1>7. QED
  BY <1>3, <1>4, <1>5, <1>6 DEF IInv

\* The invariant of the intake, taken one detection at a time.
THEOREM IInvCorrect == ASSUME InTurn PROVE IntakeSpec => []IInv
<1>1. IInv /\ [IntakeNext]_intakeVars => IInv'
  BY IInvStep
<1>2. QED
  BY <1>1, IInvInit, PTL DEF IntakeSpec

\* The intake implements the queue: analysis_queue.py's own promises hold of
\* it with real callers and a real analysis.
THEOREM ImplementsQueue == ASSUME InTurn PROVE IntakeSpec => Spec
<1>1. IInv => CarryInv
  BY DEF IInv, JobsInv
<1>2. IntakeInit => Init
  BY DEF IntakeInit
<1>3. QED
  BY <1>1, <1>2, IInvCorrect, QueueStep, PTL DEF IntakeSpec, Spec

\* Every detection is in the analysis of its situation, or something that will
\* analyse it is on record (ingest_detection, submit), however often the
\* process dies and whatever is retried.
THEOREM NothingIsForgotten == ASSUME InTurn PROVE IntakeSpec => []NothingForgotten
<1>1. IInv => NothingForgotten
  BY DEF IInv
<1>2. QED
  BY <1>1, IInvCorrect, PTL

\* Between two commits of analyze_situation the process may die or the call
\* fail: when nothing is owed, alert, decision and case agree.
THEOREM RecordsComeToAgree == ASSUME InTurn PROVE IntakeSpec => []RecordsAgree
<1>1. IInv => RecordsAgree
  BY DEF IInv
<1>2. QED
  BY <1>1, IInvCorrect, PTL

\* A second alert of a situation is the trace of a death between the insert
\* and the attachment (analyze_situation), and there are no more than deaths.
THEOREM AlertsAreAccounted == ASSUME InTurn PROVE IntakeSpec => []AlertsAccounted
<1>1. IInv => AlertsAccounted
  BY DEF IInv
<1>2. QED
  BY <1>1, IInvCorrect, PTL

\* No analysis overwrites what a later one found, and no situation changes its
\* alert.
THEOREM OnlyGrow == ASSUME InTurn PROVE IntakeSpec => RecordsOnlyGrow
<1>1. IInv /\ [IntakeNext]_intakeVars =>
          [\A s \in Situations : alertOf[s] # 0 =>
              alertOf'[s] # 0 /\ alert[alertOf[s]].basis \subseteq alert'[alertOf'[s]].basis]_intakeVars
  <2> SUFFICES ASSUME IInv, IntakeNext \/ UNCHANGED intakeVars, NEW s \in Situations, alertOf[s] # 0
               PROVE  alertOf'[s] # 0 /\ alert[alertOf[s]].basis \subseteq alert'[alertOf'[s]].basis
    OBVIOUS
  <2>1. QInv /\ JobsInv /\ IntakeTypeOK /\ AlertInv /\ WorkInv
    BY DEF IInv
  <2>2. QED
    BY <2>1, GrowStep
<1>2. QED
  BY <1>1, IInvCorrect, PTL DEF IntakeSpec, RecordsOnlyGrow

=============================================================================
