---------------------------- MODULE AnalysisQueue ----------------------------
(***************************************************************************)
(* The reliable decision path of the broker: orchestrator/analysis_queue.  *)
(*                                                                         *)
(* A row of analysis_jobs records that a situation owes a decision.  Rows  *)
(* are written by three kinds of coroutine that share one event loop and   *)
(* one SQLite file:                                                        *)
(*   - callers, the HTTP intake: submit, enqueue, _enqueue_running;        *)
(*   - workers, the drain loops: _claim_next, run_job;                     *)
(*   - operators, who put a dead letter back: retry_job.                   *)
(*                                                                         *)
(* Every statement of a handler that reaches the database is an await, so  *)
(* any other coroutine may run between a handler's SELECT and the UPDATE   *)
(* it decides on.  A handler is therefore one action per such stretch, and *)
(* what it read is kept in its own record, proc[p].  Only _claim_next and  *)
(* _enqueue_running hold _claim_lock across the two.                       *)
(***************************************************************************)
EXTENDS Integers, FiniteSets

CONSTANTS
    Situations,   \* situation ids
    Workers,      \* the ANALYSIS_CONCURRENCY drain loops
    Callers,      \* concurrent HTTP intake requests
    Operators,    \* concurrent POST /api/queue/{id}/retry requests
    Nobody,       \* the holder of a free lock
    NoSituation,  \* a process that works for no situation
    MaxAttempts,  \* ANALYSIS_MAX_ATTEMPTS
    HighWater,    \* ANALYSIS_QUEUE_HIGH_WATER
    QueueMode,    \* TRUE iff INTAKE_MODE = queue
    MaxJobs,      \* bound: rows ever inserted
    MaxCrashes,   \* bound: deaths of the broker process
    MaxDbErrors   \* bound: settlements whose commit fails

Procs == Workers \cup Callers \cup Operators

ASSUME QueueAssumption ==
    /\ MaxAttempts \in Nat \ {0}
    /\ HighWater \in Nat \ {0}
    /\ QueueMode \in BOOLEAN
    /\ MaxJobs \in Nat /\ MaxCrashes \in Nat /\ MaxDbErrors \in Nat
    /\ Nobody \notin Procs
    /\ NoSituation \notin Situations
    /\ Workers \cap Callers = {}
    /\ Operators \cap (Workers \cup Callers) = {}

VARIABLES
    jobs,      \* the table analysis_jobs, by row id
    due,       \* place of a row in the order of next_attempt_at; 0 = not due
    lock,      \* holder of _claim_lock
    proc,      \* where each coroutine stands, and what it has read
    up,        \* is the broker process running?
    crashes,   \* history: deaths of the process so far
    dbErrors   \* history: settlements lost so far

vars == <<jobs, due, lock, proc, up, crashes, dbErrors>>

JobIds == 1..MaxJobs

\* A row not yet inserted has status "NONE".
Status == {"NONE", "PENDING", "RUNNING", "DONE", "FAILED"}
Row == [sit : Situations \cup {NoSituation}, status : Status, attempts : Nat]
NoRow == [sit |-> NoSituation, status |-> "NONE", attempts |-> 0]

Where == {"idle", "enqueueRunning", "insertRunning", "enqueue", "insertPending",
          "claim", "analysing", "settleFailed", "requeue"}

\* job: the row worked on, 0 = none; seen: the attempts read from that row.
Proc == [pc : Where, sit : Situations \cup {NoSituation},
         job : JobIds \cup {0}, seen : Nat]
Idle == [pc |-> "idle", sit |-> NoSituation, job |-> 0, seen |-> 0]

-----------------------------------------------------------------------------
(* Queries over the table *)

Outstanding(j) == jobs[j].status \in {"PENDING", "RUNNING"}
\* (mutant: a job that is being run is not counted)
HasPending(s) == \E j \in JobIds : jobs[j].sit = s /\ jobs[j].status = "PENDING"
HasOutstanding(s) == \E j \in JobIds : jobs[j].sit = s /\ Outstanding(j)
Depth == Cardinality({j \in JobIds : jobs[j].status = "PENDING"})

\* Rows are never deleted, so ids are handed out in order.
IsNextId(j) == /\ jobs[j].status = "NONE"
               /\ \A i \in JobIds : i < j => jobs[i].status # "NONE"

\* The bound on rows never blocks an INSERT half-way through a handler.
Room == Cardinality({j \in JobIds : jobs[j].status = "NONE"})
            > Cardinality({c \in Callers : proc[c].pc # "idle"})

(* The order of next_attempt_at.  A job becomes due when its timestamp      *)
(* passes, so rows sort in the order in which they became due: the newest  *)
(* takes the last place, and a row that is no longer PENDING leaves its     *)
(* place to the rows behind it.                                            *)
LastPlace == Cardinality({j \in JobIds : due[j] > 0})
Leaves(d, j) == [i \in JobIds |-> IF i = j THEN 0
                                  ELSE IF d[j] > 0 /\ d[i] > d[j] THEN d[i] - 1
                                  ELSE d[i]]
JoinsLast(j) == [Leaves(due, j) EXCEPT
                     ![j] = Cardinality({i \in JobIds \ {j} : due[i] > 0}) + 1]
IsDue(j) == jobs[j].status = "PENDING" /\ due[j] > 0
IsOldestDue(j) == IsDue(j) /\ \A i \in JobIds : IsDue(i) => due[j] <= due[i]

-----------------------------------------------------------------------------
Init ==
    /\ jobs = [j \in JobIds |-> NoRow]
    /\ due = [j \in JobIds |-> 0]
    /\ lock = Nobody
    /\ proc = [p \in Procs |-> Idle]
    /\ up = TRUE
    /\ crashes = 0
    /\ dbErrors = 0

Goto(p, where) == proc' = [proc EXCEPT ![p].pc = where]
Return(p) == proc' = [proc EXCEPT ![p] = Idle]
SetRow(j, status, attempts) ==
    jobs' = [jobs EXCEPT ![j].status = status, ![j].attempts = attempts]

-----------------------------------------------------------------------------
(* Callers: submit and the two ways it inserts *)

\* submit up to its first write: INTAKE_MODE, else the depth of the backlog.
Submit(c, s) ==
    /\ up /\ proc[c].pc = "idle" /\ Room
    /\ proc' = [proc EXCEPT ![c] = [Idle EXCEPT
                    !.sit = s,
                    !.pc = IF QueueMode \/ Depth > HighWater THEN "enqueue"
                                                             ELSE "enqueueRunning"]]
    /\ UNCHANGED <<jobs, due, lock, up, crashes, dbErrors>>

\* _enqueue_running takes the lock and looks for outstanding work.
EnqueueRunningRead(c) ==
    /\ proc[c].pc = "enqueueRunning" /\ lock = Nobody
    /\ \/ /\ HasOutstanding(proc[c].sit)
          /\ Goto(c, "enqueue")
          /\ UNCHANGED lock
       \/ /\ ~HasOutstanding(proc[c].sit)
          /\ Goto(c, "insertRunning")
          /\ lock' = c
    /\ UNCHANGED <<jobs, due, up, crashes, dbErrors>>

\* ... and inserts the job already claimed, for this caller to run.
EnqueueRunningInsert(c) ==
    /\ proc[c].pc = "insertRunning"
    /\ \E j \in JobIds :
        /\ IsNextId(j)
        /\ jobs' = [jobs EXCEPT ![j] = [sit |-> proc[c].sit,
                                        status |-> "RUNNING", attempts |-> 1]]
        /\ proc' = [proc EXCEPT ![c].pc = "analysing", ![c].job = j]
    /\ lock' = Nobody
    /\ UNCHANGED <<due, up, crashes, dbErrors>>

\* enqueue looks for outstanding work without the lock.
EnqueueRead(c) ==
    /\ proc[c].pc = "enqueue"
    /\ IF HasOutstanding(proc[c].sit) THEN Return(c) ELSE Goto(c, "insertPending")
    /\ UNCHANGED <<jobs, due, lock, up, crashes, dbErrors>>

EnqueueInsert(c) ==
    /\ proc[c].pc = "insertPending"
    /\ \E j \in JobIds :
        /\ IsNextId(j)
        /\ jobs' = [jobs EXCEPT ![j] = [sit |-> proc[c].sit,
                                        status |-> "PENDING", attempts |-> 0]]
        /\ due' = JoinsLast(j)
    /\ Return(c)
    /\ UNCHANGED <<lock, up, crashes, dbErrors>>

-----------------------------------------------------------------------------
(* Workers: _claim_next *)

\* (mutant: the lock is taken without waiting for its holder)
ClaimReadUnlocked(w) ==
    /\ up /\ proc[w].pc = "idle"
    /\ \E j \in JobIds :
        /\ IsOldestDue(j)
        /\ proc' = [proc EXCEPT ![w] = [pc |-> "claim", sit |-> jobs[j].sit,
                                        job |-> j, seen |-> jobs[j].attempts]]
    /\ lock' = w
    /\ UNCHANGED <<jobs, due, up, crashes, dbErrors>>

ClaimRead(w) ==
    /\ up /\ proc[w].pc = "idle" /\ lock = Nobody
    /\ \E j \in JobIds :
        /\ IsOldestDue(j)
        /\ proc' = [proc EXCEPT ![w] = [pc |-> "claim", sit |-> jobs[j].sit,
                                        job |-> j, seen |-> jobs[j].attempts]]
    /\ lock' = w
    /\ UNCHANGED <<jobs, due, up, crashes, dbErrors>>

ClaimWrite(w) ==
    /\ proc[w].pc = "claim"
    /\ SetRow(proc[w].job, "RUNNING", proc[w].seen + 1)
    /\ due' = Leaves(due, proc[w].job)
    /\ Goto(w, "analysing")
    /\ lock' = Nobody
    /\ UNCHANGED <<up, crashes, dbErrors>>

-----------------------------------------------------------------------------
(* run_job, by a worker or by the caller that inserted the job *)

\* The handler returns and _settle_success commits.
SettleSuccess(p) ==
    /\ proc[p].pc = "analysing"
    /\ jobs' = [jobs EXCEPT ![proc[p].job].status = "DONE"]
    /\ due' = Leaves(due, proc[p].job)
    /\ Return(p)
    /\ UNCHANGED <<lock, up, crashes, dbErrors>>

\* The handler raises and _settle_failure reads the attempts spent.
AnalysisFails(p) ==
    /\ proc[p].pc = "analysing"
    /\ proc' = [proc EXCEPT ![p].pc = "settleFailed",
                            ![p].seen = jobs[proc[p].job].attempts]
    /\ UNCHANGED <<jobs, due, lock, up, crashes, dbErrors>>

\* _settle_failure writes: a dead letter, or PENDING behind its backoff.
\* (mutant: one attempt too many)
ExhaustedTooLate(p) == proc[p].seen > MaxAttempts
Exhausted(p) == proc[p].seen >= MaxAttempts

SettleFailure(p) ==
    /\ proc[p].pc = "settleFailed"
    /\ jobs' = [jobs EXCEPT ![proc[p].job].status =
                    IF Exhausted(p) THEN "FAILED" ELSE "PENDING"]
    /\ due' = Leaves(due, proc[p].job)
    /\ Return(p)
    /\ UNCHANGED <<lock, up, crashes, dbErrors>>

\* The settlement itself raises: the row stays as it is.  The worker's outer
\* handler swallows it and polls on; a caller's request fails.
SettleLost(p) ==
    /\ proc[p].pc \in {"analysing", "settleFailed"}
    /\ dbErrors < MaxDbErrors
    /\ dbErrors' = dbErrors + 1
    /\ Return(p)
    /\ UNCHANGED <<jobs, due, lock, up, crashes>>

\* next_attempt_at of a job that failed passes.
BackoffElapses(j) ==
    /\ jobs[j].status = "PENDING" /\ due[j] = 0
    /\ due' = JoinsLast(j)
    /\ UNCHANGED <<jobs, lock, proc, up, crashes, dbErrors>>

-----------------------------------------------------------------------------
(* Operators: retry_job.  It returns without effect unless it reads FAILED. *)

\* (mutant: any job is requeued, whatever its status)
RetryReadAny(o, j) ==
    /\ up /\ proc[o].pc = "idle"
    /\ jobs[j].status # "NONE"
    /\ proc' = [proc EXCEPT ![o] = [pc |-> "requeue", sit |-> jobs[j].sit,
                                    job |-> j, seen |-> jobs[j].attempts]]
    /\ UNCHANGED <<jobs, due, lock, up, crashes, dbErrors>>

RetryRead(o, j) ==
    /\ up /\ proc[o].pc = "idle"
    /\ jobs[j].status = "FAILED"
    /\ proc' = [proc EXCEPT ![o] = [pc |-> "requeue", sit |-> jobs[j].sit,
                                    job |-> j, seen |-> jobs[j].attempts]]
    /\ UNCHANGED <<jobs, due, lock, up, crashes, dbErrors>>

RetryWrite(o) ==
    /\ proc[o].pc = "requeue"
    /\ SetRow(proc[o].job, "PENDING", 0)
    /\ due' = JoinsLast(proc[o].job)
    /\ Return(o)
    /\ UNCHANGED <<lock, up, crashes, dbErrors>>

-----------------------------------------------------------------------------
(* The process: death at any point, and start_workers on the way back *)

\* A crash, or a shutdown: stop_workers cancels the loops, and run_job does
\* not catch CancelledError, so either way a claimed row stays RUNNING.
Crash ==
    /\ up /\ crashes < MaxCrashes
    /\ up' = FALSE
    /\ crashes' = crashes + 1
    /\ proc' = [p \in Procs |-> Idle]
    /\ lock' = Nobody
    /\ UNCHANGED <<jobs, due, dbErrors>>

\* recover_orphans, before anything is served: every RUNNING row is PENDING
\* and due now, in id order, its attempts as they were.
Orphans == {j \in JobIds : jobs[j].status = "RUNNING"}
\* (mutant: the workers start without recovering orphans)
RestartWithoutRecovery ==
    /\ ~up
    /\ up' = TRUE
    /\ UNCHANGED <<jobs, due, lock, proc, crashes, dbErrors>>

Restart ==
    /\ ~up
    /\ up' = TRUE
    /\ jobs' = [j \in JobIds |-> IF j \in Orphans
                                 THEN [jobs[j] EXCEPT !.status = "PENDING"]
                                 ELSE jobs[j]]
    /\ due' = [j \in JobIds |-> IF j \in Orphans
                                THEN LastPlace + Cardinality({i \in Orphans : i <= j})
                                ELSE due[j]]
    /\ UNCHANGED <<lock, proc, crashes, dbErrors>>

-----------------------------------------------------------------------------
CallerStep(c) ==
    \/ EnqueueRunningRead(c) \/ EnqueueRunningInsert(c)
    \/ EnqueueRead(c) \/ EnqueueInsert(c)
WorkerStep(w) == ClaimRead(w) \/ ClaimWrite(w)
RunStep(p) == SettleSuccess(p) \/ AnalysisFails(p) \/ SettleFailure(p)
OperatorStep(o) == (\E j \in JobIds : RetryRead(o, j)) \/ RetryWrite(o)

Next ==
    \/ \E c \in Callers : (\E s \in Situations : Submit(c, s)) \/ CallerStep(c)
    \/ \E w \in Workers : WorkerStep(w)
    \/ \E p \in Workers \cup Callers : RunStep(p) \/ SettleLost(p)
    \/ \E o \in Operators : OperatorStep(o)
    \/ \E j \in JobIds : BackoffElapses(j)
    \/ Crash
    \/ Restart

Spec == Init /\ [][Next]_vars

(* Fairness.  A coroutine that can run is scheduled (the event loop is     *)
(* FIFO), a model call ends (OLLAMA_TIMEOUT), clocks advance, and the      *)
(* service manager brings a dead broker back (deploy: restart policy).     *)
(* Nothing obliges a client to submit, an operator to retry, or a process  *)
(* to die.                                                                 *)
Fairness ==
    /\ \A c \in Callers : WF_vars(CallerStep(c))
    /\ \A w \in Workers : WF_vars(WorkerStep(w))
    /\ \A p \in Workers \cup Callers : WF_vars(RunStep(p))
    /\ \A o \in Operators : WF_vars(RetryWrite(o))
    /\ \A j \in JobIds : WF_vars(BackoffElapses(j))
    /\ WF_vars(Restart)

FairSpec == Spec /\ Fairness

-----------------------------------------------------------------------------
(* Properties *)

\* Every variable stays in its domain; a row keeps the shape of its table.
TypeOK ==
    /\ jobs \in [JobIds -> Row]
    /\ due \in [JobIds -> Nat]
    /\ lock \in Procs \cup {Nobody}
    /\ proc \in [Procs -> Proc]
    /\ up \in BOOLEAN
    /\ crashes \in Nat
    /\ dbErrors \in Nat

RunsJob(p) == proc[p].pc \in {"analysing", "settleFailed"}

\* No two coroutines ever run the same row, whichever of worker claim, inline
\* intake, settlement and retry interleave (the purpose of _claim_lock).
NoDoubleRun ==
    \A p, q \in Procs : RunsJob(p) /\ RunsJob(q) /\ p # q => proc[p].job # proc[q].job

\* An analysis is attempted at most MaxAttempts times, and once more for each
\* time the process died while it ran: nothing else exceeds the budget.
AttemptsBounded == \A j \in JobIds : jobs[j].attempts <= MaxAttempts + crashes

\* The budget as recover_orphans and the README state it: a job that reliably
\* kills the process is dead-lettered like any other, not retried forever.
AttemptsWithinBudget == \A j \in JobIds : jobs[j].attempts <= MaxAttempts

\* enqueue's docstring and the README: a situation has at most one
\* outstanding job.
OneJobPerSituation ==
    \A i, j \in JobIds :
        Outstanding(i) /\ Outstanding(j) /\ jobs[i].sit = jobs[j].sit => i = j

\* The rows follow the life cycle the module's comment promises.
Ledger == INSTANCE JobLedger WITH
              status <- [j \in JobIds |-> jobs[j].status],
              attempts <- [j \in JobIds |-> jobs[j].attempts]
FollowsLedger == Ledger!Spec

\* Work that is owed is answered or becomes a visible dead letter, across any
\* (finite) number of deaths of the process and whatever else is queued,
\* unless a settlement failed to commit: such a row waits for the next restart.
EveryJobSettles ==
    \A j \in JobIds : Outstanding(j) ~> jobs[j].status \in {"DONE", "FAILED"} \/ dbErrors > 0

=============================================================================
