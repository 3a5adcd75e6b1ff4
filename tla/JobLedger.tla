------------------------------ MODULE JobLedger ------------------------------
(***************************************************************************)
(* What the analysis queue promises of one row of analysis_jobs, with no   *)
(* coroutine, lock or clock in it: work that is owed stays on the table    *)
(* until it is answered or visibly dead, an answer is final, a job is dead *)
(* only once its attempts are spent, and only a person revives it, with a  *)
(* fresh budget.  (analysis_queue.py, module comment and docstrings.)      *)
(***************************************************************************)
EXTENDS Integers

CONSTANTS JobIds, MaxAttempts

VARIABLES status, attempts

ledger == <<status, attempts>>

Init == /\ status = [j \in JobIds |-> "NONE"]
        /\ attempts = [j \in JobIds |-> 0]

Move(j, from, to, count) ==
    /\ status[j] = from
    /\ status' = [status EXCEPT ![j] = to]
    /\ attempts' = [attempts EXCEPT ![j] = count]

\* Work is recorded as owed, or recorded as already being done.
Owe(j)      == Move(j, "NONE", "PENDING", 0)
OweAndRun(j) == Move(j, "NONE", "RUNNING", 1)
\* An attempt starts and is counted.
Attempt(j)  == Move(j, "PENDING", "RUNNING", attempts[j] + 1)
\* An attempt ends: answered, to be tried again, or out of attempts.
Answer(j)   == Move(j, "RUNNING", "DONE", attempts[j])
Defer(j)    == /\ attempts[j] < MaxAttempts
               /\ Move(j, "RUNNING", "PENDING", attempts[j])
DeadLetter(j) == /\ attempts[j] >= MaxAttempts
                 /\ Move(j, "RUNNING", "FAILED", attempts[j])
\* A person revives a dead letter.
Revive(j)   == Move(j, "FAILED", "PENDING", 0)
\* The process died: attempts under way are owed again, and stay counted.
Recover ==
    /\ status' = [j \in JobIds |-> IF status[j] = "RUNNING" THEN "PENDING" ELSE status[j]]
    /\ UNCHANGED attempts

Next == \/ \E j \in JobIds : \/ Owe(j) \/ OweAndRun(j) \/ Attempt(j)
                             \/ Answer(j) \/ Defer(j) \/ DeadLetter(j) \/ Revive(j)
        \/ Recover

Spec == Init /\ [][Next]_ledger

=============================================================================
