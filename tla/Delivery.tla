------------------------------ MODULE Delivery ------------------------------
(***************************************************************************)
(* One action on its way to its executor, and back: response.deliver_action *)
(* between the executor's row (tier2/execution.py) and a machine on the    *)
(* network (connectors/webhook.py, connectors/wazuh.py).                   *)
(*                                                                         *)
(* A request may be lost, may arrive after the client stopped waiting for  *)
(* it, and its answer may be lost: the client then knows nothing and sends *)
(* a further copy under the same idempotency key.  The action is a         *)
(* reversible containment; once it reads DONE a person may take it back,   *)
(* which travels the same way under a key of its own.                      *)
(***************************************************************************)
EXTENDS Integers

CONSTANTS
    MaxAttempts,   \* RESPONSE_MAX_ATTEMPTS
    Honoured,      \* TRUE iff the executor carries out a key only once
    MaxRollbacks,  \* bound: rollbacks asked for
    MaxCrashes     \* bound: deaths of the broker process

ASSUME DeliveryAssumption ==
    /\ MaxAttempts \in Nat \ {0}
    /\ Honoured \in BOOLEAN
    /\ MaxRollbacks \in Nat /\ MaxCrashes \in Nat

VARIABLES
    row,        \* status and rollback_status of the action
    call,       \* the call of deliver_action in progress
    wire,       \* copies of requests that may still arrive
    copies,     \* history: copies sent so far; numbers each of them
    keys,       \* executor: the keys it has carried out
    effects,    \* executor, history: times each operation took effect
    contained,  \* executor: is the target contained?
    dryRun,     \* RESPONSE_DRY_RUN, as the process read it when it started
    rollbacks,  \* history: rollbacks asked for
    crashes     \* history: deaths of the process

client == <<row, call>>
executor == <<keys, effects, contained>>
vars == <<client, wire, copies, executor, dryRun, rollbacks, crashes>>

Ops == {"execute", "rollback"}
Receipts == {"DONE", "FAILED", "BLOCKED", "SIMULATED"}
RowStatus == Receipts \cup {"QUEUED", "EXECUTING"}
UndoStatus == Receipts \cup {"NONE", "AVAILABLE", "EXECUTING"}

\* What an executor answers: carried out (2xx); done with nothing affected or
\* with failures (2xx, Wazuh's envelope); declined (4xx); 5xx, 408 or 429.
Replies == {"done", "failures", "refused", "unavailable"}

\* copy: the request waited on; reply: its answer, "none" while there is none.
Call == [op : Ops, pc : {"idle", "preflight", "attempt", "await", "record"},
         attempt : Nat, copy : Nat, reply : Replies \cup {"none"},
         receipt : Receipts \cup {"none"}]
Calling(op) == [op |-> op, pc |-> "preflight", attempt |-> 0, copy |-> 0,
                reply |-> "none", receipt |-> "none"]
NoCall == [op |-> "execute", pc |-> "idle", attempt |-> 0, copy |-> 0,
           reply |-> "none", receipt |-> "none"]

\* idempotency_key: the site, the decision and the action, and for a rollback
\* a suffix; the attempt is no part of it.
\* (mutant: a fresh key for every copy)
KeyPerCopy(op, copy) == <<op, copy>>
\* (mutant: the rollback goes out under the key of the action it undoes)
KeyShared(op, copy) == <<"execute">>
Key(op, copy) == <<op>>
Keys == {<<op>> : op \in Ops}
Request == [op : Ops, copy : Nat, key : Keys]

Init ==
    /\ row = [status |-> "QUEUED", undo |-> "NONE"]
    /\ call = NoCall
    /\ wire = {} /\ copies = 0
    /\ keys = {} /\ effects = [op \in Ops |-> 0] /\ contained = FALSE
    /\ dryRun \in BOOLEAN
    /\ rollbacks = 0 /\ crashes = 0

-----------------------------------------------------------------------------
(* The caller: _execute_soar_plan and rollback_tier2_action                *)

Dispatch ==
    /\ call.pc = "idle" /\ row.status = "QUEUED"
    /\ row' = [row EXCEPT !.status = "EXECUTING"]
    /\ call' = Calling("execute")
    /\ UNCHANGED <<wire, copies, executor, dryRun, rollbacks, crashes>>

AskRollback ==
    /\ call.pc = "idle" /\ row.status = "DONE"
    /\ row.undo \in {"AVAILABLE", "FAILED", "BLOCKED", "SIMULATED"}
    /\ rollbacks < MaxRollbacks
    /\ row' = [row EXCEPT !.undo = "EXECUTING"]
    /\ call' = Calling("rollback")
    /\ rollbacks' = rollbacks + 1
    /\ UNCHANGED <<wire, copies, executor, dryRun, crashes>>

\* The receipt is written to the row; what ran can from now on be undone.
Record ==
    /\ call.pc = "record"
    /\ row' = IF call.op = "execute"
              THEN [status |-> call.receipt,
                    undo |-> IF call.receipt = "DONE" THEN "AVAILABLE" ELSE "NONE"]
              ELSE [row EXCEPT !.undo = call.receipt]
    /\ call' = NoCall
    /\ UNCHANGED <<wire, copies, executor, dryRun, rollbacks, crashes>>

-----------------------------------------------------------------------------
(* deliver_action *)

Receipt(status) == call' = [call EXCEPT !.pc = "record", !.receipt = status]

\* No connector on the route, or one that does not perform this operation.
Refuse ==
    /\ call.pc = "preflight"
    /\ \E status \in {"FAILED", "BLOCKED"} : Receipt(status)
    /\ UNCHANGED <<row, wire, copies, executor, dryRun, rollbacks, crashes>>

Preview ==
    /\ call.pc = "preflight" /\ dryRun
    /\ Receipt("SIMULATED")
    /\ UNCHANGED <<row, wire, copies, executor, dryRun, rollbacks, crashes>>

GoAhead ==
    /\ call.pc = "preflight" /\ ~dryRun
    /\ call' = [call EXCEPT !.pc = "attempt"]
    /\ UNCHANGED <<row, wire, copies, executor, dryRun, rollbacks, crashes>>

Send ==
    /\ call.pc = "attempt"
    /\ copies' = copies + 1
    /\ wire' = wire \cup {[op |-> call.op, copy |-> copies + 1,
                           key |-> Key(call.op, copies + 1)]}
    /\ call' = [call EXCEPT !.pc = "await", !.attempt = @ + 1,
                            !.copy = copies + 1, !.reply = "none"]
    /\ UNCHANGED <<row, executor, dryRun, rollbacks, crashes>>

\* The connector is misconfigured or fails before anything is sent.
CannotSend ==
    /\ call.pc = "attempt"
    /\ Receipt("FAILED")
    /\ UNCHANGED <<row, wire, copies, executor, dryRun, rollbacks, crashes>>

\* (mutant: a success status is enough, whatever the envelope says)
AnsweredByStatus ==
    /\ call.pc = "await" /\ call.reply \in {"done", "failures", "refused"}
    /\ Receipt(IF call.reply = "refused" THEN "FAILED" ELSE "DONE")
    /\ UNCHANGED <<row, wire, copies, executor, dryRun, rollbacks, crashes>>
\* An answer is final.
Answered ==
    /\ call.pc = "await" /\ call.reply \in {"done", "failures", "refused"}
    /\ Receipt(IF call.reply = "done" THEN "DONE" ELSE "FAILED")
    /\ UNCHANGED <<row, wire, copies, executor, dryRun, rollbacks, crashes>>

\* TransportError: a timeout, a lost connection (whether or not the request
\* arrived), or an answer that means nobody answered.
\* (mutant: a client that waits for an answer as long as it takes)
UnansweredByStatus ==
    /\ call.pc = "await" /\ call.reply = "unavailable"
    /\ IF call.attempt < MaxAttempts THEN call' = [call EXCEPT !.pc = "attempt"]
                                     ELSE Receipt("FAILED")
    /\ UNCHANGED <<row, wire, copies, executor, dryRun, rollbacks, crashes>>
Unanswered ==
    /\ call.pc = "await"
    /\ IF call.attempt < MaxAttempts THEN call' = [call EXCEPT !.pc = "attempt"]
                                     ELSE Receipt("FAILED")
    /\ UNCHANGED <<row, wire, copies, executor, dryRun, rollbacks, crashes>>

-----------------------------------------------------------------------------
(* The executor and the network.  A copy arrives at most once, at any time  *)
(* after it was sent, or never; an answer counts only while it is awaited. *)

Replied(m, reply) ==
    call' = IF call.pc = "await" /\ call.copy = m.copy
            THEN [call EXCEPT !.reply = reply] ELSE call

CarryOut(m) ==
    /\ m \in wire /\ ~(Honoured /\ m.key \in keys)
    /\ wire' = wire \ {m}
    /\ keys' = keys \cup {m.key}
    /\ effects' = [effects EXCEPT ![m.op] = @ + 1]
    /\ contained' = (m.op = "execute")
    /\ \E reply \in {"done", "failures", "unavailable"} : Replied(m, reply)
    /\ UNCHANGED <<row, copies, dryRun, rollbacks, crashes>>

Decline(m) ==
    /\ m \in wire /\ ~(Honoured /\ m.key \in keys)
    /\ wire' = wire \ {m}
    /\ \E reply \in {"failures", "refused", "unavailable"} : Replied(m, reply)
    /\ UNCHANGED <<row, copies, executor, dryRun, rollbacks, crashes>>

Recognise(m) ==
    /\ m \in wire /\ Honoured /\ m.key \in keys
    /\ wire' = wire \ {m}
    /\ \E reply \in {"done", "refused", "unavailable"} : Replied(m, reply)
    /\ UNCHANGED <<row, copies, executor, dryRun, rollbacks, crashes>>

\* The broker dies and is started again, its settings perhaps changed; copies
\* it sent are still on their way.
Crash ==
    /\ crashes < MaxCrashes
    /\ crashes' = crashes + 1
    /\ call' = NoCall
    /\ dryRun' \in BOOLEAN
    /\ UNCHANGED <<row, wire, copies, executor, rollbacks>>

-----------------------------------------------------------------------------
ClientStep == \/ Record \/ Refuse \/ Preview \/ GoAhead \/ Send \/ CannotSend
              \/ Answered \/ Unanswered
ExecutorStep == \E m \in wire : CarryOut(m) \/ Decline(m) \/ Recognise(m)

Next == Dispatch \/ AskRollback \/ ClientStep \/ ExecutorStep \/ Crash

Spec == Init /\ [][Next]_vars

\* The plan is carried out by a task the event loop schedules, and no wait of
\* the client is unbounded; nothing is assumed of the network or of people.
FairSpec == Spec /\ WF_vars(Dispatch) /\ WF_vars(ClientStep)

-----------------------------------------------------------------------------
(* Properties *)

\* Every variable stays in its domain.
TypeOK ==
    /\ row \in [status : RowStatus, undo : UndoStatus]
    /\ call \in Call
    /\ wire \subseteq Request /\ copies \in Nat
    /\ keys \subseteq Keys
    /\ effects \in [Ops -> Nat] /\ contained \in BOOLEAN
    /\ dryRun \in BOOLEAN
    /\ rollbacks \in Nat /\ crashes \in Nat

\* "Unverifiable is never DONE": an action, or its rollback, reads DONE only
\* if the executor carried that operation out.
DoneIsObserved ==
    /\ row.status = "DONE" => effects["execute"] > 0
    /\ row.undo = "DONE" => effects["rollback"] > 0

\* "This is a repeat of one action, not a second one": however often copies
\* are sent, delayed or repeated after a crash, an executor that honours the
\* key acts once.
CarriedOutOnce == Honoured => \A op \in Ops : effects[op] <= 1

\* Once a rollback reads DONE the target stays free: no late copy of the
\* original request contains it again.
LiftedStaysLifted == Honoured /\ row.undo = "DONE" => ~contained

\* The README: a SIMULATED or FAILED delivery changed nothing.
FailedChangedNothing == row.status \in {"FAILED", "SIMULATED"} => ~contained

\* "Never raises": an action that is dispatched, and a rollback that is asked
\* for, gets a receipt whatever the network and the executor do, as long as
\* the process lives.
EveryDispatchAnswered ==
    /\ row.status \in {"QUEUED", "EXECUTING"} ~> row.status \in Receipts \/ crashes > 0
    /\ row.undo = "EXECUTING" ~> row.undo \in Receipts \/ crashes > 0

=============================================================================
