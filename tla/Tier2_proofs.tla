----------------------------- MODULE Tier2_proofs -----------------------------
(***************************************************************************)
(* What holds of a decision for every set of actions, plans, analysts and  *)
(* analyses, and every number of deaths of the process.                    *)
(*                                                                         *)
(* TypeOK needs only that a handler about to record a receipt holds one;   *)
(* that DONE is earned needs a count of confirmed actions.  Both hold      *)
(* under every overlap of requests.                                        *)
(* The rest holds when requests that decide do not overlap one another     *)
(* (DecisionsDoNotOverlap); rollbacks and executions may overlap anything. *)
(* That only what ran is taken back needs, beyond that invariant, a tally  *)
(* of the rows that read as run and as taken back (UndoInv).               *)
(* Tier2DoubleApprove.cfg, Tier2AutopilotEdited.cfg and                    *)
(* Tier2ApproveMerged.cfg show that they need that.                        *)
(***************************************************************************)
EXTENDS Tier2, SequenceTheorems, FiniteSetTheorems, TLAPS

-----------------------------------------------------------------------------
(* Plans *)

\* A new plan's rows are well typed and carry its actions.
LEMMA NewRowsType ==
    ASSUME NEW s \in Seq(Actions)
    PROVE  NewRows(s) \in Seq(Row) /\ ActionsOf(NewRows(s)) = s
<1>1. \A i \in 1..Len(s) : s[i] \in Actions
  BY ElementOfSeq
<1>2. \A i \in 1..Len(s) : [action |-> s[i], status |-> "PENDING", undo |-> ""] \in Row
  BY <1>1 DEF Row, RowStatus, UndoStatus
<1>3. NewRows(s) \in [1..Len(s) -> Row]
  BY <1>2 DEF NewRows
<1>4. NewRows(s) \in Seq(Row) /\ Len(NewRows(s)) = Len(s)
  <2>1. Len(s) \in Nat
    BY LenProperties
  <2>2. NewRows(s) \in Seq(Row)
    BY <1>3, <2>1, SeqDef
  <2>3. Len(NewRows(s)) \in Nat /\ 1..Len(NewRows(s)) = 1..Len(s)
    BY <1>3, <2>2, LenProperties
  <2>4. QED
    BY <2>1, <2>2, <2>3
<1>5. ActionsOf(NewRows(s)) = [i \in 1..Len(s) |-> s[i]]
  BY <1>4 DEF ActionsOf, NewRows
<1>6. s = [i \in 1..Len(s) |-> s[i]]
  OBVIOUS
<1>7. QED
  BY <1>4, <1>5, <1>6

\* The actions of well typed rows are a sequence of actions.
LEMMA ActionsOfType ==
    ASSUME NEW rows \in Seq(Row)
    PROVE  /\ ActionsOf(rows) \in Seq(Actions)
           /\ Len(ActionsOf(rows)) = Len(rows)
           /\ \A i \in 1..Len(rows) : ActionsOf(rows)[i] = rows[i].action
<1>1. \A i \in 1..Len(rows) : rows[i] \in Row
  BY ElementOfSeq
<1>2. \A i \in 1..Len(rows) : rows[i].action \in Actions
  BY <1>1 DEF Row
<1>3. QED
  BY <1>2 DEF ActionsOf

\* What an UPDATE of one row may do to the plan: the row's actions stay.
LEMMA TouchedRow ==
    ASSUME NEW rows \in Seq(Row), NEW i \in 1..Len(rows), NEW row \in Row,
           row.action = rows[i].action
    PROVE  LET new == [rows EXCEPT ![i] = row]
           IN  new \in Seq(Row) /\ Len(new) = Len(rows) /\ ActionsOf(new) = ActionsOf(rows)
<1> DEFINE new == [rows EXCEPT ![i] = row]
<1>1. new \in Seq(Row) /\ Len(new) = Len(rows)
  BY ExceptSeq
<1>2. \A k \in 1..Len(rows) : new[k].action = rows[k].action
  OBVIOUS
<1>3. ActionsOf(new) = ActionsOf(rows)
  BY <1>1, <1>2 DEF ActionsOf
<1>4. QED
  BY <1>1, <1>3

-----------------------------------------------------------------------------
(* Types *)

\* TypeOK by parts; a handler or an execution about to record a receipt
\* holds one.
DataType ==
    /\ decision \in Decision
    /\ plan \in Seq(Row) /\ base \in Nat
    /\ alert \in [status : {"NONE", "PENDING", "CONTAINED", "SUPERSEDED"}, byHand : BOOLEAN]
    /\ record \in Seq(Actions)
    /\ situation \in [attached : BOOLEAN, merged : BOOLEAN]
ProcType ==
    /\ proc \in [Procs -> Request]
    /\ \A p \in Procs : proc[p].pc = "undone" => proc[p].receipt \in Receipts
RunType ==
    /\ run \in [Approvers -> Execution]
    /\ \A p \in Approvers : run[p].pc = "record" => run[p].receipt \in Receipts
HistoryType ==
    /\ sent \in [Actions -> Nat] /\ undone \in [Actions -> Nat]
    /\ approved \in Seq(Actions)
    /\ dryRun \in BOOLEAN
    /\ crashes \in Nat

TypeInv == DataType /\ ProcType /\ RunType /\ HistoryType

LEMMA TypeInit == Init => TypeInv
<1> SUFFICES ASSUME Init PROVE TypeInv
  OBVIOUS
<1>1. <<>> \in Seq(Row) /\ <<>> \in Seq(Actions)
  BY EmptySeq
<1>2. DataType
  BY <1>1 DEF Init, DataType, Decision, Status
<1>3. ProcType
  BY <1>1 DEF Init, Idle, ProcType, Request, Where
<1>4. RunType
  BY <1>1 DEF Init, NoRun, RunType, Execution, RunWhere
<1>5. HistoryType
  BY <1>1 DEF Init, HistoryType
<1>6. QED
  BY <1>2, <1>3, <1>4, <1>5 DEF TypeInv

\* The ways a handler starts, moves on and ends keep the handlers well typed.
LEMMA HandlerMoves ==
    ASSUME ProcType, NEW p \in Procs,
           \/ \E pc \in Where \ {"undone"} : Goes(p, pc)
           \/ Ends(p)
           \/ Weighs(p)
           \/ \E kind \in Kinds, pc \in Where \ {"undone"}, s \in Seq(Actions) :
                   Starts(p, kind, pc, s)
    PROVE  ProcType'
<1> USE DEF ProcType
<1>1. ASSUME NEW pc \in Where \ {"undone"}, Goes(p, pc)
      PROVE  ProcType'
  BY <1>1 DEF Goes, Request
<1>2. ASSUME Ends(p)
      PROVE  ProcType'
  <2>1. Idle \in Request /\ Idle.pc # "undone"
    BY EmptySeq DEF Idle, Request, Where
  <2>2. QED
    BY <1>2, <2>1 DEF Ends
<1>3. ASSUME Weighs(p)
      PROVE  ProcType'
  BY <1>1, <1>2, <1>3 DEF Weighs, Where
<1>4. ASSUME NEW kind \in Kinds, NEW pc \in Where \ {"undone"}, NEW s \in Seq(Actions),
             Starts(p, kind, pc, s)
      PROVE  ProcType'
  <2> DEFINE new == [Idle EXCEPT !.doing = kind, !.pc = pc, !.plan = s]
  <2>1. new \in Request /\ new.pc # "undone"
    BY DEF Idle, Request
  <2>2. proc' = [proc EXCEPT ![p] = new]
    BY <1>4 DEF Starts
  <2> HIDE DEF new
  <2>3. QED
    BY <2>1, <2>2
<1>5. QED
  BY <1>1, <1>2, <1>3, <1>4

\* Replan installs a well typed plan with the new actions.
LEMMA ReplanType ==
    ASSUME DataType, NEW s \in Seq(Actions), Replan(s)
    PROVE  plan' \in Seq(Row) /\ base' \in Nat /\ ActionsOf(plan') = s
<1>1. plan' \in Seq(Row) /\ ActionsOf(plan') = s
  BY NewRowsType DEF Replan
<1>2. Len(plan) \in Nat
  BY LenProperties DEF DataType
<1>3. base' \in Nat
  BY <1>2 DEF Replan, DataType
<1>4. QED
  BY <1>1, <1>3

\* An UPDATE of one row by id keeps the plan well typed and its actions.
LEMMA SetRowType ==
    ASSUME DataType, NEW id \in Nat, NEW status \in RowStatus, NEW undo \in UndoStatus,
           SetRow(id, status, undo)
    PROVE  plan' \in Seq(Row) /\ Len(plan') = Len(plan) /\ ActionsOf(plan') = ActionsOf(plan)
<1>1. CASE ~Holds(id)
  BY <1>1 DEF SetRow, DataType
<1>2. CASE Holds(id)
  <2> DEFINE i == id - base
             row == [plan[i] EXCEPT !.status = status, !.undo = undo]
  <2>1. i \in 1..Len(plan)
    BY <1>2 DEF Holds
  <2>2. plan[i] \in Row
    BY <2>1, ElementOfSeq DEF DataType
  <2>3. row \in Row /\ row.action = plan[i].action
    BY <2>2 DEF Row
  <2>4. plan' = [plan EXCEPT ![i] = row]
    BY <1>2 DEF SetRow
  <2> HIDE DEF row, i
  <2>5. QED
    BY <2>1, <2>3, <2>4, TouchedRow DEF DataType
<1>3. QED
  BY <1>1, <1>2

\* What an execution works on next.
LEMMA NextRowType ==
    ASSUME DataType, RunType, NEW p \in Approvers
    PROVE  /\ NextRow(p) \in Nat
           /\ UndoOf(NextRow(p)) \in UndoStatus
<1>1. run[p] \in Execution
  BY DEF RunType
<1>2. NextRow(p) \in Nat
  <2>1. run[p].base \in Nat /\ run[p].at \in Nat
    BY <1>1 DEF Execution
  <2>2. QED
    BY <2>1 DEF NextRow
<1>3. ASSUME NEW id \in Nat, Holds(id) PROVE plan[id - base].undo \in UndoStatus
  <2>1. id - base \in 1..Len(plan)
    BY <1>3 DEF Holds
  <2>2. plan[id - base] \in Row
    BY <2>1, ElementOfSeq DEF DataType
  <2>3. QED
    BY <2>2 DEF Row
<1>4. QED
  BY <1>2, <1>3 DEF UndoOf, UndoStatus

\* The approval queues every row of the plan and keeps its actions.
LEMMA QueuedRows ==
    ASSUME NEW rows \in Seq(Row)
    PROVE  LET new == [i \in 1..Len(rows) |-> [rows[i] EXCEPT !.status = "QUEUED"]]
           IN  new \in Seq(Row) /\ Len(new) = Len(rows) /\ ActionsOf(new) = ActionsOf(rows)
<1> DEFINE new == [i \in 1..Len(rows) |-> [rows[i] EXCEPT !.status = "QUEUED"]]
<1>1. Len(rows) \in Nat /\ \A i \in 1..Len(rows) : rows[i] \in Row
  BY LenProperties, ElementOfSeq
<1>2. \A i \in 1..Len(rows) : new[i] \in Row /\ new[i].action = rows[i].action
  BY <1>1 DEF Row, RowStatus
<1>3. new \in [1..Len(rows) -> Row]
  BY <1>2
<1>4. new \in Seq(Row)
  BY <1>1, <1>3, SeqDef
<1>5. Len(new) = Len(rows)
  BY <1>1, <1>3, <1>4, LenProperties
<1>6. ActionsOf(new) = ActionsOf(rows)
  BY <1>2, <1>5 DEF ActionsOf
<1>7. QED
  BY <1>4, <1>5, <1>6

\* Writing an undo mark on one row, as a rollback does.
LEMMA MarkedRow ==
    ASSUME DataType, NEW i \in 1..Len(plan), NEW undo \in UndoStatus
    PROVE  LET new == [plan EXCEPT ![i].undo = undo]
           IN  new \in Seq(Row) /\ Len(new) = Len(plan) /\ ActionsOf(new) = ActionsOf(plan)
<1> DEFINE row == [plan[i] EXCEPT !.undo = undo]
<1>1. plan[i] \in Row
  BY ElementOfSeq DEF DataType
<1>2. row \in Row /\ row.action = plan[i].action
  BY <1>1 DEF Row
<1> HIDE DEF row
<1>3. QED
  BY <1>2, TouchedRow DEF DataType, row

\* The handlers of analyses, proposals, analysts and merges.
LEMMA HandlerType ==
    ASSUME Tier2Assumption, TypeInv,
           \/ \E x \in Analysers : Analyse(x)
           \/ \E a \in Analysts :
                 \/ Ensure(a) \/ ApproveRead(a) \/ RejectRead(a) \/ RejectWrite(a)
                 \/ EditRead(a) \/ EditWrite(a)
           \/ \E p \in Approvers : ProposalStep(p)
           \/ \E m \in Mergers : Merge(m)
    PROVE  TypeInv'
<1> USE DEF TypeInv, Procs, Approvers
<1>0. /\ \A s \in Proposals \cup Corrections : s \in Seq(Actions)
      /\ <<>> \in Seq(Actions)
      /\ \A p \in Procs : proc[p].plan \in Seq(Actions)
  <2>1. \A s \in Proposals : s \in Seq(Actions)
    BY DEF Tier2Assumption
  <2>2. ASSUME NEW s \in Corrections PROVE s \in Seq(Actions)
    <3>1. s \in Seq(Permitted) /\ Permitted \subseteq Actions
      BY DEF Tier2Assumption
    <3>2. s \in [1..Len(s) -> Actions] /\ Len(s) \in Nat
      BY <3>1, LenProperties
    <3>3. QED
      BY <3>2, SeqDef
  <2>3. \A p \in Procs : proc[p] \in Request
    BY DEF ProcType
  <2>4. QED
    BY <2>1, <2>2, <2>3, EmptySeq DEF Request
<1>1. ASSUME NEW x \in Analysers, NEW new \in Proposals, AnalyseFirst(x, new)
      PROVE  TypeInv'
  <2>1. ProcType'
    BY <1>0, <1>1, HandlerMoves DEF AnalyseFirst, Kinds, Where
  <2>2. DataType'
    BY <1>0, <1>1 DEF AnalyseFirst, DataType
  <2>3. QED
    BY <1>1, <2>1, <2>2 DEF AnalyseFirst, RunType, HistoryType, history
<1>2. ASSUME NEW x \in Analysers, NEW new \in Proposals, AnalyseAgain(x, new)
      PROVE  TypeInv'
  <2>1. ProcType'
    BY <1>0, <1>2, HandlerMoves DEF AnalyseAgain, Kinds, Where
  <2>2. DataType'
    BY <1>0, <1>2 DEF AnalyseAgain, DataType
  <2>3. QED
    BY <1>2, <2>1, <2>2 DEF AnalyseAgain, RunType, HistoryType, history
<1>3. ASSUME NEW x \in Analysers, AttachAlert(x)
      PROVE  TypeInv'
  <2>1. ProcType'
    BY <1>3, HandlerMoves DEF AttachAlert, Where
  <2>2. DataType'
    BY <1>3 DEF AttachAlert, DataType
  <2>3. QED
    BY <1>3, <2>1, <2>2 DEF AttachAlert, RunType, HistoryType, history
<1>4. ASSUME NEW x \in Analysers, RebuildRead(x)
      PROVE  TypeInv'
  <2>1. ProcType'
    BY <1>4, HandlerMoves DEF RebuildRead, Where
  <2>2. QED
    BY <1>4, <2>1 DEF RebuildRead, DataType, RunType, HistoryType, data, history
<1>5. ASSUME NEW x \in Analysers, RebuildWrite(x)
      PROVE  TypeInv'
  <2>1. ProcType'
    BY <1>5, HandlerMoves DEF RebuildWrite, Where
  <2>2. plan' \in Seq(Row) /\ base' \in Nat
    BY <1>0, <1>5, ReplanType DEF RebuildWrite
  <2>3. decision' \in Decision
    BY <1>5 DEF RebuildWrite, DataType, Decision
  <2>4. QED
    BY <1>5, <2>1, <2>2, <2>3 DEF RebuildWrite, DataType, RunType, HistoryType, history
<1>6. ASSUME NEW x \in Analysers, AutopilotDeclines(x) \/ AutopilotApproves(x)
      PROVE  TypeInv'
  <2>1. ProcType'
    BY <1>6, HandlerMoves DEF AutopilotDeclines, AutopilotApproves, Where
  <2>2. QED
    BY <1>6, <2>1 DEF AutopilotDeclines, AutopilotApproves,
                      DataType, RunType, HistoryType, data, history
<1>7. ASSUME NEW a \in Analysts,
             Ensure(a) \/ ApproveRead(a) \/ RejectRead(a) \/ EditRead(a)
      PROVE  TypeInv'
  <2>1. record \in Seq(Actions)
    BY DEF DataType
  <2>2. ProcType'
    BY <1>0, <1>7, <2>1, HandlerMoves
       DEF Ensure, ApproveRead, RejectRead, EditRead, Kinds, Where
  <2>3. UNCHANGED <<data, run, history>>
    BY <1>7 DEF Ensure, ApproveRead, RejectRead, EditRead
  <2>4. QED
    BY <2>2, <2>3 DEF DataType, RunType, HistoryType, data, history
<1>8. ASSUME NEW a \in Analysts, RejectWrite(a)
      PROVE  TypeInv'
  <2>1. ProcType'
    BY <1>8, HandlerMoves DEF RejectWrite
  <2>2. decision' \in Decision
    BY <1>8 DEF RejectWrite, DataType, Decision, Status
  <2>3. QED
    BY <1>8, <2>1, <2>2 DEF RejectWrite, DataType, RunType, HistoryType, history
<1>9. ASSUME NEW a \in Analysts, EditWrite(a)
      PROVE  TypeInv'
  <2>1. ProcType'
    BY <1>9, HandlerMoves DEF EditWrite
  <2>2. plan' \in Seq(Row) /\ base' \in Nat
    BY <1>0, <1>9, ReplanType DEF EditWrite, DataType
  <2>3. decision' \in Decision
    BY <1>9 DEF EditWrite, DataType, Decision
  <2>4. QED
    BY <1>9, <2>1, <2>2, <2>3 DEF EditWrite, DataType, RunType, HistoryType, history
<1>10. ASSUME NEW p \in Approvers, CreateRead(p) \/ ReadBack(p)
       PROVE  TypeInv'
  <2>1. ProcType'
    BY <1>10, HandlerMoves DEF CreateRead, ReadBack, Where
  <2>2. QED
    BY <1>10, <2>1 DEF CreateRead, ReadBack, DataType, RunType, HistoryType, data, history
<1>11. ASSUME NEW p \in Approvers, CreateWrite(p)
       PROVE  TypeInv'
  <2>1. ProcType'
    BY <1>11, HandlerMoves DEF CreateWrite, Where
  <2>2. plan' \in Seq(Row) /\ base' \in Nat
    BY <1>0, <1>11, ReplanType DEF CreateWrite, DataType
  <2>3. decision' \in Decision
    BY <1>11 DEF CreateWrite, DataType, Decision, Status
  <2>4. QED
    BY <1>11, <2>1, <2>2, <2>3 DEF CreateWrite, DataType, RunType, HistoryType, history
<1>12. ASSUME NEW m \in Mergers, MergeRead(m)
       PROVE  TypeInv'
  <2>1. ProcType'
    BY <1>0, <1>12, HandlerMoves DEF MergeRead, Kinds, Where
  <2>2. QED
    BY <1>12, <2>1 DEF MergeRead, DataType, RunType, HistoryType, data, history
<1>13. ASSUME NEW m \in Mergers, MergeWrite(m)
       PROVE  TypeInv'
  <2>1. ProcType'
    BY <1>13, HandlerMoves DEF MergeWrite
  <2>2. decision' \in Decision
    BY <1>13 DEF MergeWrite, DataType, Decision, Status
  <2>3. situation' \in [attached : BOOLEAN, merged : BOOLEAN]
    BY <1>13 DEF MergeWrite, DataType
  <2>4. alert' \in [status : {"NONE", "PENDING", "CONTAINED", "SUPERSEDED"}, byHand : BOOLEAN]
    <3>1. alert' = alert \/ alert' = [status |-> "SUPERSEDED", byHand |-> FALSE]
      BY <1>13 DEF MergeWrite
    <3>2. [status |-> "SUPERSEDED", byHand |-> FALSE]
            \in [status : {"NONE", "PENDING", "CONTAINED", "SUPERSEDED"}, byHand : BOOLEAN]
      OBVIOUS
    <3>3. QED
      BY <3>1, <3>2 DEF DataType
  <2>5. UNCHANGED <<plan, base, record, run, history>>
    BY <1>13 DEF MergeWrite
  <2>6. QED
    BY <2>1, <2>2, <2>3, <2>4, <2>5 DEF DataType, RunType, HistoryType, history
<1>15. ASSUME NEW m \in Mergers, MergeLoad(m)
       PROVE  TypeInv'
  <2>1. ProcType'
    BY <1>15, HandlerMoves DEF MergeLoad, Where
  <2>2. QED
    BY <1>15, <2>1 DEF MergeLoad, DataType, RunType, HistoryType, data, history
<1>14. QED
  BY <1>1, <1>2, <1>3, <1>4, <1>5, <1>6, <1>7, <1>8, <1>9, <1>10, <1>11, <1>12, <1>13, <1>15
     DEF Analyse, AnalysisStep, ProposalStep, Merge

\* A count per action stays one when an entry of it is raised.
LEMMA CountsUp ==
    ASSUME NEW f \in [Actions -> Nat], NEW x, NEW n \in Nat
    PROVE  [f EXCEPT ![x] = @ + n] \in [Actions -> Nat]
<1>1. \A a \in Actions : f[a] + n \in Nat
  OBVIOUS
<1>2. \A a \in Actions : [f EXCEPT ![x] = @ + n][a] \in Nat
  BY <1>1
<1>3. QED
  BY <1>2

\* An execution that moves on to a well typed state.
LEMMA ExecutionMoves ==
    ASSUME RunType, NEW p \in Approvers, NEW new \in Execution,
           new.pc = "record" => new.receipt \in Receipts,
           run' = [run EXCEPT ![p] = new]
    PROVE  RunType'
BY DEF RunType

\* An approval, and the execution it starts.
LEMMA ExecutionType ==
    ASSUME Tier2Assumption, TypeInv, NEW p \in Approvers, ApproveWrite(p) \/ RunStep(p)
    PROVE  TypeInv'
<1> USE DEF TypeInv, Procs, Approvers
<1>0. /\ run[p] \in Execution /\ NoRun \in Execution
      /\ run[p].at \in Nat /\ run[p].acked \in Nat
      /\ Len(run[p].plan) \in Nat
      /\ \A i \in 1..Len(run[p].plan) : run[p].plan[i] \in Actions
      /\ NextRow(p) \in Nat /\ UndoOf(NextRow(p)) \in UndoStatus
  <2>1. run[p] \in Execution
    BY DEF RunType
  <2>2. NoRun \in Execution
    BY EmptySeq DEF NoRun, Execution, RunWhere
  <2>3. run[p].plan \in Seq(Actions)
    BY <2>1 DEF Execution
  <2>4. /\ Len(run[p].plan) \in Nat
        /\ \A i \in 1..Len(run[p].plan) : run[p].plan[i] \in Actions
    BY <2>3, LenProperties, ElementOfSeq
  <2>5. run[p].at \in Nat /\ run[p].acked \in Nat
    BY <2>1 DEF Execution
  <2>6. QED
    BY <2>1, <2>2, <2>4, <2>5, NextRowType
<1>1. CASE ApproveWrite(p)
  <2>1. ProcType'
    BY <1>1, HandlerMoves DEF ApproveWrite
  <2>2. decision' \in Decision
    <3>1. ASSUME NEW b \in BOOLEAN
          PROVE  [decision EXCEPT !.status = "APPROVED", !.machine = b] \in Decision
      BY DEF DataType, Decision, Status
    <3>2. (p \in Analysers) \in BOOLEAN
      OBVIOUS
    <3>3. QED
      BY <1>1, <3>1, <3>2 DEF ApproveWrite
  <2>3. plan' \in Seq(Row) /\ approved' \in Seq(Actions)
    BY <1>1, QueuedRows, ActionsOfType DEF ApproveWrite, DataType
  <2>4. RunType'
    <3>1. run' = [run EXCEPT ![p] = [NoRun EXCEPT !.pc = "start"]]
      BY <1>1 DEF ApproveWrite
    <3>2. [NoRun EXCEPT !.pc = "start"] \in Execution
      BY <1>0 DEF Execution, RunWhere
    <3>3. [NoRun EXCEPT !.pc = "start"].pc # "record"
      BY DEF NoRun
    <3>4. QED
      BY <3>1, <3>2, <3>3, ExecutionMoves
  <2>5. QED
    BY <1>1, <2>1, <2>2, <2>3, <2>4 DEF ApproveWrite, DataType, HistoryType
<1>2. CASE RunStart(p)
  <2>1. decision' \in Decision
    BY <1>2 DEF RunStart, DataType, Decision, Status
  <2>2. RunType'
    <3> DEFINE new == [run[p] EXCEPT !.pc = "load"]
    <3>1. new \in Execution /\ new.pc # "record"
      BY <1>0 DEF Execution, RunWhere
    <3>2. run' = [run EXCEPT ![p] = new]
      BY <1>2 DEF RunStart
    <3> HIDE DEF new
    <3>3. QED
      BY <3>1, <3>2, ExecutionMoves
  <2>3. QED
    BY <1>2, <2>1, <2>2 DEF RunStart, DataType, ProcType, HistoryType, history
<1>3. CASE RunLoad(p)
  <2>1. ActionsOf(plan) \in Seq(Actions) /\ base \in Nat
    BY ActionsOfType DEF DataType
  <2>2. RunType'
    <3> DEFINE new == [run[p] EXCEPT !.pc = "next", !.plan = ActionsOf(plan), !.base = base]
    <3>1. new \in Execution /\ new.pc # "record"
      BY <1>0, <2>1 DEF Execution, RunWhere
    <3>2. run' = [run EXCEPT ![p] = new]
      BY <1>3 DEF RunLoad
    <3> HIDE DEF new
    <3>3. QED
      BY <3>1, <3>2, ExecutionMoves
  <2>3. QED
    BY <1>3, <2>2 DEF RunLoad, DataType, ProcType, HistoryType, data, history
<1>4. CASE RunBlock(p)
  <2>1. plan' \in Seq(Row)
    BY <1>0, <1>4, SetRowType DEF RunBlock, RowStatus, Receipts
  <2>2. RunType'
    <3> DEFINE new == [run[p] EXCEPT !.at = @ + 1, !.failed = TRUE]
    <3>1. new \in Execution /\ new.pc # "record"
      <4>1. run[p].pc # "record" /\ run[p].at + 1 \in Nat
        BY <1>0, <1>4 DEF RunBlock, Remaining
      <4>2. QED
        BY <1>0, <4>1 DEF Execution
    <3>2. run' = [run EXCEPT ![p] = new]
      BY <1>4 DEF RunBlock
    <3> HIDE DEF new
    <3>3. QED
      BY <3>1, <3>2, ExecutionMoves
  <2>3. QED
    BY <1>4, <2>1, <2>2 DEF RunBlock, DataType, ProcType, HistoryType, history
<1>5. CASE RunDispatch(p)
  <2>1. plan' \in Seq(Row)
    BY <1>0, <1>5, SetRowType DEF RunDispatch, RowStatus
  <2>2. RunType'
    <3> DEFINE new == [run[p] EXCEPT !.pc = "deliver"]
    <3>1. new \in Execution /\ new.pc # "record"
      BY <1>0 DEF Execution, RunWhere
    <3>2. run' = [run EXCEPT ![p] = new]
      BY <1>5 DEF RunDispatch
    <3> HIDE DEF new
    <3>3. QED
      BY <3>1, <3>2, ExecutionMoves
  <2>3. QED
    BY <1>5, <2>1, <2>2 DEF RunDispatch, DataType, ProcType, HistoryType, history
<1>6. CASE RunDeliver(p)
  <2>1. PICK receipt \in Outcomes :
          /\ run' = [run EXCEPT ![p].pc = "record", ![p].receipt = receipt,
                                ![p].acked = @ + (IF receipt = "DONE" THEN 1 ELSE 0)]
          /\ sent' = [sent EXCEPT ![NextAction(p)] = @ + (IF receipt = "DONE" THEN 1 ELSE 0)]
    BY <1>6 DEF RunDeliver
  <2>2. receipt \in Receipts
    BY DEF Outcomes
  <2> DEFINE one == IF receipt = "DONE" THEN 1 ELSE 0
             new == [run[p] EXCEPT !.pc = "record", !.receipt = receipt, !.acked = @ + one]
  <2>3. one \in Nat /\ run[p].acked + one \in Nat
    BY <1>0
  <2>4. RunType'
    <3>1. run' = [run EXCEPT ![p] = new]
      BY <2>1
    <3>2. new \in Execution /\ new.receipt \in Receipts
      <4> HIDE DEF one
      <4>1. QED
        BY <1>0, <2>2, <2>3 DEF Execution, RunWhere
    <3> HIDE DEF new
    <3>3. QED
      BY <3>1, <3>2, ExecutionMoves
  <2>5. sent' \in [Actions -> Nat]
    <3>1. sent' = [sent EXCEPT ![NextAction(p)] = @ + one]
      BY <2>1
    <3> HIDE DEF one
    <3>2. QED
      BY <2>3, <3>1, CountsUp DEF HistoryType
  <2>6. QED
    BY <1>6, <2>4, <2>5 DEF RunDeliver, DataType, ProcType, HistoryType, data
<1>7. CASE RunRecord(p)
  <2>1. run[p].receipt \in RowStatus
    BY <1>7 DEF RunRecord, RunType, RowStatus
  <2>2. plan' \in Seq(Row)
    <3> DEFINE undo == IF run[p].receipt = "DONE" /\ NextAction(p) \in Reversible
                       THEN "AVAILABLE" ELSE ""
    <3>1. undo \in UndoStatus
      BY DEF UndoStatus
    <3>2. SetRow(NextRow(p), run[p].receipt, undo)
      BY <1>7 DEF RunRecord
    <3> HIDE DEF undo
    <3>3. QED
      BY <1>0, <2>1, <3>1, <3>2, SetRowType
  <2>3. RunType'
    <3> DEFINE simulated == run[p].simulated \/ run[p].receipt = "SIMULATED"
               failed == run[p].failed \/ run[p].receipt \in {"FAILED", "BLOCKED"}
               new == [run[p] EXCEPT !.pc = "next", !.at = @ + 1,
                                     !.simulated = simulated, !.failed = failed]
    <3>1. run' = [run EXCEPT ![p] = new]
      BY <1>7 DEF RunRecord
    <3>2. run[p].at + 1 \in Nat
      BY <1>0
    <3>3. simulated \in BOOLEAN /\ failed \in BOOLEAN
      OBVIOUS
    <3>4. new \in Execution /\ new.pc # "record"
      <4> HIDE DEF simulated, failed
      <4>1. QED
        BY <1>0, <3>2, <3>3 DEF Execution, RunWhere
    <3> HIDE DEF new
    <3>5. QED
      BY <3>1, <3>4, ExecutionMoves
  <2>4. QED
    BY <1>7, <2>2, <2>3 DEF RunRecord, DataType, ProcType, HistoryType, history
<1>8. CASE RunMitigate(p)
  <2>1. RunType'
    <3> DEFINE new == [run[p] EXCEPT !.pc = "settle"]
    <3>1. new \in Execution /\ new.pc # "record"
      BY <1>0 DEF Execution, RunWhere
    <3>2. run' = [run EXCEPT ![p] = new]
      BY <1>8 DEF RunMitigate
    <3> HIDE DEF new
    <3>3. QED
      BY <3>1, <3>2, ExecutionMoves
  <2>2. QED
    BY <1>8, <2>1 DEF RunMitigate, DataType, ProcType, HistoryType, history
<1>9. CASE RunSettle(p)
  <2>1. RunType'
    <3> DEFINE new == [run[p] EXCEPT !.pc = "over"]
    <3>1. new \in Execution /\ new.pc # "record"
      BY <1>0 DEF Execution, RunWhere
    <3>2. run' = [run EXCEPT ![p] = new]
      BY <1>9 DEF RunSettle
    <3> HIDE DEF new
    <3>3. QED
      BY <3>1, <3>2, ExecutionMoves
  <2>2. Verdict(p) \in Status
    BY DEF Verdict, Status
  <2>3. decision' \in Decision
    BY <1>9, <2>2 DEF RunSettle, DataType, Decision
  <2>4. QED
    BY <1>9, <2>1, <2>3 DEF RunSettle, DataType, ProcType, HistoryType, history
<1>10. QED
  BY <1>1, <1>2, <1>3, <1>4, <1>5, <1>6, <1>7, <1>8, <1>9 DEF RunStep

\* A rollback.
LEMMA RollbackType ==
    ASSUME Tier2Assumption, TypeInv, NEW a \in Analysts,
           (\E i \in 1..Len(plan) : RollbackRead(a, i)) \/ RollbackStep(a)
    PROVE  TypeInv'
<1> USE DEF TypeInv, Procs
<1>0. proc[a] \in Request
  BY DEF ProcType
<1>1. ASSUME NEW i \in 1..Len(plan), RollbackRead(a, i)
      PROVE  TypeInv'
  <2> DEFINE new == [doing |-> "rollback", pc |-> "claim",
                     plan |-> <<plan[i].action>>, row |-> base + i, receipt |-> ""]
  <2>1. plan[i] \in Row
    BY ElementOfSeq DEF DataType
  <2>2. <<plan[i].action>> \in Seq(Actions)
    <3>1. plan[i].action \in Actions
      BY <2>1 DEF Row
    <3>2. QED
      BY <3>1
  <2>3. base + i \in Nat
    BY DEF DataType
  <2>4. new \in Request /\ new.pc # "undone"
    BY <2>2, <2>3 DEF Request, Where, Kinds
  <2>5. proc' = [proc EXCEPT ![a] = new] /\ UNCHANGED <<data, run, history>>
    BY <1>1 DEF RollbackRead
  <2> HIDE DEF new
  <2>6. ProcType'
    BY <2>4, <2>5 DEF ProcType
  <2>7. QED
    BY <2>5, <2>6 DEF DataType, RunType, HistoryType, data, history
<1>2. CASE RollbackClaim(a)
  <2>1. ProcType'
    BY <1>2, HandlerMoves DEF RollbackClaim, Where
  <2>2. plan' \in Seq(Row)
    <3>1. CASE Claimable(proc[a].row)
      <4>1. proc[a].row - base \in 1..Len(plan)
        BY <3>1 DEF Claimable, Holds
      <4>2. plan' = [plan EXCEPT ![proc[a].row - base].undo = "EXECUTING"]
        BY <1>2, <3>1 DEF RollbackClaim
      <4>3. "EXECUTING" \in UndoStatus
        BY DEF UndoStatus
      <4>4. QED
        BY <4>1, <4>2, <4>3, MarkedRow
    <3>2. CASE ~Claimable(proc[a].row)
      BY <1>2, <3>2 DEF RollbackClaim, DataType
    <3>3. QED
      BY <3>1, <3>2
  <2>3. QED
    BY <1>2, <2>1, <2>2 DEF RollbackClaim, DataType, RunType, HistoryType, history
<1>3. CASE RollbackDeliver(a)
  <2>1. PICK receipt \in Outcomes :
          /\ proc' = [proc EXCEPT ![a].pc = "undone", ![a].receipt = receipt]
          /\ undone' = [undone EXCEPT ![proc[a].plan[1]] =
                                  @ + (IF receipt = "DONE" THEN 1 ELSE 0)]
    BY <1>3 DEF RollbackDeliver
  <2>2. receipt \in Receipts
    BY DEF Outcomes
  <2>3. ProcType'
    <3> DEFINE new == [proc[a] EXCEPT !.pc = "undone", !.receipt = receipt]
    <3>1. proc' = [proc EXCEPT ![a] = new]
      BY <2>1
    <3>2. new \in Request /\ new.receipt \in Receipts
      BY <1>0, <2>2 DEF Request, Where
    <3> HIDE DEF new
    <3>3. QED
      BY <3>1, <3>2 DEF ProcType
  <2>4. undone' \in [Actions -> Nat]
    <3> DEFINE one == IF receipt = "DONE" THEN 1 ELSE 0
    <3>1. one \in Nat
      OBVIOUS
    <3>2. undone' = [undone EXCEPT ![proc[a].plan[1]] = @ + one]
      BY <2>1
    <3> HIDE DEF one
    <3>3. QED
      BY <3>1, <3>2, CountsUp DEF HistoryType
  <2>5. QED
    BY <1>3, <2>3, <2>4 DEF RollbackDeliver, DataType, RunType, HistoryType, data
<1>4. CASE RollbackRecord(a)
  <2>1. ProcType'
    BY <1>4, HandlerMoves DEF RollbackRecord, Where
  <2>2. plan' \in Seq(Row)
    <3>1. CASE Holds(proc[a].row)
      <4>1. proc[a].row - base \in 1..Len(plan)
        BY <3>1 DEF Holds
      <4>2. plan' = [plan EXCEPT ![proc[a].row - base].undo = proc[a].receipt]
        BY <1>4, <3>1 DEF RollbackRecord
      <4>3. proc[a].receipt \in UndoStatus
        BY <1>4 DEF RollbackRecord, ProcType, UndoStatus
      <4>4. QED
        BY <4>1, <4>2, <4>3, MarkedRow
    <3>2. CASE ~Holds(proc[a].row)
      BY <1>4, <3>2 DEF RollbackRecord, DataType
    <3>3. QED
      BY <3>1, <3>2
  <2>3. QED
    BY <1>4, <2>1, <2>2 DEF RollbackRecord, DataType, RunType, HistoryType, history
<1>5. CASE ReopenAlert(a)
  <2>1. ProcType'
    BY <1>5, HandlerMoves DEF ReopenAlert
  <2>2. QED
    BY <1>5, <2>1 DEF ReopenAlert, DataType, RunType, HistoryType, history
<1>6. QED
  BY <1>1, <1>2, <1>3, <1>4, <1>5 DEF RollbackStep

\* Every step keeps the types.
LEMMA TypeStep == Tier2Assumption /\ TypeInv /\ [Next]_vars => TypeInv'
<1> SUFFICES ASSUME Tier2Assumption, TypeInv, [Next]_vars PROVE TypeInv'
  OBVIOUS
<1>1. CASE UNCHANGED vars
  BY <1>1 DEF TypeInv, DataType, ProcType, RunType, HistoryType, vars, data, history
<1>2. CASE MarkContained
  <2>1. DataType'
    BY <1>2 DEF MarkContained, TypeInv, DataType
  <2>2. QED
    BY <1>2, <2>1 DEF MarkContained, TypeInv, ProcType, RunType, HistoryType, history
<1>3. CASE Crash
  <2>1. ProcType'
    <3>1. Idle \in Request /\ Idle.pc # "undone"
      BY EmptySeq DEF Idle, Request, Where
    <3>2. QED
      BY <1>3, <3>1 DEF Crash, ProcType
  <2>2. RunType'
    <3>1. ASSUME NEW p \in Approvers
          PROVE  /\ [run[p] EXCEPT !.pc = "lost"] \in Execution
                 /\ [run[p] EXCEPT !.pc = "lost"].pc # "record"
      BY DEF TypeInv, RunType, Execution, RunWhere
    <3>2. QED
      BY <1>3, <3>1 DEF Crash, TypeInv, RunType
  <2>3. HistoryType'
    BY <1>3 DEF Crash, TypeInv, HistoryType
  <2>4. QED
    BY <1>3, <2>1, <2>2, <2>3 DEF Crash, TypeInv, DataType, data
<1>4. CASE Next /\ ~MarkContained /\ ~Crash
  BY <1>4, HandlerType, ExecutionType, RollbackType DEF Next, Analyst, Approvers
<1>5. QED
  BY <1>1, <1>2, <1>3, <1>4

\* A decision, its plan, the alert, the situation, the requests and the
\* executions stay in their domains: no row is left half written or typed
\* as another's, whatever overlaps and whenever the process dies.
THEOREM TypeCorrect == Spec => []TypeOK
<1>1. TypeInv => TypeOK
  BY DEF TypeInv, TypeOK, DataType, ProcType, RunType, HistoryType
<1>2. QED
  BY <1>1, TypeInit, TypeStep, Tier2Assumption, PTL DEF Spec

-----------------------------------------------------------------------------
(* The inductive invariant when decisions do not overlap *)

\* Of two requests in progress at once, one is a rollback.
DecisionsDoNotOverlap == \A pair \in Overlapping : "rollback" \in pair

Deciding(p) == proc[p].doing \notin {"nothing", "rollback"}
Alone == \A p, q \in Procs : Deciding(p) /\ Deciding(q) => p = q

\* A request stays in its own handler, what it found when it read still
\* holds when it writes, and the plan it carries comes from the right hand.
Undoing == {"claim", "undo", "undone", "reopen"}
ForPending == {"approve", "reject", "relabel", "replan", "rebuild", "autopilot"}
ForProposal == {"attach", "create", "insert", "rebuild?", "rebuild"}
WithinPolicy(steps) == \A i \in 1..Len(steps) : steps[i] \in Unattended
InOrder(p) ==
    /\ proc[p].doing = "nothing" <=> proc[p].pc = "idle"
    /\ proc[p].doing = "rollback" <=> proc[p].pc \in Undoing
    /\ proc[p].pc = "autopilot" => p \in Analysers
    /\ proc[p].pc \in ForPending => Pending
    /\ proc[p].pc = "insert" => decision.status = "NONE"
    /\ proc[p].pc = "autopilot" \/ (proc[p].pc = "approve" /\ p \in Analysers)
           => WithinPolicy(ActionsOf(plan))
    /\ proc[p].pc \in ForProposal \cup Undoing \cup {"absorb"} => alert.status # "NONE"
    /\ proc[p].pc \in ForProposal => proc[p].plan \in Proposals
    /\ proc[p].pc = "replan" => proc[p].plan \in Corrections

\* The analysis on an alert recommends one of the proposals; no alert, no
\* decision.
Stored == /\ alert.status # "NONE" => record \in Proposals
          /\ alert.status = "NONE" =>
                 plan = <<>> /\ decision.status = "NONE" /\ ~situation.attached

HandlerInv == Alone /\ Stored /\ \A p \in Procs : InOrder(p)

\* What the decision reads while an execution is where it is, and what the
\* execution works from.
Carried == {"APPROVED", "EXECUTING", "DONE", "FAILED", "SIMULATED"}
Running == \A p \in Approvers :
    /\ Started(p) => decision.status \in Carried
    /\ run[p].pc = "start" => decision.status = "APPROVED"
    /\ run[p].pc \in {"load", "next", "deliver", "record", "settle"}
           => decision.status = "EXECUTING"
Kept == decision.status \in Carried => ActionsOf(plan) = approved
RunInv == /\ Running /\ Kept /\ OneExecution /\ SendsWhatWasApproved
          /\ decision.machine => WithinPolicy(approved)

DInv == TypeInv /\ HandlerInv /\ RunInv

LEMMA DInit == Init => DInv
<1> SUFFICES ASSUME Init PROVE DInv
  OBVIOUS
<1>1. TypeInv
  BY TypeInit
<1>2. \A p \in Procs : proc[p].doing = "nothing" /\ proc[p].pc = "idle"
  BY DEF Init, Idle
<1>3. Alone /\ \A p \in Procs : InOrder(p)
  BY <1>2 DEF Alone, Deciding, InOrder, Undoing, ForPending, ForProposal
<1>4. Stored
  BY DEF Init, Stored
<1>5. \A p \in Approvers : run[p].pc = "none"
  BY DEF Init, NoRun
<1>6. RunInv
  BY <1>5 DEF Init, RunInv, Running, Kept, OneExecution, SendsWhatWasApproved, Started, Carried
<1>7. QED
  BY <1>1, <1>3, <1>4, <1>6 DEF DInv, HandlerInv

\* A request that decides has nobody deciding beside it.
Sole(p) == \A q \in Procs : Deciding(q) => q = p

LEMMA DecidesAlone ==
    ASSUME HandlerInv, NEW p \in Procs, proc[p].pc \notin {"idle"} \cup Undoing
    PROVE  Sole(p)
<1>1. Deciding(p)
  BY DEF HandlerInv, InOrder, Deciding
<1>2. QED
  BY <1>1 DEF HandlerInv, Alone, Sole

LEMMA StartsAlone ==
    ASSUME DecisionsDoNotOverlap, NEW p \in Procs, NEW kind \in Kinds, kind # "rollback",
           MayStart(p, kind)
    PROVE  Sole(p)
<1> SUFFICES ASSUME NEW q \in Procs, Deciding(q) PROVE FALSE
  BY DEF Sole
<1>1. {kind, proc[q].doing} \in Overlapping
  BY DEF Deciding, MayStart
<1>2. "rollback" \in {kind, proc[q].doing}
  BY <1>1 DEF DecisionsDoNotOverlap
<1>3. QED
  BY <1>2 DEF Deciding

\* While one request decides, the others have nothing to lose by what it does.
LEMMA DeciderStep ==
    ASSUME HandlerInv, NEW p \in Procs, Sole(p),
           \A q \in Procs : q # p => proc'[q] = proc[q],
           InOrder(p)', Stored', alert.status # "NONE" => alert'.status # "NONE"
    PROVE  HandlerInv'
<1>1. ASSUME NEW q \in Procs, q # p
      PROVE  proc'[q] = proc[q] /\ ~Deciding(q) /\ ~Deciding(q)'
  BY <1>1 DEF Sole, Deciding
<1>2. Alone'
  BY <1>1 DEF Alone
<1>3. ASSUME NEW q \in Procs, q # p PROVE InOrder(q)'
  <2>1. InOrder(q)
    BY DEF HandlerInv
  <2>2. proc[q].pc \in {"idle"} \cup Undoing
    BY <1>1, <1>3, <2>1 DEF InOrder, Deciding
  <2>3. QED
    BY <1>1, <1>3, <2>1, <2>2 DEF InOrder, Undoing, ForPending, ForProposal
<1>4. QED
  BY <1>2, <1>3 DEF HandlerInv

\* A step that leaves the decision, its plan's actions and the executions.
LEMMA RunUntouched ==
    ASSUME RunInv, UNCHANGED <<decision, run, approved>>, ActionsOf(plan') = ActionsOf(plan)
    PROVE  RunInv'
BY DEF RunInv, Running, Kept, OneExecution, SendsWhatWasApproved, Started, WithinPolicy

\* A step on a decision that no approval has reached, and that is not one.
LEMMA BeforeApproval ==
    ASSUME RunInv, decision.status \notin Carried, decision'.status \notin Carried,
           decision'.machine = decision.machine, UNCHANGED <<run, approved>>
    PROVE  RunInv'
<1>1. \A p \in Approvers : ~Started(p) /\ ~Started(p)'
  BY DEF RunInv, Running, Started
<1>2. QED
  BY <1>1 DEF RunInv, Running, Kept, OneExecution, SendsWhatWasApproved, Started, WithinPolicy

\* The plan Weighs lets through to the autopilot is within its policy.
LEMMA WeighsInOrder ==
    ASSUME TypeInv, HandlerInv, NEW p \in Procs, proc[p].pc \notin {"idle"} \cup Undoing,
           Weighs(p), UNCHANGED <<decision, plan>>
    PROVE  InOrder(p)' /\ \A q \in Procs : q # p => proc'[q] = proc[q]
<1> USE DEF TypeInv, ProcType
<1>1. proc[p].doing \notin {"nothing", "rollback"}
  BY DEF HandlerInv, InOrder
<1>2. CASE p \in Analysers /\ Eligible
  <2>1. proc' = [proc EXCEPT ![p].pc = "autopilot"]
    BY <1>2 DEF Weighs, Goes
  <2>2. proc'[p].pc = "autopilot" /\ proc'[p].doing = proc[p].doing
    BY <2>1 DEF Request
  <2>3. WithinPolicy(ActionsOf(plan))
    BY <1>2, ActionsOfType DEF Eligible, WithinPolicy, DataType
  <2>4. InOrder(p)'
    BY <1>1, <1>2, <2>2, <2>3
       DEF InOrder, Pending, Eligible, Undoing, ForPending, ForProposal, WithinPolicy
  <2>5. QED
    BY <2>1, <2>4
<1>3. CASE ~(p \in Analysers /\ Eligible)
  <2>1. proc' = [proc EXCEPT ![p] = Idle]
    BY <1>3 DEF Weighs, Ends
  <2>2. InOrder(p)'
    BY <2>1 DEF InOrder, Idle, Undoing, ForPending, ForProposal
  <2>3. QED
    BY <2>1, <2>2
<1>4. QED
  BY <1>2, <1>3

\* What a handler's first, middle and last step make of its own record.
LEMMA MovesTo ==
    ASSUME TypeInv, NEW p \in Procs
    PROVE  /\ \A kind, pc, s : Starts(p, kind, pc, s) =>
                  /\ proc'[p] = [Idle EXCEPT !.doing = kind, !.pc = pc, !.plan = s]
                  /\ \A q \in Procs : q # p => proc'[q] = proc[q]
           /\ \A pc : Goes(p, pc) =>
                  /\ proc'[p] = [proc[p] EXCEPT !.pc = pc]
                  /\ proc'[p].pc = pc /\ proc'[p].doing = proc[p].doing
                  /\ proc'[p].plan = proc[p].plan
                  /\ \A q \in Procs : q # p => proc'[q] = proc[q]
<1> USE DEF TypeInv, ProcType
<1>1. ASSUME NEW kind, NEW pc, NEW s, Starts(p, kind, pc, s)
      PROVE  /\ proc'[p] = [Idle EXCEPT !.doing = kind, !.pc = pc, !.plan = s]
             /\ \A q \in Procs : q # p => proc'[q] = proc[q]
  BY <1>1 DEF Starts
<1>2. ASSUME NEW pc, Goes(p, pc)
      PROVE  /\ proc'[p] = [proc[p] EXCEPT !.pc = pc]
             /\ proc'[p].pc = pc /\ proc'[p].doing = proc[p].doing
             /\ proc'[p].plan = proc[p].plan
             /\ \A q \in Procs : q # p => proc'[q] = proc[q]
  BY <1>2 DEF Goes, Request
<1>3. QED
  BY <1>1, <1>2

\* A request that ends.
LEMMA EndsInOrder ==
    ASSUME TypeInv, NEW p \in Procs, Ends(p)
    PROVE  InOrder(p)' /\ \A q \in Procs : q # p => proc'[q] = proc[q]
<1>1. proc' = [proc EXCEPT ![p] = Idle]
  BY DEF Ends
<1>2. proc'[p].pc = "idle" /\ proc'[p].doing = "nothing"
  BY <1>1 DEF TypeInv, ProcType, Idle
<1>3. InOrder(p)'
  BY <1>2 DEF InOrder, Undoing, ForPending, ForProposal
<1>4. QED
  BY <1>1, <1>3

\* Starting to decide: nobody else does, and the request is as it should be.
LEMMA StartsInOrder ==
    ASSUME DecisionsDoNotOverlap, TypeInv, HandlerInv, NEW p \in Procs,
           NEW kind \in Kinds, kind # "rollback", NEW pc, NEW s, Starts(p, kind, pc, s),
           \/ pc \in ForProposal \ {"insert", "rebuild"} /\ s \in Proposals
           \/ pc = "replan" /\ s \in Corrections /\ Pending'
           \/ pc \in {"reject", "relabel"} /\ Pending'
           \/ pc = "approve" /\ p \notin Analysers /\ Pending'
           \/ pc = "merge",
           pc \in ForProposal => alert'.status # "NONE"
    PROVE  /\ Sole(p) /\ InOrder(p)'
           /\ \A q \in Procs : q # p => proc'[q] = proc[q]
<1>1. Sole(p)
  BY StartsAlone DEF Starts
<1>2. /\ proc'[p] = [Idle EXCEPT !.doing = kind, !.pc = pc, !.plan = s]
      /\ \A q \in Procs : q # p => proc'[q] = proc[q]
  BY MovesTo
<1>3. proc'[p].doing = kind /\ proc'[p].pc = pc /\ proc'[p].plan = s
  BY <1>2 DEF Idle
<1>4. kind # "nothing"
  BY DEF Kinds
<1>5. pc \notin {"idle", "autopilot", "insert", "rebuild"} \cup Undoing
  BY DEF ForProposal, Undoing
<1>6. InOrder(p)'
  BY <1>3, <1>4, <1>5 DEF InOrder, ForPending, ForProposal, Undoing
<1>7. QED
  BY <1>1, <1>2, <1>6

\* Moving on within a deciding handler.
LEMMA GoesInOrder ==
    ASSUME TypeInv, HandlerInv, NEW p \in Procs, NEW pc, Goes(p, pc),
           proc[p].pc \notin {"idle"} \cup Undoing,
           \/ /\ pc \in {"create", "rebuild", "insert"}
              /\ proc[p].plan \in Proposals /\ alert'.status # "NONE"
           \/ pc = "weigh"
           \/ pc = "approve" /\ (p \in Analysers => WithinPolicy(ActionsOf(plan))'),
           pc \in {"rebuild", "approve"} => Pending',
           pc = "insert" => decision'.status = "NONE"
    PROVE  InOrder(p)' /\ \A q \in Procs : q # p => proc'[q] = proc[q]
<1>1. /\ proc'[p].pc = pc /\ proc'[p].doing = proc[p].doing
      /\ proc'[p].plan = proc[p].plan
      /\ \A q \in Procs : q # p => proc'[q] = proc[q]
  BY MovesTo
<1>2. proc[p].doing \notin {"nothing", "rollback"}
  BY DEF HandlerInv, InOrder
<1>3. pc \notin {"idle", "autopilot", "attach", "replan"} \cup Undoing
  BY DEF Undoing
<1>4. InOrder(p)'
  BY <1>1, <1>2, <1>3 DEF InOrder, ForPending, ForProposal, WithinPolicy
<1>5. QED
  BY <1>1, <1>4

\* A merge that goes on to absorb the situation: with its alert, or bare.
LEMMA AbsorbsInOrder ==
    ASSUME TypeInv, HandlerInv, NEW p \in Procs, proc[p].pc = "merge",
           NEW pc \in {"absorb", "absorb bare"}, Goes(p, pc),
           pc = "absorb" => alert'.status # "NONE"
    PROVE  InOrder(p)' /\ \A q \in Procs : q # p => proc'[q] = proc[q]
<1>1. /\ proc'[p].pc = pc /\ proc'[p].doing = proc[p].doing
      /\ \A q \in Procs : q # p => proc'[q] = proc[q]
  BY MovesTo
<1>2. proc[p].doing \notin {"nothing", "rollback"}
  BY DEF HandlerInv, InOrder, Undoing
<1>3. InOrder(p)'
  BY <1>1, <1>2 DEF InOrder, ForPending, ForProposal, Undoing
<1>4. QED
  BY <1>1, <1>3

\* Every step of a handler that decides keeps the invariant.
LEMMA DecidingStep ==
    ASSUME Tier2Assumption, DecisionsDoNotOverlap, DInv,
           \/ \E x \in Analysers : Analyse(x)
           \/ \E a \in Analysts :
                 \/ Ensure(a) \/ ApproveRead(a) \/ RejectRead(a) \/ RejectWrite(a)
                 \/ EditRead(a) \/ EditWrite(a)
           \/ \E p \in Approvers : ProposalStep(p)
           \/ \E m \in Mergers : Merge(m)
    PROVE  HandlerInv' /\ RunInv'
<1> USE DEF DInv, Procs, Approvers
<1>0. /\ \A p \in Procs : InOrder(p)
      /\ Stored
      /\ UNCHANGED <<decision, plan, alert, record, situation>> => Stored'
      /\ UNCHANGED <<alert, record>> /\ alert.status # "NONE" => Stored'
      /\ \A p \in Procs : proc[p].pc \in ForProposal => alert.status # "NONE"
      /\ decision.status # "NONE" => alert.status # "NONE"
      /\ UNCHANGED data => UNCHANGED <<decision, plan, alert, record, situation>>
      /\ UNCHANGED history => UNCHANGED approved
  BY DEF HandlerInv, InOrder, Stored, data, history
<1>1. ASSUME NEW x \in Analysers, NEW new \in Proposals, AnalyseFirst(x, new)
      PROVE  HandlerInv' /\ RunInv'
  <2>1. Stored' /\ alert'.status # "NONE"
    BY <1>1 DEF AnalyseFirst, Stored
  <2>2. HandlerInv'
    BY <1>1, <2>1, StartsInOrder, DeciderStep DEF AnalyseFirst, Kinds, ForProposal
  <2>3. QED
    BY <1>0, <1>1, <2>2, RunUntouched DEF AnalyseFirst, ActionsOf
<1>2. ASSUME NEW x \in Analysers, NEW new \in Proposals, AnalyseAgain(x, new)
      PROVE  HandlerInv' /\ RunInv'
  <2>1. Stored' /\ alert'.status # "NONE"
    BY <1>0, <1>2 DEF AnalyseAgain, Stored
  <2>2. HandlerInv'
    BY <1>2, <2>1, StartsInOrder, DeciderStep DEF AnalyseAgain, Kinds, ForProposal
  <2>3. QED
    BY <1>0, <1>2, <2>2, RunUntouched DEF AnalyseAgain, ActionsOf
<1>3. ASSUME NEW x \in Analysers, AttachAlert(x)
      PROVE  HandlerInv' /\ RunInv'
  <2>1. proc[x].plan \in Proposals /\ alert.status # "NONE"
    BY <1>0, <1>3 DEF AttachAlert, InOrder, ForProposal
  <2>2. Stored'
    BY <1>0, <1>3, <2>1 DEF AttachAlert, Stored
  <2>3. proc[x].pc \notin {"idle"} \cup Undoing
    BY <1>3 DEF AttachAlert, Undoing
  <2>4. InOrder(x)' /\ \A q \in Procs : q # x => proc'[q] = proc[q]
    BY <1>3, <2>1, <2>3, GoesInOrder DEF AttachAlert
  <2>5. HandlerInv'
    BY <1>3, <2>2, <2>3, <2>4, DecidesAlone, DeciderStep DEF AttachAlert
  <2>6. QED
    BY <1>0, <1>3, <2>5, RunUntouched DEF AttachAlert, ActionsOf
<1>4. ASSUME NEW x \in Analysers, RebuildRead(x)
      PROVE  HandlerInv' /\ RunInv'
  <2>1. proc[x].plan \in Proposals /\ alert.status # "NONE"
    BY <1>0, <1>4 DEF RebuildRead, InOrder, ForProposal
  <2>2. proc[x].pc \notin {"idle"} \cup Undoing
    BY <1>4 DEF RebuildRead, Undoing
  <2>3. /\ UNCHANGED <<decision, plan, alert, record, situation, run, approved>>
        /\ Pending => Pending'
    BY <1>0, <1>4 DEF RebuildRead, Pending
  <2>4. \/ Goes(x, "create")
        \/ Goes(x, "rebuild") /\ Pending
        \/ Weighs(x)
    BY <1>4 DEF RebuildRead
  <2>5. InOrder(x)' /\ \A q \in Procs : q # x => proc'[q] = proc[q]
    <3>1. CASE Goes(x, "create")
      BY <2>1, <2>2, <2>3, <3>1, GoesInOrder
    <3>2. CASE Goes(x, "rebuild") /\ Pending
      BY <2>1, <2>2, <2>3, <3>2, GoesInOrder
    <3>3. CASE Weighs(x)
      BY <2>2, <2>3, <3>3, WeighsInOrder
    <3>4. QED
      BY <2>4, <3>1, <3>2, <3>3
  <2>6. HandlerInv'
    BY <1>0, <2>2, <2>3, <2>5, DecidesAlone, DeciderStep
  <2>7. QED
    BY <2>3, <2>6, RunUntouched DEF ActionsOf
<1>5. ASSUME NEW x \in Analysers, RebuildWrite(x)
      PROVE  HandlerInv' /\ RunInv'
  <2>1. proc[x].pc \notin {"idle"} \cup Undoing /\ Pending /\ alert.status # "NONE"
    BY <1>0, <1>5 DEF RebuildWrite, InOrder, Undoing, ForPending, Pending
  <2>2. InOrder(x)' /\ \A q \in Procs : q # x => proc'[q] = proc[q]
    BY <1>5, <2>1, GoesInOrder DEF RebuildWrite
  <2>3. HandlerInv'
    BY <1>0, <1>5, <2>1, <2>2, DecidesAlone, DeciderStep DEF RebuildWrite
  <2>4. decision'.status = "PENDING" /\ decision'.machine = decision.machine
    BY <1>5, <2>1 DEF RebuildWrite, Pending, TypeInv, DataType, Decision
  <2>5. QED
    BY <1>0, <1>5, <2>1, <2>3, <2>4, BeforeApproval DEF RebuildWrite, Pending, Carried
<1>6. ASSUME NEW x \in Analysers, AutopilotDeclines(x) \/ AutopilotApproves(x)
      PROVE  HandlerInv' /\ RunInv'
  <2>1. proc[x].pc \notin {"idle"} \cup Undoing /\ WithinPolicy(ActionsOf(plan))
    BY <1>0, <1>6 DEF AutopilotDeclines, AutopilotApproves, InOrder, Undoing
  <2>2. UNCHANGED <<decision, plan, alert, record, situation, run, approved>>
    BY <1>0, <1>6 DEF AutopilotDeclines, AutopilotApproves
  <2>3. WithinPolicy(ActionsOf(plan))' /\ Pending' = Pending
    BY <2>1, <2>2 DEF WithinPolicy, ActionsOf, Pending
  <2>4. Ends(x) \/ (Goes(x, "approve") /\ Pending)
    BY <1>6 DEF AutopilotDeclines, AutopilotApproves
  <2>5. InOrder(x)' /\ \A q \in Procs : q # x => proc'[q] = proc[q]
    <3>1. CASE Ends(x)
      BY <3>1, EndsInOrder
    <3>2. CASE Goes(x, "approve") /\ Pending
      BY <2>1, <2>3, <3>2, GoesInOrder
    <3>3. QED
      BY <2>4, <3>1, <3>2
  <2>6. HandlerInv'
    BY <1>0, <2>1, <2>2, <2>5, DecidesAlone, DeciderStep
  <2>7. QED
    BY <2>2, <2>6, RunUntouched DEF ActionsOf
<1>7. ASSUME NEW a \in Analysts,
             Ensure(a) \/ ApproveRead(a) \/ RejectRead(a) \/ EditRead(a)
      PROVE  HandlerInv' /\ RunInv'
  <2>1. UNCHANGED <<decision, plan, alert, record, situation, run, approved>> /\ Pending' = Pending
    BY <1>0, <1>7 DEF Ensure, ApproveRead, RejectRead, EditRead, Pending
  <2>2. a \in Procs /\ a \notin Analysers
    BY DEF Tier2Assumption
  <2>3. /\ Sole(a) /\ InOrder(a)'
        /\ \A q \in Procs : q # a => proc'[q] = proc[q]
    <3>1. CASE Ensure(a)
      <4>1. record \in Proposals
        BY <1>0, <3>1 DEF Ensure, Stored
      <4>2. QED
        BY <2>1, <2>2, <3>1, <4>1, StartsInOrder DEF Ensure, Kinds, ForProposal
    <3>2. CASE ApproveRead(a)
      BY <2>1, <2>2, <3>2, StartsInOrder DEF ApproveRead, Kinds, ForProposal
    <3>3. CASE RejectRead(a)
      BY <2>1, <2>2, <3>3, StartsInOrder DEF RejectRead, Kinds, ForProposal
    <3>4. CASE EditRead(a)
      BY <2>1, <2>2, <3>4, StartsInOrder DEF EditRead, Kinds, ForProposal
    <3>5. QED
      BY <1>7, <3>1, <3>2, <3>3, <3>4
  <2>4. HandlerInv'
    BY <1>0, <2>1, <2>3, DeciderStep
  <2>5. QED
    BY <2>1, <2>4, RunUntouched DEF ActionsOf
<1>8. ASSUME NEW a \in Analysts, RejectWrite(a)
      PROVE  HandlerInv' /\ RunInv'
  <2>1. proc[a].pc \notin {"idle"} \cup Undoing /\ Pending /\ alert.status # "NONE"
    BY <1>0, <1>8 DEF RejectWrite, InOrder, Undoing, ForPending, Pending
  <2>2. HandlerInv'
    BY <1>0, <1>8, <2>1, EndsInOrder, DecidesAlone, DeciderStep DEF RejectWrite
  <2>3. decision'.status = "REJECTED" /\ decision'.machine = decision.machine
    BY <1>8 DEF RejectWrite, TypeInv, DataType, Decision
  <2>4. QED
    BY <1>0, <1>8, <2>1, <2>2, <2>3, BeforeApproval DEF RejectWrite, Pending, Carried
<1>9. ASSUME NEW a \in Analysts, EditWrite(a)
      PROVE  HandlerInv' /\ RunInv'
  <2>1. proc[a].pc \notin {"idle"} \cup Undoing /\ Pending /\ alert.status # "NONE"
    BY <1>0, <1>9 DEF EditWrite, InOrder, Undoing, ForPending, Pending
  <2>2. HandlerInv'
    BY <1>0, <1>9, <2>1, EndsInOrder, DecidesAlone, DeciderStep DEF EditWrite
  <2>3. decision'.status = "PENDING" /\ decision'.machine = decision.machine
    BY <1>9, <2>1 DEF EditWrite, Pending, TypeInv, DataType, Decision
  <2>4. QED
    BY <1>0, <1>9, <2>1, <2>2, <2>3, BeforeApproval DEF EditWrite, Pending, Carried
<1>10. ASSUME NEW p \in Approvers, CreateRead(p) \/ ReadBack(p)
       PROVE  HandlerInv' /\ RunInv'
  <2>1. /\ proc[p].pc \notin {"idle"} \cup Undoing
        /\ proc[p].pc = "create" => proc[p].plan \in Proposals /\ alert.status # "NONE"
    BY <1>0, <1>10 DEF CreateRead, ReadBack, InOrder, Undoing, ForProposal
  <2>2. UNCHANGED <<decision, plan, alert, record, situation, run, approved>>
    BY <1>0, <1>10 DEF CreateRead, ReadBack
  <2>3. \/ Goes(p, "insert") /\ proc[p].pc = "create" /\ decision.status = "NONE"
        \/ Weighs(p)
    BY <1>10 DEF CreateRead, ReadBack
  <2>4. InOrder(p)' /\ \A q \in Procs : q # p => proc'[q] = proc[q]
    BY <2>1, <2>2, <2>3, GoesInOrder, WeighsInOrder
  <2>5. HandlerInv'
    BY <1>0, <2>1, <2>2, <2>4, DecidesAlone, DeciderStep
  <2>6. QED
    BY <2>2, <2>5, RunUntouched DEF ActionsOf
<1>11. ASSUME NEW p \in Approvers, CreateWrite(p)
       PROVE  HandlerInv' /\ RunInv'
  <2>1. /\ proc[p].pc \notin {"idle"} \cup Undoing
        /\ decision.status = "NONE" /\ alert.status # "NONE"
    BY <1>0, <1>11 DEF CreateWrite, InOrder, Undoing, ForProposal
  <2>2. InOrder(p)' /\ \A q \in Procs : q # p => proc'[q] = proc[q]
    BY <1>11, <2>1, GoesInOrder DEF CreateWrite
  <2>3. HandlerInv'
    BY <1>0, <1>11, <2>1, <2>2, DecidesAlone, DeciderStep DEF CreateWrite
  <2>4. decision'.status = "PENDING" /\ decision'.machine = decision.machine
    BY <1>11, <2>1 DEF CreateWrite, TypeInv, DataType, Decision
  <2>5. QED
    BY <1>0, <1>11, <2>1, <2>3, <2>4, BeforeApproval DEF CreateWrite, Carried
<1>12. ASSUME NEW m \in Mergers, MergeRead(m)
       PROVE  HandlerInv' /\ RunInv'
  <2>1. UNCHANGED <<decision, plan, alert, record, situation, run, approved>>
    BY <1>0, <1>12 DEF MergeRead
  <2>2. HandlerInv'
    BY <1>0, <1>12, <2>1, StartsInOrder, DeciderStep DEF MergeRead, Kinds, ForProposal
  <2>3. QED
    BY <2>1, <2>2, RunUntouched DEF ActionsOf
<1>13. ASSUME NEW m \in Mergers, MergeWrite(m)
       PROVE  HandlerInv' /\ RunInv'
  <2>1. proc[m].pc \notin {"idle"} \cup Undoing
    BY <1>13 DEF MergeWrite, Undoing
  <2>2. Stored' /\ (alert.status # "NONE" => alert'.status # "NONE")
    <3>1. CASE proc[m].pc = "absorb"
      <4>1. alert.status # "NONE" /\ alert'.status = "SUPERSEDED" /\ record' = record
        BY <1>0, <1>13, <3>1 DEF MergeWrite, InOrder
      <4>2. QED
        BY <1>0, <4>1 DEF Stored
    <3>2. CASE proc[m].pc = "absorb bare"
      <4>1. /\ UNCHANGED <<decision, plan, alert, record>>
            /\ situation'.attached = situation.attached
        BY <1>13, <3>2 DEF MergeWrite, TypeInv, DataType
      <4>2. QED
        BY <1>0, <4>1 DEF Stored
    <3>3. QED
      BY <1>13, <3>1, <3>2 DEF MergeWrite
  <2>3. HandlerInv'
    BY <1>13, <2>1, <2>2, EndsInOrder, DecidesAlone, DeciderStep DEF MergeWrite
  <2>4. CASE proc[m].pc = "absorb" /\ Pending
    <3>1. decision'.status = "SUPERSEDED" /\ decision'.machine = decision.machine
      BY <1>13, <2>4 DEF MergeWrite, TypeInv, DataType, Decision
    <3>2. QED
      BY <1>0, <1>13, <2>3, <2>4, <3>1, BeforeApproval DEF MergeWrite, Pending, Carried
  <2>5. CASE ~(proc[m].pc = "absorb" /\ Pending)
    BY <1>0, <1>13, <2>3, <2>5, RunUntouched DEF MergeWrite, ActionsOf
  <2>6. QED
    BY <2>4, <2>5
<1>15. ASSUME NEW m \in Mergers, MergeLoad(m)
       PROVE  HandlerInv' /\ RunInv'
  <2>1. UNCHANGED <<decision, plan, alert, record, situation, run, approved>>
    BY <1>0, <1>15 DEF MergeLoad
  <2>2. proc[m].pc \notin {"idle"} \cup Undoing
    BY <1>15 DEF MergeLoad, Undoing
  <2>3. situation.attached => alert.status # "NONE"
    BY DEF HandlerInv, Stored
  <2>4. InOrder(m)' /\ \A q \in Procs : q # m => proc'[q] = proc[q]
    <3>1. CASE Ends(m)
      BY <3>1, EndsInOrder
    <3>2. ASSUME NEW pc \in {"absorb", "absorb bare"}, Goes(m, pc),
                 pc = "absorb" => situation.attached
          PROVE  InOrder(m)' /\ \A q \in Procs : q # m => proc'[q] = proc[q]
      <4>1. proc[m].pc = "merge" /\ (pc = "absorb" => alert'.status # "NONE")
        BY <1>15, <2>1, <2>3, <3>2 DEF MergeLoad
      <4>3. m \in Procs
        OBVIOUS
      <4>4. TypeInv /\ HandlerInv
        OBVIOUS
      <4> HIDE DEF DInv, Procs, Approvers
      <4>2. QED
        BY <3>2, <4>1, <4>3, <4>4, AbsorbsInOrder
    <3>3. \/ Ends(m)
          \/ \E pc \in {"absorb", "absorb bare"} :
                Goes(m, pc) /\ (pc = "absorb" => situation.attached)
      BY <1>15 DEF MergeLoad
    <3>4. QED
      BY <3>1, <3>2, <3>3
  <2>5. HandlerInv'
    BY <1>0, <2>1, <2>2, <2>4, DecidesAlone, DeciderStep
  <2>6. QED
    BY <2>1, <2>5, RunUntouched DEF ActionsOf
<1>14. QED
  BY <1>1, <1>2, <1>3, <1>4, <1>5, <1>6, <1>7, <1>8, <1>9, <1>10, <1>11, <1>12, <1>13, <1>15
     DEF Analyse, AnalysisStep, ProposalStep, Merge

\* A step of nobody's handler, on a decision whose status no handler relies on.
LEMMA HandlersStand ==
    ASSUME HandlerInv, UNCHANGED proc, Stored', alert.status # "NONE" => alert'.status # "NONE",
           ActionsOf(plan') = ActionsOf(plan),
           decision'.status = decision.status \/ decision.status \notin {"NONE", "PENDING"}
    PROVE  HandlerInv'
<1>1. Alone'
  BY DEF HandlerInv, Alone, Deciding
<1>2. ASSUME NEW q \in Procs PROVE InOrder(q)'
  <2>1. InOrder(q)
    BY DEF HandlerInv
  <2>2. CASE decision'.status = decision.status
    BY <2>1, <2>2 DEF InOrder, Pending, WithinPolicy
  <2>3. CASE decision.status \notin {"NONE", "PENDING"}
    BY <2>1, <2>3 DEF InOrder, Pending, WithinPolicy, ForPending
  <2>4. QED
    BY <2>2, <2>3
<1>3. QED
  BY <1>1, <1>2 DEF HandlerInv

\* What there is to show when p's is the only execution.
LEMMA OneRuns ==
    ASSUME NEW p \in Approvers, \A q \in Approvers : q # p => run'[q].pc = "none",
           decision'.status \in Carried,
           run'[p].pc = "start" => decision'.status = "APPROVED",
           run'[p].pc \in {"load", "next", "deliver", "record", "settle"}
               => decision'.status = "EXECUTING",
           run'[p].pc \in {"next", "deliver", "record", "settle"} => run'[p].plan = approved',
           ActionsOf(plan') = approved',
           decision'.machine => WithinPolicy(approved')
    PROVE  RunInv'
<1>1. Running'
  BY DEF Running, Started
<1>2. OneExecution' /\ SendsWhatWasApproved'
  BY DEF OneExecution, SendsWhatWasApproved, Started
<1>3. Kept' /\ (decision'.machine => WithinPolicy(approved)')
  BY DEF Kept, WithinPolicy
<1>4. QED
  BY <1>1, <1>2, <1>3 DEF RunInv

\* An approval starts the only execution, of the plan as it is.
LEMMA ApprovalStep ==
    ASSUME Tier2Assumption, DInv, NEW p \in Approvers, ApproveWrite(p)
    PROVE  HandlerInv' /\ RunInv'
<1> USE DEF DInv, Procs, Approvers
<1>1. /\ proc[p].pc \notin {"idle"} \cup Undoing /\ decision.status = "PENDING"
      /\ p \in Analysers => WithinPolicy(ActionsOf(plan))
      /\ alert.status # "NONE"
  BY DEF ApproveWrite, HandlerInv, InOrder, Undoing, ForPending, Pending, Stored
<1>2. Stored'
  BY <1>1 DEF ApproveWrite, HandlerInv, Stored
<1>3. HandlerInv'
  BY <1>1, <1>2, EndsInOrder, DecidesAlone, DeciderStep DEF ApproveWrite
<1>4. \A q \in Approvers : run[q].pc = "none"
  BY <1>1 DEF RunInv, Running, Started, Carried
<1>5. /\ run'[p].pc = "start"
      /\ \A q \in Approvers : q # p => run'[q].pc = "none"
  BY <1>4 DEF ApproveWrite, TypeInv, RunType, NoRun
<1>6. decision'.status = "APPROVED" /\ (decision'.machine => p \in Analysers)
  BY DEF ApproveWrite, TypeInv, DataType, Decision
<1>7. approved' = ActionsOf(plan) /\ ActionsOf(plan') = ActionsOf(plan)
  BY QueuedRows DEF ApproveWrite, TypeInv, DataType
<1>8. RunInv'
  BY <1>1, <1>5, <1>6, <1>7, OneRuns DEF Carried, WithinPolicy
<1>9. QED
  BY <1>3, <1>8

\* Every step of an execution keeps the invariant.
LEMMA ExecutionStep ==
    ASSUME Tier2Assumption, DInv, NEW p \in Approvers, RunStep(p)
    PROVE  HandlerInv' /\ RunInv' /\ ActionsOf(plan') = ActionsOf(plan)
<1> USE DEF DInv, TypeInv
<1>1. Started(p)
  BY DEF RunStep, RunStart, RunLoad, RunBlock, RunDispatch, RunDeliver, RunRecord,
         RunMitigate, RunSettle, Remaining, Finished, Started
<1>2. \A q \in Approvers : q # p => run[q].pc = "none"
  BY <1>1 DEF RunInv, OneExecution, Started
<1>3. /\ decision.status \in Carried /\ ActionsOf(plan) = approved
      /\ run[p].pc = "start" => decision.status = "APPROVED"
      /\ run[p].pc \in {"load", "next", "deliver", "record", "settle"}
             => decision.status = "EXECUTING"
      /\ run[p].pc \in {"next", "deliver", "record", "settle"} => run[p].plan = approved
      /\ decision.machine => WithinPolicy(approved)
  BY <1>1 DEF RunInv, Running, Kept, SendsWhatWasApproved
<1>4. alert.status # "NONE" /\ record \in Proposals
  BY <1>3 DEF HandlerInv, Stored, Carried
<1>5. run[p] \in Execution
  BY DEF RunType
<1>6. UNCHANGED <<proc, record, approved>>
  BY DEF RunStep, RunStart, RunLoad, RunBlock, RunDispatch, RunDeliver, RunRecord,
         RunMitigate, RunSettle, data, history
<1>7. ActionsOf(plan') = ActionsOf(plan)
  <2>1. NextRow(p) \in Nat /\ UndoOf(NextRow(p)) \in UndoStatus
    BY NextRowType
  <2>2. CASE RunBlock(p)
    BY <2>1, <2>2, SetRowType DEF RunBlock, RowStatus, Receipts
  <2>3. CASE RunDispatch(p)
    BY <2>1, <2>3, SetRowType DEF RunDispatch, RowStatus
  <2>4. CASE RunRecord(p)
    <3> DEFINE undo == IF run[p].receipt = "DONE" /\ NextAction(p) \in Reversible
                       THEN "AVAILABLE" ELSE ""
    <3>1. undo \in UndoStatus
      BY DEF UndoStatus
    <3>2. SetRow(NextRow(p), run[p].receipt, undo)
      BY <2>4 DEF RunRecord
    <3>3. run[p].receipt \in RowStatus
      BY <2>4 DEF RunRecord, RunType, RowStatus
    <3> HIDE DEF undo
    <3>4. QED
      BY <2>1, <3>1, <3>2, <3>3, SetRowType
  <2>5. CASE UNCHANGED plan
    BY <2>5 DEF ActionsOf
  <2>6. QED
    BY <2>2, <2>3, <2>4, <2>5
       DEF RunStep, RunStart, RunLoad, RunDeliver, RunMitigate, RunSettle, data
<1>8. alert'.status # "NONE"
  <2>1. CASE RunMitigate(p)
    BY <2>1 DEF RunMitigate
  <2>2. CASE UNCHANGED alert
    BY <1>4, <2>2
  <2>3. QED
    BY <2>1, <2>2 DEF RunStep, RunStart, RunLoad, RunBlock, RunDispatch, RunDeliver, RunRecord,
                      RunSettle, data
<1>9. HandlerInv'
  <2>1. Stored'
    BY <1>4, <1>6, <1>8 DEF Stored
  <2>2. decision.status \notin {"NONE", "PENDING"}
    BY <1>3 DEF Carried
  <2>3. QED
    BY <1>6, <1>7, <1>8, <2>1, <2>2, HandlersStand
<1>10. \A q \in Approvers : q # p => run'[q].pc = "none"
  <2>1. \A q \in Approvers : q # p => run'[q] = run[q]
    BY DEF RunStep, RunStart, RunLoad, RunBlock, RunDispatch, RunDeliver, RunRecord,
           RunMitigate, RunSettle, RunType
  <2>2. QED
    BY <1>2, <2>1
<1>11. decision'.machine = decision.machine
  BY DEF RunStep, RunStart, RunLoad, RunBlock, RunDispatch, RunDeliver, RunRecord,
         RunMitigate, RunSettle, DataType, Decision, data
<1>12. RunInv'
  <2>1. ActionsOf(plan') = approved' /\ (decision'.machine => WithinPolicy(approved'))
    BY <1>3, <1>6, <1>7, <1>11 DEF WithinPolicy
  <2>2. CASE RunStart(p)
    <3>1. run'[p].pc = "load" /\ decision'.status = "EXECUTING"
      BY <1>5, <2>2 DEF RunStart, RunType, Execution, DataType, Decision
    <3>2. QED
      BY <1>10, <2>1, <3>1, OneRuns DEF Carried
  <2>3. CASE RunLoad(p)
    <3>1. /\ run'[p].pc = "next" /\ run'[p].plan = ActionsOf(plan)
          /\ decision'.status = "EXECUTING"
      BY <1>3, <1>5, <2>3 DEF RunLoad, RunType, Execution, data
    <3>2. QED
      BY <1>3, <1>6, <1>10, <2>1, <3>1, OneRuns DEF Carried
  <2>4. CASE RunBlock(p) \/ RunDispatch(p) \/ RunDeliver(p) \/ RunRecord(p) \/ RunMitigate(p)
    <3>1. run[p].pc \in {"next", "deliver", "record"} /\ UNCHANGED decision
      BY <2>4 DEF RunBlock, RunDispatch, RunDeliver, RunRecord, RunMitigate,
                  Remaining, Finished, data
    <3>2. /\ run'[p].pc \in {"next", "deliver", "record", "settle"}
          /\ run'[p].plan = run[p].plan
      <4>1. CASE RunBlock(p)
        BY <1>5, <3>1, <4>1 DEF RunBlock, RunType, Execution
      <4>2. CASE RunDispatch(p)
        BY <1>5, <4>2 DEF RunDispatch, RunType, Execution
      <4>3. CASE RunDeliver(p)
        <5>1. PICK receipt \in Outcomes, n \in {0, 1} :
                run' = [run EXCEPT ![p].pc = "record", ![p].receipt = receipt,
                                   ![p].acked = @ + n]
          BY <4>3 DEF RunDeliver
        <5>2. QED
          BY <1>5, <5>1 DEF RunType, Execution
      <4>4. CASE RunRecord(p)
        <5> DEFINE simulated == run[p].simulated \/ run[p].receipt = "SIMULATED"
                   failed == run[p].failed \/ run[p].receipt \in {"FAILED", "BLOCKED"}
        <5>1. run' = [run EXCEPT ![p] = [run[p] EXCEPT !.pc = "next", !.at = @ + 1,
                                            !.simulated = simulated, !.failed = failed]]
          BY <4>4 DEF RunRecord
        <5> HIDE DEF simulated, failed
        <5>2. QED
          BY <1>5, <5>1 DEF RunType, Execution
      <4>5. CASE RunMitigate(p)
        BY <1>5, <4>5 DEF RunMitigate, RunType, Execution
      <4>6. QED
        BY <2>4, <4>1, <4>2, <4>3, <4>4, <4>5
    <3>3. QED
      BY <1>3, <1>6, <1>10, <2>1, <3>1, <3>2, OneRuns DEF Carried
  <2>5. CASE RunSettle(p)
    <3>1. run'[p].pc = "over" /\ decision'.status = Verdict(p)
      BY <1>5, <2>5 DEF RunSettle, RunType, Execution, DataType, Decision
    <3>2. Verdict(p) \in Carried
      BY DEF Verdict, Carried
    <3>3. QED
      BY <1>10, <2>1, <3>1, <3>2, OneRuns
  <2>6. QED
    BY <2>2, <2>3, <2>4, <2>5 DEF RunStep
<1>13. QED
  BY <1>7, <1>9, <1>12

\* Every step of a rollback keeps the invariant.
LEMMA RollbackStepInv ==
    ASSUME DInv, NEW a \in Analysts,
           (\E i \in 1..Len(plan) : RollbackRead(a, i)) \/ RollbackStep(a)
    PROVE  HandlerInv' /\ RunInv' /\ ActionsOf(plan') = ActionsOf(plan)
<1> USE DEF DInv, TypeInv, Procs
<1>1. UNCHANGED <<decision, run, approved, record, situation>>
  BY DEF RollbackRead, RollbackStep, RollbackClaim, RollbackDeliver, RollbackRecord,
         ReopenAlert, data, history
<1>2. ActionsOf(plan') = ActionsOf(plan)
  <2>1. CASE UNCHANGED plan
    BY <2>1 DEF ActionsOf
  <2>2. CASE RollbackClaim(a) /\ Claimable(proc[a].row)
    <3>1. proc[a].row - base \in 1..Len(plan) /\ "EXECUTING" \in UndoStatus
      BY <2>2 DEF Claimable, Holds, UndoStatus
    <3>2. plan' = [plan EXCEPT ![proc[a].row - base].undo = "EXECUTING"]
      BY <2>2 DEF RollbackClaim
    <3>3. QED
      BY <3>1, <3>2, MarkedRow
  <2>3. CASE RollbackRecord(a) /\ Holds(proc[a].row)
    <3>1. proc[a].row - base \in 1..Len(plan) /\ proc[a].receipt \in UndoStatus
      BY <2>3 DEF RollbackRecord, Holds, UndoStatus, ProcType
    <3>2. plan' = [plan EXCEPT ![proc[a].row - base].undo = proc[a].receipt]
      BY <2>3 DEF RollbackRecord
    <3>3. QED
      BY <3>1, <3>2, MarkedRow
  <2>4. QED
    BY <2>1, <2>2, <2>3 DEF RollbackRead, RollbackStep, RollbackClaim, RollbackDeliver,
                            RollbackRecord, ReopenAlert, data
<1>3. InOrder(a) /\ Stored
  BY DEF HandlerInv
<1>4. alert.status # "NONE"
  <2>1. ASSUME NEW i \in 1..Len(plan) PROVE plan # <<>>
    OBVIOUS
  <2>2. CASE \E i \in 1..Len(plan) : RollbackRead(a, i)
    BY <1>3, <2>1, <2>2 DEF Stored
  <2>3. CASE RollbackStep(a)
    BY <1>3, <2>3 DEF RollbackStep, RollbackClaim, RollbackDeliver, RollbackRecord,
                      ReopenAlert, InOrder, Undoing
  <2>4. QED
    BY <2>2, <2>3
<1>5. alert'.status # "NONE"
  <2>1. CASE ReopenAlert(a)
    BY <2>1 DEF ReopenAlert
  <2>2. CASE UNCHANGED alert
    BY <1>4, <2>2
  <2>3. QED
    BY <2>1, <2>2 DEF RollbackRead, RollbackStep, RollbackClaim, RollbackDeliver,
                      RollbackRecord, data
<1>6. /\ \A q \in Procs : q # a => proc'[q] = proc[q]
      /\ \/ proc'[a].doing = "rollback" /\ proc'[a].pc \in Undoing
         \/ proc'[a].doing = "nothing" /\ proc'[a].pc = "idle"
  <2>1. ASSUME NEW i \in 1..Len(plan), RollbackRead(a, i)
        PROVE  /\ \A q \in Procs : q # a => proc'[q] = proc[q]
               /\ proc'[a].doing = "rollback" /\ proc'[a].pc \in Undoing
    BY <2>1 DEF RollbackRead, ProcType, Undoing
  <2>2. CASE RollbackStep(a)
    <3>1. proc[a].doing = "rollback"
      BY <1>3, <2>2 DEF RollbackStep, RollbackClaim, RollbackDeliver, RollbackRecord,
                        ReopenAlert, InOrder, Undoing
    <3>2. CASE Ends(a)
      BY <3>2 DEF Ends, ProcType, Idle
    <3>3. ASSUME NEW pc \in Undoing, Goes(a, pc)
          PROVE  /\ \A q \in Procs : q # a => proc'[q] = proc[q]
                 /\ proc'[a].doing = "rollback" /\ proc'[a].pc \in Undoing
      BY <3>1, <3>3 DEF Goes, ProcType, Request
    <3>4. CASE RollbackDeliver(a)
      <4>1. PICK receipt \in Outcomes :
              proc' = [proc EXCEPT ![a].pc = "undone", ![a].receipt = receipt]
        BY <3>4 DEF RollbackDeliver
      <4>2. QED
        BY <3>1, <4>1 DEF ProcType, Request, Undoing
    <3>5. QED
      BY <2>2, <3>2, <3>3, <3>4
         DEF RollbackStep, RollbackClaim, RollbackRecord, ReopenAlert, Undoing
  <2>3. QED
    BY <2>1, <2>2
<1>7. InOrder(a)'
  BY <1>5, <1>6 DEF InOrder, Undoing, ForPending, ForProposal
<1>8. ASSUME NEW q \in Procs, q # a PROVE InOrder(q)'
  <2>1. InOrder(q) /\ proc'[q] = proc[q]
    BY <1>6, <1>8 DEF HandlerInv
  <2>2. QED
    BY <1>1, <1>2, <1>5, <2>1 DEF InOrder, Pending, WithinPolicy
<1>9. Alone'
  <2>1. ~Deciding(a)'
    BY <1>6 DEF Deciding
  <2>2. QED
    BY <1>6, <2>1 DEF HandlerInv, Alone, Deciding
<1>10. Stored'
  BY <1>1, <1>3, <1>4, <1>5 DEF Stored
<1>11. QED
  BY <1>1, <1>2, <1>7, <1>8, <1>9, <1>10, RunUntouched DEF HandlerInv

\* Every step keeps the invariant.
LEMMA DStep ==
    ASSUME DecisionsDoNotOverlap
    PROVE  Tier2Assumption /\ DInv /\ [Next]_vars => DInv'
<1> SUFFICES ASSUME Tier2Assumption, DInv, [Next]_vars PROVE DInv'
  OBVIOUS
<1>1. TypeInv'
  BY TypeStep DEF DInv
<1>2. CASE UNCHANGED vars
  <2>1. UNCHANGED <<decision, plan, alert, record, situation, proc, run, approved>>
    BY <1>2 DEF vars, data, history
  <2>2. ActionsOf(plan') = ActionsOf(plan)
    BY <2>1 DEF ActionsOf
  <2>3. HandlerInv'
    BY <2>1, <2>2, HandlersStand DEF DInv, HandlerInv, Stored
  <2>4. RunInv'
    BY <2>1, <2>2, RunUntouched DEF DInv
  <2>5. QED
    BY <1>1, <2>3, <2>4 DEF DInv
<1>3. CASE MarkContained
  <2>1. UNCHANGED <<decision, plan, record, situation, proc, run, approved>>
    BY <1>3 DEF MarkContained, history
  <2>2. ActionsOf(plan') = ActionsOf(plan)
    BY <2>1 DEF ActionsOf
  <2>3. Stored' /\ alert'.status # "NONE"
    BY <1>3, <2>1 DEF MarkContained, DInv, HandlerInv, Stored
  <2>4. HandlerInv'
    BY <2>1, <2>2, <2>3, HandlersStand DEF DInv
  <2>5. RunInv'
    BY <2>1, <2>2, RunUntouched DEF DInv
  <2>6. QED
    BY <1>1, <2>4, <2>5 DEF DInv
<1>4. CASE Crash
  <2>1. UNCHANGED <<decision, plan, alert, record, situation, approved>>
    BY <1>4 DEF Crash, data
  <2>2. ActionsOf(plan') = ActionsOf(plan)
    BY <2>1 DEF ActionsOf
  <2>3. \A p \in Procs : proc'[p].pc = "idle" /\ proc'[p].doing = "nothing"
    BY <1>4 DEF Crash, Idle
  <2>4. HandlerInv'
    <3>1. Alone'
      BY <2>3 DEF Alone, Deciding
    <3>2. \A p \in Procs : InOrder(p)'
      BY <2>3 DEF InOrder, Undoing, ForPending, ForProposal
    <3>3. Stored'
      BY <2>1 DEF DInv, HandlerInv, Stored
    <3>4. QED
      BY <3>1, <3>2, <3>3 DEF HandlerInv
  <2>5. \A p \in Approvers : /\ run'[p].pc \in {"none", "over", "lost"}
                             /\ run'[p].pc # "none" => run[p].pc # "none"
    BY <1>4 DEF Crash, Started, DInv, TypeInv, RunType, Execution
  <2>6. RunInv'
    <3>1. Running'
      BY <2>1, <2>5 DEF DInv, RunInv, Running, Started
    <3>2. OneExecution' /\ SendsWhatWasApproved'
      BY <2>5 DEF DInv, RunInv, OneExecution, SendsWhatWasApproved, Started
    <3>3. Kept' /\ (decision.machine => WithinPolicy(approved))'
      BY <2>1, <2>2 DEF DInv, RunInv, Kept, WithinPolicy
    <3>4. QED
      BY <3>1, <3>2, <3>3 DEF RunInv
  <2>7. QED
    BY <1>1, <2>4, <2>6 DEF DInv
<1>5. CASE Next /\ ~MarkContained /\ ~Crash
  BY <1>1, <1>5, DecidingStep, ApprovalStep, ExecutionStep, RollbackStepInv
     DEF DInv, Next, Analyst, Approvers
<1>6. QED
  BY <1>2, <1>3, <1>4, <1>5

\* The invariant holds throughout, when decisions do not overlap.
THEOREM DInvCorrect == ASSUME DecisionsDoNotOverlap PROVE Spec => []DInv
<1>1. Tier2Assumption /\ DInv /\ [Next]_vars => DInv'
  BY DStep
<1>2. QED
  BY <1>1, DInit, Tier2Assumption, PTL DEF Spec

\* A decision's plan is executed at most once, however it was approved,
\* whatever dies and whatever is rolled back meanwhile.
THEOREM ExecutedOnce == ASSUME DecisionsDoNotOverlap PROVE Spec => []OneExecution
<1>1. DInv => OneExecution
  BY DEF DInv, RunInv
<1>2. QED
  BY <1>1, DInvCorrect, PTL

\* The snapshot an execution sends from is the plan as it was approved.
THEOREM SendsOnlyTheApproved == ASSUME DecisionsDoNotOverlap PROVE Spec => []SendsWhatWasApproved
<1>1. DInv => SendsWhatWasApproved
  BY DEF DInv, RunInv
<1>2. QED
  BY <1>1, DInvCorrect, PTL

\* What the autopilot approved lies within the policy for it, action by
\* action, however the plan was rebuilt before.
THEOREM MachineStaysWithinPolicy == ASSUME DecisionsDoNotOverlap PROVE Spec => []AutopilotWithinPolicy
<1>1. DInv => AutopilotWithinPolicy
  BY DEF DInv, RunInv, WithinPolicy, AutopilotWithinPolicy
<1>2. QED
  BY <1>1, DInvCorrect, PTL

-----------------------------------------------------------------------------
(* The handlers and the executions implement the life cycle *)

LEMMA LifecycleInit == Init => Lifecycle!Init
<1> SUFFICES ASSUME Init PROVE Lifecycle!Init
  OBVIOUS
<1>1. ActionsOf(plan) = <<>>
  BY DEF Init, ActionsOf
<1>2. QED
  BY <1>1 DEF Init, Lifecycle!Init

LEMMA LifecycleStep ==
    ASSUME Tier2Assumption, DInv, [Next]_vars
    PROVE  [Lifecycle!Next]_(Lifecycle!lifecycle)
<1> USE DEF DInv, Procs, Approvers
<1>0. \A p \in Procs : InOrder(p)
  BY DEF HandlerInv
<1>1. ASSUME decision'.status = decision.status, ActionsOf(plan') = ActionsOf(plan)
      PROVE  UNCHANGED Lifecycle!lifecycle
  BY <1>1 DEF Lifecycle!lifecycle
<1>2. ASSUME UNCHANGED <<decision, plan>> PROVE UNCHANGED Lifecycle!lifecycle
  BY <1>1, <1>2 DEF ActionsOf
<1>3. \A s \in Proposals \cup Corrections : s \in Seq(Actions)
  <2>1. ASSUME NEW s \in Corrections PROVE s \in Seq(Actions)
    <3>1. s \in Seq(Permitted) /\ Permitted \subseteq Actions
      BY DEF Tier2Assumption
    <3>2. s \in [1..Len(s) -> Actions] /\ Len(s) \in Nat
      BY <3>1, LenProperties
    <3>3. QED
      BY <3>2, SeqDef
  <2>2. QED
    BY <2>1 DEF Tier2Assumption
<1>4. ASSUME NEW s \in Proposals \cup Corrections, Replan(s)
      PROVE  ActionsOf(plan') \in Proposals \cup Corrections
  BY <1>3, <1>4, ReplanType DEF TypeInv
<1>5. ASSUME NEW x \in Analysers, RebuildWrite(x) PROVE Lifecycle!Next
  <2>1. decision.status = "PENDING" /\ proc[x].plan \in Proposals
    BY <1>0, <1>5 DEF RebuildWrite, InOrder, ForPending, ForProposal, Pending
  <2>2. decision'.status = "PENDING"
    BY <1>5, <2>1 DEF RebuildWrite, TypeInv, DataType, Decision
  <2>3. ActionsOf(plan') \in Proposals \cup Corrections
    BY <1>4, <1>5, <2>1 DEF RebuildWrite
  <2>4. QED
    BY <2>1, <2>2, <2>3 DEF Lifecycle!Next, Lifecycle!Revise
<1>6. ASSUME NEW p \in Approvers, CreateWrite(p) PROVE Lifecycle!Next
  <2>1. decision.status = "NONE" /\ proc[p].plan \in Proposals
    BY <1>0, <1>6 DEF CreateWrite, InOrder, ForProposal
  <2>2. decision'.status = "PENDING"
    BY <1>6, <2>1 DEF CreateWrite, TypeInv, DataType, Decision
  <2>3. ActionsOf(plan') \in Proposals \cup Corrections
    BY <1>4, <1>6, <2>1 DEF CreateWrite
  <2>4. QED
    BY <2>1, <2>2, <2>3 DEF Lifecycle!Next, Lifecycle!Propose
<1>7. ASSUME NEW p \in Approvers, ApproveWrite(p) PROVE Lifecycle!Next
  <2>1. decision.status = "PENDING"
    BY <1>0, <1>7 DEF ApproveWrite, InOrder, ForPending, Pending
  <2>2. decision'.status = "APPROVED"
    BY <1>7 DEF ApproveWrite, TypeInv, DataType, Decision
  <2>3. ActionsOf(plan') = ActionsOf(plan)
    BY <1>7, QueuedRows DEF ApproveWrite, TypeInv, DataType
  <2>4. QED
    BY <2>1, <2>2, <2>3 DEF Lifecycle!Next, Lifecycle!Approve, Lifecycle!Move
<1>8. ASSUME NEW a \in Analysts, RejectWrite(a) PROVE Lifecycle!Next
  <2>1. decision.status = "PENDING"
    BY <1>0, <1>8 DEF RejectWrite, InOrder, ForPending, Pending
  <2>2. decision'.status = "REJECTED" /\ ActionsOf(plan') = ActionsOf(plan)
    BY <1>8 DEF RejectWrite, TypeInv, DataType, Decision, ActionsOf
  <2>3. QED
    BY <2>1, <2>2 DEF Lifecycle!Next, Lifecycle!Reject, Lifecycle!Move
<1>9. ASSUME NEW a \in Analysts, EditWrite(a)
      PROVE  Lifecycle!Next \/ UNCHANGED Lifecycle!lifecycle
  <2>1. decision.status = "PENDING"
    BY <1>0, <1>9 DEF EditWrite, InOrder, ForPending, Pending
  <2>2. decision'.status = "PENDING"
    BY <1>9, <2>1 DEF EditWrite, TypeInv, DataType, Decision
  <2>3. CASE proc[a].pc = "replan"
    <3>1. proc[a].plan \in Corrections
      BY <1>0, <2>3 DEF InOrder
    <3>2. ActionsOf(plan') \in Proposals \cup Corrections
      BY <1>4, <1>9, <2>3, <3>1 DEF EditWrite
    <3>3. QED
      BY <2>1, <2>2, <3>2 DEF Lifecycle!Next, Lifecycle!Revise
  <2>4. CASE proc[a].pc # "replan"
    BY <1>1, <1>9, <2>1, <2>2, <2>4 DEF EditWrite, ActionsOf
  <2>5. QED
    BY <2>3, <2>4
<1>10. ASSUME NEW m \in Mergers, MergeWrite(m)
       PROVE  Lifecycle!Next \/ UNCHANGED Lifecycle!lifecycle
  <2>1. CASE proc[m].pc = "absorb" /\ Pending
    <3>1. decision.status = "PENDING" /\ decision'.status = "SUPERSEDED"
      BY <1>10, <2>1 DEF MergeWrite, Pending, TypeInv, DataType, Decision
    <3>2. ActionsOf(plan') = ActionsOf(plan)
      BY <1>10 DEF MergeWrite, ActionsOf
    <3>3. QED
      BY <3>1, <3>2 DEF Lifecycle!Next, Lifecycle!Supersede, Lifecycle!Move
  <2>2. CASE ~(proc[m].pc = "absorb" /\ Pending)
    BY <1>2, <1>10, <2>2 DEF MergeWrite
  <2>3. QED
    BY <2>1, <2>2
<1>11. ASSUME NEW p \in Approvers, RunStep(p)
       PROVE  Lifecycle!Next \/ UNCHANGED Lifecycle!lifecycle
  <2>1. ActionsOf(plan') = ActionsOf(plan)
    BY <1>11, ExecutionStep
  <2>2. CASE RunStart(p)
    <3>1. decision.status = "APPROVED" /\ decision'.status = "EXECUTING"
      BY <2>2 DEF RunStart, RunInv, Running, TypeInv, DataType, Decision
    <3>2. QED
      BY <2>1, <3>1 DEF Lifecycle!Next, Lifecycle!Execute, Lifecycle!Move
  <2>3. CASE RunSettle(p)
    <3>1. decision.status = "EXECUTING" /\ decision'.status = Verdict(p)
      BY <2>3 DEF RunSettle, Finished, RunInv, Running, TypeInv, DataType, Decision
    <3>2. Verdict(p) \in {"DONE", "FAILED", "SIMULATED"}
      BY DEF Verdict
    <3>3. QED
      BY <2>1, <3>1, <3>2 DEF Lifecycle!Next, Lifecycle!Settle, Lifecycle!Move
  <2>4. CASE UNCHANGED decision
    BY <1>1, <2>1, <2>4
  <2>5. QED
    BY <1>11, <2>2, <2>3, <2>4
       DEF RunStep, RunLoad, RunBlock, RunDispatch, RunDeliver, RunRecord, RunMitigate, data
<1>12. ASSUME NEW a \in Analysts,
              (\E i \in 1..Len(plan) : RollbackRead(a, i)) \/ RollbackStep(a)
       PROVE  UNCHANGED Lifecycle!lifecycle
  <2>1. ActionsOf(plan') = ActionsOf(plan)
    BY <1>12, RollbackStepInv
  <2>2. UNCHANGED decision
    BY <1>12 DEF RollbackRead, RollbackStep, RollbackClaim, RollbackDeliver,
                 RollbackRecord, ReopenAlert, data
  <2>3. QED
    BY <1>1, <2>1, <2>2
<1>13. CASE UNCHANGED <<decision, plan>>
  BY <1>2, <1>13
<1>14. CASE Next /\ ~UNCHANGED <<decision, plan>>
  <2>1. \/ \E x \in Analysers : RebuildWrite(x)
        \/ \E p \in Approvers : CreateWrite(p) \/ ApproveWrite(p) \/ RunStep(p)
        \/ \E a \in Analysts : RejectWrite(a) \/ EditWrite(a)
        \/ \E a \in Analysts : (\E i \in 1..Len(plan) : RollbackRead(a, i)) \/ RollbackStep(a)
        \/ \E m \in Mergers : MergeWrite(m)
    BY <1>14 DEF Next, Analyse, AnalyseFirst, AnalyseAgain, AnalysisStep, AttachAlert,
        RebuildRead, AutopilotDeclines, AutopilotApproves, Analyst, Ensure, ApproveRead,
        RejectRead, EditRead, ProposalStep, CreateRead, ReadBack, Merge, MergeRead, MergeLoad,
        MarkContained, Crash, data
  <2>2. QED
    BY <1>5, <1>6, <1>7, <1>8, <1>9, <1>10, <1>11, <1>12, <2>1
<1>15. QED
  BY <1>13, <1>14 DEF vars, data

\* The decision, as its handlers and executions move it, is the decision the
\* docstrings promise: revised only while it is pending, carried out once, as
\* approved, and final.
THEOREM ImplementsLifecycle == ASSUME DecisionsDoNotOverlap PROVE Spec => FollowsLifecycle
<1>1. Tier2Assumption /\ DInv /\ [Next]_vars => [Lifecycle!Next]_(Lifecycle!lifecycle)
  BY LifecycleStep
<1>2. QED
  BY <1>1, LifecycleInit, DInvCorrect, Tier2Assumption, PTL DEF Spec, FollowsLifecycle, Lifecycle!Spec

-----------------------------------------------------------------------------
(* What no overlap takes away *)

\* An execution that has nothing against it has counted every action so far;
\* one that is about to mark the alert, or the decision, has counted all.
Counted(p) ==
    /\ run[p].pc \in {"start", "load"} => run[p].at = 1 /\ run[p].acked = 0
    /\ run[p].pc \in {"next", "deliver", "record"} =>
         /\ run[p].at <= Len(run[p].plan) + 1
         /\ ~run[p].failed /\ ~run[p].simulated =>
              run[p].acked = run[p].at - 1
                             + (IF run[p].pc = "record" /\ run[p].receipt = "DONE" THEN 1 ELSE 0)
    /\ run[p].pc \in {"deliver", "record"} => run[p].at <= Len(run[p].plan)
    /\ run[p].pc = "settle" => Clean(p) /\ ~run[p].failed /\ ~run[p].simulated
\* Nobody approves twice: nothing runs before the first approval, and there
\* is no way back to PENDING.
FirstTime ==
    /\ \A p \in Approvers : proc[p].pc = "approve" => run[p].pc = "none"
    /\ decision.status \in {"NONE", "PENDING"} => \A p \in Approvers : run[p].pc = "none"
CountInv == (\A p \in Approvers : Counted(p)) /\ FirstTime /\ DoneIsEarned

LEMMA CountInit == ASSUME Init PROVE CountInv
<1>1. /\ \A p \in Approvers : run[p] = NoRun
      /\ \A p \in Approvers : proc[p].pc = "idle"
      /\ decision.status = "NONE" /\ alert.status = "NONE"
  BY DEF Init, Idle, Approvers, Procs
<1>2. NoRun.pc = "none"
  BY DEF NoRun
<1>3. \A p \in Approvers : Counted(p)
  BY <1>1, <1>2 DEF Counted
<1>4. FirstTime /\ DoneIsEarned
  BY <1>1, <1>2 DEF FirstTime, DoneIsEarned
<1>5. QED
  BY <1>3, <1>4 DEF CountInv

\* A step beside the executions: it settles nothing as DONE, contains nothing
\* unless by hand, and approves only what is pending.
OnlyPending == \A p \in Approvers : proc'[p].pc = "approve" => proc[p].pc = "approve" \/ Pending
Beside ==
    /\ run' = run
    /\ decision'.status # decision.status =>
         decision'.status # "DONE" /\ (decision'.status = "PENDING" => decision.status = "NONE")
    /\ decision'.status = "NONE" => decision.status = "NONE"
    /\ alert' = alert \/ alert'.byHand \/ alert'.status # "CONTAINED"
    /\ OnlyPending

LEMMA BesideCounts == CountInv /\ Beside => CountInv'
<1> SUFFICES ASSUME CountInv, Beside PROVE CountInv'
  OBVIOUS
<1>1. \A p \in Approvers : Counted(p)'
  BY DEF CountInv, Beside, Counted, Clean
<1>2. FirstTime'
  BY DEF CountInv, Beside, OnlyPending, FirstTime, Pending
<1>3. DoneIsEarned'
  BY DEF CountInv, Beside, DoneIsEarned, Clean
<1>4. QED
  BY <1>1, <1>2, <1>3 DEF CountInv

\* How handlers move, as far as approvals go.
LEMMA NewlyApproving ==
    ASSUME ProcType, NEW p \in Procs
    PROVE  /\ \A pc : Goes(p, pc) /\ (pc = "approve" => Pending) => OnlyPending
           /\ Ends(p) => OnlyPending
           /\ Weighs(p) => OnlyPending
           /\ \A kind, pc, s : Starts(p, kind, pc, s) /\ (pc = "approve" => Pending) => OnlyPending
           /\ proc' = proc => OnlyPending
<1>0. proc[p] \in Request /\ DOMAIN proc = Procs
  BY DEF ProcType
<1>1. ASSUME NEW new, proc' = [proc EXCEPT ![p] = new], new.pc = "approve" => Pending
      PROVE  OnlyPending
  BY <1>0, <1>1 DEF OnlyPending, Approvers, Procs
<1>2. ASSUME NEW pc, Goes(p, pc), pc = "approve" => Pending PROVE OnlyPending
  <2> DEFINE new == [proc[p] EXCEPT !.pc = pc]
  <2>1. new.pc = pc /\ proc' = [proc EXCEPT ![p] = new]
    BY <1>0, <1>2 DEF Goes, Request
  <2> HIDE DEF new
  <2>2. QED
    BY <1>1, <1>2, <2>1
<1>3. ASSUME Ends(p) PROVE OnlyPending
  <2>1. Idle.pc # "approve"
    BY DEF Idle
  <2>2. QED
    BY <1>1, <1>3, <2>1 DEF Ends
<1>4. ASSUME Weighs(p) PROVE OnlyPending
  BY <1>2, <1>3, <1>4 DEF Weighs
<1>5. ASSUME NEW kind, NEW pc, NEW s, Starts(p, kind, pc, s), pc = "approve" => Pending
      PROVE  OnlyPending
  <2> DEFINE new == [Idle EXCEPT !.doing = kind, !.pc = pc, !.plan = s]
  <2>1. new.pc = pc /\ proc' = [proc EXCEPT ![p] = new]
    BY <1>5 DEF Starts, Idle
  <2> HIDE DEF new
  <2>2. QED
    BY <1>1, <1>5, <2>1
<1>6. ASSUME proc' = proc PROVE OnlyPending
  BY <1>6 DEF OnlyPending
<1>7. QED
  BY <1>2, <1>3, <1>4, <1>5, <1>6

LEMMA StepsBeside ==
    ASSUME TypeInv, NEW p \in Procs,
           \/ \E new \in Proposals : AnalyseFirst(p, new) \/ AnalyseAgain(p, new)
           \/ AnalysisStep(p) \/ Ensure(p) \/ ProposalStep(p)
           \/ ApproveRead(p) \/ RejectRead(p) \/ RejectWrite(p) \/ EditRead(p) \/ EditWrite(p)
           \/ \E i \in 1..Len(plan) : RollbackRead(p, i)
           \/ RollbackStep(p) \/ Merge(p)
    PROVE  Beside
<1>0. ProcType /\ decision \in Decision
  BY DEF TypeInv, DataType
<1>1. ASSUME NEW new \in Proposals, AnalyseFirst(p, new) PROVE Beside
  <2>1. OnlyPending
    BY <1>0, <1>1, NewlyApproving DEF AnalyseFirst
  <2>2. QED
    BY <1>1, <2>1 DEF AnalyseFirst, Beside
<1>2. ASSUME NEW new \in Proposals, AnalyseAgain(p, new) PROVE Beside
  <2>1. OnlyPending
    BY <1>0, <1>2, NewlyApproving DEF AnalyseAgain
  <2>2. QED
    BY <1>2, <2>1 DEF AnalyseAgain, Beside
<1>3. CASE AttachAlert(p)
  <2>1. OnlyPending
    BY <1>0, <1>3, NewlyApproving DEF AttachAlert
  <2>2. QED
    BY <1>3, <2>1 DEF AttachAlert, Beside
<1>4. CASE RebuildRead(p) \/ AutopilotDeclines(p) \/ AutopilotApproves(p)
  <2>1. OnlyPending
    BY <1>0, <1>4, NewlyApproving DEF RebuildRead, AutopilotDeclines, AutopilotApproves
  <2>2. QED
    BY <1>4, <2>1 DEF RebuildRead, AutopilotDeclines, AutopilotApproves, Beside, data
<1>5. CASE RebuildWrite(p) \/ RejectWrite(p) \/ EditWrite(p)
  <2>1. OnlyPending
    BY <1>0, <1>5, NewlyApproving DEF RebuildWrite, RejectWrite, EditWrite
  <2>2. /\ decision'.status = decision.status \/ decision'.status = "REJECTED"
        /\ run' = run /\ alert' = alert
    BY <1>0, <1>5 DEF RebuildWrite, RejectWrite, EditWrite, Decision
  <2>3. QED
    BY <2>1, <2>2 DEF Beside
<1>6. CASE Ensure(p) \/ ApproveRead(p) \/ RejectRead(p)
  <2>1. OnlyPending
    BY <1>0, <1>6, NewlyApproving DEF Ensure, ApproveRead, RejectRead
  <2>2. QED
    BY <1>6, <2>1 DEF Ensure, ApproveRead, RejectRead, Beside, data
<1>7. CASE EditRead(p)
  <2>1. OnlyPending
    BY <1>0, <1>7, NewlyApproving DEF EditRead
  <2>2. QED
    BY <1>7, <2>1 DEF EditRead, Beside, data
<1>8. CASE CreateRead(p) \/ ReadBack(p)
  <2>1. OnlyPending
    BY <1>0, <1>8, NewlyApproving DEF CreateRead, ReadBack
  <2>2. QED
    BY <1>8, <2>1 DEF CreateRead, ReadBack, Beside, data
<1>9. CASE CreateWrite(p)
  <2>1. OnlyPending
    BY <1>0, <1>9, NewlyApproving DEF CreateWrite
  <2>2. /\ decision' = decision \/ (decision.status = "NONE" /\ decision'.status = "PENDING")
        /\ run' = run /\ alert' = alert
    BY <1>0, <1>9 DEF CreateWrite, Decision
  <2>3. QED
    BY <2>1, <2>2 DEF Beside
<1>10. ASSUME NEW i \in 1..Len(plan), RollbackRead(p, i) PROVE Beside
  <2> DEFINE new == [doing |-> "rollback", pc |-> "claim", plan |-> <<plan[i].action>>,
                     row |-> base + i, receipt |-> ""]
  <2>1. proc' = [proc EXCEPT ![p] = new] /\ new.pc = "claim"
    BY <1>10 DEF RollbackRead
  <2> HIDE DEF new
  <2>2. OnlyPending
    BY <1>0, <2>1 DEF OnlyPending, ProcType, Approvers, Procs
  <2>3. QED
    BY <1>10, <2>2 DEF RollbackRead, Beside, data
<1>11. CASE RollbackClaim(p) \/ RollbackRecord(p) \/ ReopenAlert(p)
  <2>1. OnlyPending
    BY <1>0, <1>11, NewlyApproving DEF RollbackClaim, RollbackRecord, ReopenAlert
  <2>2. /\ decision' = decision /\ run' = run
        /\ alert' = alert \/ alert'.status = "PENDING"
    BY <1>11 DEF RollbackClaim, RollbackRecord, ReopenAlert
  <2>3. QED
    BY <2>1, <2>2 DEF Beside
<1>12. CASE RollbackDeliver(p)
  <2>1. PICK receipt \in Outcomes : proc' = [proc EXCEPT ![p].pc = "undone", ![p].receipt = receipt]
    BY <1>12 DEF RollbackDeliver
  <2>2. proc[p] \in Request /\ p \in DOMAIN proc
    BY <1>0 DEF ProcType
  <2>3. \A q \in Procs \ {p} : proc'[q] = proc[q]
    BY <1>0, <2>1 DEF ProcType
  <2>4. proc'[p].pc = "undone"
    BY <2>1, <2>2 DEF Request
  <2>5. OnlyPending
    BY <2>3, <2>4 DEF OnlyPending, Approvers, Procs
  <2>6. QED
    BY <1>12, <2>5 DEF RollbackDeliver, Beside, data
<1>13. CASE MergeRead(p) \/ MergeLoad(p)
  <2>1. OnlyPending
    BY <1>0, <1>13, NewlyApproving DEF MergeRead, MergeLoad
  <2>2. QED
    BY <1>13, <2>1 DEF MergeRead, MergeLoad, Beside, data
<1>14. CASE MergeWrite(p)
  <2>1. OnlyPending
    BY <1>0, <1>14, NewlyApproving DEF MergeWrite
  <2>2. /\ run' = run
        /\ decision'.status = decision.status \/ decision'.status = "SUPERSEDED"
        /\ alert' = alert \/ alert'.status = "SUPERSEDED"
    <3>1. CASE proc[p].pc = "absorb"
      <4>1. decision' = decision \/ decision' = [decision EXCEPT !.status = "SUPERSEDED"]
        BY <1>14, <3>1 DEF MergeWrite
      <4>2. alert'.status = "SUPERSEDED" /\ run' = run
        BY <1>14, <3>1 DEF MergeWrite
      <4>3. QED
        BY <1>0, <4>1, <4>2 DEF Decision
    <3>2. CASE proc[p].pc # "absorb"
      BY <1>14, <3>2 DEF MergeWrite
    <3>3. QED
      BY <3>1, <3>2
  <2>3. QED
    BY <2>1, <2>2 DEF Beside
<1>15. QED
  BY <1>1, <1>2, <1>3, <1>4, <1>5, <1>6, <1>7, <1>8, <1>9, <1>10, <1>11, <1>12, <1>13, <1>14
     DEF AnalysisStep, RollbackStep, ProposalStep, Merge

\* An approval starts an execution where there was none.
LEMMA ApprovalCounts ==
    ASSUME TypeInv, CountInv, NEW p \in Approvers, ApproveWrite(p) PROVE CountInv'
<1>0. /\ proc[p].pc = "approve" /\ run[p].pc = "none"
      /\ run'[p] = [NoRun EXCEPT !.pc = "start"] /\ \A q \in Approvers \ {p} : run'[q] = run[q]
      /\ decision'.status = "APPROVED" /\ alert' = alert
      /\ proc'[p].pc # "approve" /\ \A q \in Approvers \ {p} : proc'[q] = proc[q]
  BY DEF ApproveWrite, Ends, Idle, CountInv, FirstTime, TypeInv, RunType, ProcType, DataType,
         Decision, Approvers, Procs
<1>1. Counted(p)'
  BY <1>0 DEF Counted, NoRun
<1>2. \A q \in Approvers \ {p} : Counted(q)'
  BY <1>0 DEF CountInv, Counted, Clean
<1>3. FirstTime'
  BY <1>0 DEF CountInv, FirstTime
<1>4. DoneIsEarned'
  BY <1>0 DEF CountInv, DoneIsEarned, Clean
<1>5. QED
  BY <1>1, <1>2, <1>3, <1>4 DEF CountInv

\* What a step of an execution owes.
LEMMA RunCounts ==
    ASSUME TypeInv, CountInv, NEW p \in Approvers, proc' = proc,
           run[p].pc \notin {"none", "over", "lost"},
           \A q \in Approvers \ {p} : run'[q] = run[q],
           Counted(p)', run'[p].pc # "none",
           run[p].pc = "settle" => run'[p].pc \in {"settle", "over"} /\ Clean(p)',
           decision'.status \notin {"NONE", "PENDING"},
           decision'.status = "DONE" => decision.status = "DONE" \/ (run'[p].pc = "over" /\ Clean(p)'),
           alert' = alert \/ (run'[p].pc = "settle" /\ Clean(p)')
    PROVE  CountInv'
<1>1. \A q \in Approvers \ {p} : Counted(q)' /\ (Clean(q) => Clean(q)')
  BY DEF CountInv, Counted, Clean
<1>2. FirstTime'
  BY DEF CountInv, FirstTime
<1>3. DoneIsEarned'
  BY <1>1 DEF CountInv, DoneIsEarned
<1>4. QED
  BY <1>1, <1>2, <1>3 DEF CountInv

LEMMA ExecutionCounts ==
    ASSUME TypeInv, CountInv, NEW p \in Approvers, RunStep(p) PROVE CountInv'
<1>0. /\ run[p] \in Execution /\ run[p].at \in Nat /\ run[p].acked \in Nat
      /\ Len(run[p].plan) \in Nat /\ decision \in Decision
      /\ run \in [Approvers -> Execution]
      /\ run[p].pc = "record" => run[p].receipt \in Receipts
      /\ Counted(p)
  <2>1. run[p] \in Execution /\ decision \in Decision
    BY DEF TypeInv, RunType, DataType
  <2>2. run[p].plan \in Seq(Actions)
    BY <2>1 DEF Execution
  <2>3. QED
    BY <2>1, <2>2, LenProperties DEF Execution, TypeInv, RunType, CountInv
\* An execution is of a decision that was approved.
<1>1. run[p].pc # "none" => decision.status \notin {"NONE", "PENDING"}
  BY DEF CountInv, FirstTime
<1>2. CASE RunStart(p)
  <2>1. run'[p] = [run[p] EXCEPT !.pc = "load"] /\ decision'.status = "EXECUTING"
    BY <1>0, <1>2 DEF RunStart, Decision
  <2>2. Counted(p)'
    BY <1>0, <1>2, <2>1 DEF RunStart, Counted, Execution
  <2>3. QED
    BY <1>0, <1>2, <2>1, <2>2, RunCounts DEF RunStart, Execution
<1>3. CASE RunLoad(p)
  <2> DEFINE new == [run[p] EXCEPT !.pc = "next", !.plan = ActionsOf(plan), !.base = base]
  <2>1. run'[p] = new /\ decision' = decision /\ alert' = alert
    BY <1>0, <1>3 DEF RunLoad, data
  <2>2. Len(ActionsOf(plan)) \in Nat
    BY ActionsOfType, LenProperties DEF TypeInv, DataType
  <2>3. /\ new.pc = "next" /\ new.at = 1 /\ new.acked = 0 /\ new.plan = ActionsOf(plan)
    BY <1>0, <1>3 DEF RunLoad, Counted, Execution
  <2> HIDE DEF new
  <2>4. Counted(p)'
    BY <2>1, <2>2, <2>3 DEF Counted
  <2>5. QED
    BY <1>0, <1>1, <1>3, <2>1, <2>3, <2>4, RunCounts DEF RunLoad
<1>4. CASE RunBlock(p)
  <2> DEFINE new == [run[p] EXCEPT !.at = @ + 1, !.failed = TRUE]
  <2>1. run'[p] = new /\ decision' = decision /\ alert' = alert
    BY <1>0, <1>4 DEF RunBlock
  <2>2. /\ new.pc = "next" /\ new.at = run[p].at + 1 /\ new.failed /\ new.plan = run[p].plan
        /\ run[p].at <= Len(run[p].plan)
    BY <1>0, <1>4 DEF RunBlock, Remaining, Execution
  <2> HIDE DEF new
  <2>3. Counted(p)'
    BY <1>0, <2>1, <2>2 DEF Counted
  <2>4. QED
    BY <1>0, <1>1, <1>4, <2>1, <2>2, <2>3, RunCounts DEF RunBlock, Remaining
<1>5. CASE RunDispatch(p)
  <2> DEFINE new == [run[p] EXCEPT !.pc = "deliver"]
  <2>1. run'[p] = new /\ decision' = decision /\ alert' = alert
    BY <1>0, <1>5 DEF RunDispatch
  <2>2. /\ new.pc = "deliver" /\ new.at = run[p].at /\ new.plan = run[p].plan
        /\ new.acked = run[p].acked /\ new.failed = run[p].failed
        /\ new.simulated = run[p].simulated
        /\ run[p].pc = "next" /\ run[p].at <= Len(run[p].plan)
    BY <1>0, <1>5 DEF RunDispatch, Remaining, Execution
  <2> HIDE DEF new
  <2>3. Counted(p)'
    BY <1>0, <2>1, <2>2 DEF Counted
  <2>4. QED
    BY <1>0, <1>1, <1>5, <2>1, <2>2, <2>3, RunCounts DEF RunDispatch
<1>6. CASE RunDeliver(p)
  <2>1. PICK receipt \in Outcomes :
          run' = [run EXCEPT ![p].pc = "record", ![p].receipt = receipt,
                             ![p].acked = @ + (IF receipt = "DONE" THEN 1 ELSE 0)]
    BY <1>6 DEF RunDeliver
  <2> DEFINE new == [run[p] EXCEPT !.pc = "record", !.receipt = receipt,
                                   !.acked = @ + (IF receipt = "DONE" THEN 1 ELSE 0)]
  <2>2. run'[p] = new /\ decision' = decision /\ alert' = alert
    BY <1>0, <1>6, <2>1 DEF RunDeliver, data
  <2>3. /\ new.pc = "record" /\ new.at = run[p].at /\ new.plan = run[p].plan
        /\ new.acked = run[p].acked + (IF receipt = "DONE" THEN 1 ELSE 0)
        /\ new.receipt = receipt
        /\ new.failed = run[p].failed /\ new.simulated = run[p].simulated
        /\ run[p].pc = "deliver"
    BY <1>0, <1>6 DEF RunDeliver, Execution
  <2> HIDE DEF new
  <2>4. Counted(p)'
    BY <1>0, <2>2, <2>3 DEF Counted
  <2>5. QED
    BY <1>0, <1>1, <1>6, <2>1, <2>2, <2>3, <2>4, RunCounts DEF RunDeliver
<1>7. CASE RunRecord(p)
  <2> DEFINE new == [run[p] EXCEPT !.pc = "next", !.at = @ + 1,
                                   !.simulated = @ \/ run[p].receipt = "SIMULATED",
                                   !.failed = @ \/ run[p].receipt \in {"FAILED", "BLOCKED"}]
  <2>1. run'[p] = new /\ decision' = decision /\ alert' = alert
    BY <1>0, <1>7 DEF RunRecord
  <2>2. /\ new.pc = "next" /\ new.at = run[p].at + 1 /\ new.plan = run[p].plan
        /\ new.acked = run[p].acked /\ run[p].pc = "record"
    BY <1>0, <1>7 DEF RunRecord, Execution
  <2>3. ~new.failed /\ ~new.simulated
          => ~run[p].failed /\ ~run[p].simulated /\ run[p].receipt = "DONE"
    BY <1>0, <2>2 DEF Execution, Receipts
  <2> HIDE DEF new
  <2>4. Counted(p)'
    BY <1>0, <2>1, <2>2, <2>3 DEF Counted
  <2>5. QED
    BY <1>0, <1>1, <1>7, <2>1, <2>2, <2>4, RunCounts DEF RunRecord
<1>8. CASE RunMitigate(p)
  <2> DEFINE new == [run[p] EXCEPT !.pc = "settle"]
  <2>1. run'[p] = new /\ decision' = decision
    BY <1>0, <1>8 DEF RunMitigate
  <2>2. /\ new.pc = "settle" /\ new.plan = run[p].plan /\ new.acked = run[p].acked
        /\ ~new.failed /\ ~new.simulated
    BY <1>0, <1>8 DEF RunMitigate, Execution
  <2>3. run[p].pc = "next" /\ run[p].acked = Len(run[p].plan)
    BY <1>0, <1>8 DEF RunMitigate, Finished, Counted
  <2> HIDE DEF new
  <2>4. Clean(p)' /\ Counted(p)'
    BY <2>1, <2>2, <2>3 DEF Counted, Clean
  <2>5. QED
    BY <1>0, <1>1, <1>8, <2>1, <2>2, <2>3, <2>4, RunCounts DEF RunMitigate
<1>9. CASE RunSettle(p)
  <2> DEFINE new == [run[p] EXCEPT !.pc = "over"]
  <2>1. run'[p] = new /\ decision'.status = Verdict(p) /\ alert' = alert
    BY <1>0, <1>9 DEF RunSettle, Decision
  <2>2. new.pc = "over" /\ new.plan = run[p].plan /\ new.acked = run[p].acked
    BY <1>0 DEF Execution
  <2>3. /\ run[p].pc \in {"settle", "next"}
        /\ Verdict(p) = "DONE" => run[p].pc = "settle"
        /\ Verdict(p) \in {"DONE", "FAILED", "SIMULATED"}
    BY <1>9 DEF RunSettle, Finished, Verdict
  <2> HIDE DEF new
  <2>4. run[p].pc = "settle" => Clean(p)'
    BY <1>0, <2>1, <2>2 DEF Counted, Clean
  <2>5. Counted(p)'
    BY <2>1, <2>2 DEF Counted
  <2>6. QED
    BY <1>0, <1>9, <2>1, <2>2, <2>3, <2>4, <2>5, RunCounts DEF RunSettle
<1>10. QED
  BY <1>2, <1>3, <1>4, <1>5, <1>6, <1>7, <1>8, <1>9 DEF RunStep

LEMMA CrashCounts == ASSUME TypeInv, CountInv, Crash PROVE CountInv'
<1>1. /\ decision' = decision /\ alert' = alert
      /\ \A p \in Procs : proc'[p].pc = "idle"
  BY DEF Crash, data, Idle
<1>2. ASSUME NEW p \in Approvers
      PROVE  /\ run'[p].pc = IF run[p].pc \in {"none", "over"} THEN run[p].pc ELSE "lost"
             /\ run'[p].plan = run[p].plan /\ run'[p].acked = run[p].acked
  BY DEF Crash, TypeInv, RunType, Execution
<1>3. \A p \in Approvers : Counted(p)'
  BY <1>2 DEF Counted
<1>4. FirstTime'
  BY <1>1, <1>2 DEF CountInv, FirstTime, Approvers, Procs
<1>5. DoneIsEarned'
  BY <1>1, <1>2 DEF CountInv, DoneIsEarned, Clean
<1>6. QED
  BY <1>3, <1>4, <1>5 DEF CountInv

LEMMA CountStep == TypeInv /\ CountInv /\ [Next]_vars => CountInv'
<1> SUFFICES ASSUME TypeInv, CountInv, [Next]_vars PROVE CountInv'
  OBVIOUS
<1>1. CASE UNCHANGED vars
  BY <1>1, BesideCounts DEF Beside, OnlyPending, vars, data
<1>2. CASE MarkContained
  BY <1>2, BesideCounts DEF Beside, OnlyPending, MarkContained
<1>3. CASE Crash
  BY <1>3, CrashCounts
<1>4. CASE Next /\ ~MarkContained /\ ~Crash
  BY <1>4, BesideCounts, StepsBeside, ApprovalCounts, ExecutionCounts
     DEF Next, Analyse, Analyst, Approvers, Procs
<1>5. QED
  BY <1>1, <1>2, <1>3, <1>4

\* However approvals, edits, merges, analyses and rollbacks overlap, a decision
\* reads DONE and an alert contained only if every action of a plan was
\* confirmed (execution.py: a plan with a failure is not a containment).
THEOREM EarnedWhateverOverlaps == Spec => []DoneIsEarned
<1>1. CountInv => DoneIsEarned
  BY DEF CountInv
<1>2. TypeInv /\ CountInv /\ [Next]_vars => CountInv'
  BY CountStep
<1>3. Spec => []TypeInv
  BY TypeInit, TypeStep, Tier2Assumption, PTL DEF Spec
<1>4. QED
  BY <1>1, <1>2, <1>3, CountInit, PTL DEF Spec

-----------------------------------------------------------------------------
(* Only what ran is taken back *)

\* The rows that say an action ran, and with them the one whose confirmation
\* the execution is about to write down.
Ran(a) == {i \in 1..Len(plan) : plan[i].action = a /\ plan[i].status = "DONE"}
Confirmed(a) ==
    {i \in 1..Len(plan) : /\ plan[i].action = a
                          /\ \E p \in Approvers : /\ run[p].pc = "record" /\ run[p].at = i
                                                  /\ run[p].receipt = "DONE"}

\* A rollback that holds the claim on a row and has not been confirmed; the
\* rows that are, or for all anybody knows may be, taken back.
Rolling == {"claim", "undo", "undone"}
Holding(h, i) ==
    /\ proc[h].row = base + i
    /\ proc[h].pc = "undo" \/ (proc[h].pc = "undone" /\ proc[h].receipt # "DONE")
TakenBack(a) ==
    {i \in Ran(a) : \/ plan[i].undo = "DONE"
                    \/ plan[i].undo = "EXECUTING" /\ \A h \in Procs : ~Holding(h, i)}

\* No row says its action ran before an execution gets there.
NotYet == \A p \in Approvers : ~Started(p)
NoneRan == \A i \in 1..Len(plan) : plan[i].status # "DONE"
InTurn(p) ==
    /\ run[p].pc \in {"start", "load"} => run[p].at = 1 /\ NoneRan
    /\ run[p].pc \in {"next", "deliver", "record"} =>
           /\ run[p].base = base /\ run[p].at # 0
           /\ run[p].pc = "next" \/ run[p].at <= Len(plan)
           /\ \A i \in 1..Len(plan) : i >= run[p].at => plan[i].status # "DONE"

\* A rollback is of a row whose action ran; it alone holds the claim on it.
Claims(h) == proc[h].pc \in {"undo", "undone"}
RowOf(h) == proc[h].row - base
OfARow(h) ==
    /\ proc[h].pc \in Rolling =>
           /\ RowOf(h) \in 1..Len(plan) /\ plan[RowOf(h)].status = "DONE"
           /\ proc[h].plan[1] = plan[RowOf(h)].action
    /\ Claims(h) => plan[RowOf(h)].undo = "EXECUTING"
OneClaim == \A g, h \in Procs : Claims(g) /\ Claims(h) /\ proc[g].row = proc[h].row => g = h

RowsInv == /\ NotYet => NoneRan
           /\ \A p \in Approvers : InTurn(p)
           /\ \A h \in Procs : OfARow(h)
           /\ OneClaim
Balance == \A a \in Actions : /\ Cardinality(Ran(a) \cup Confirmed(a)) <= sent[a]
                              /\ undone[a] <= Cardinality(TakenBack(a))
UndoInv == RowsInv /\ Balance

\* What rows there are, and what sets of them count.
LEMMA RowsThere ==
    ASSUME DataType
    PROVE  Len(plan) \in Nat /\ \A i \in 1..Len(plan) : plan[i] \in Row /\ plan[i].action \in Actions
<1>1. Len(plan) \in Nat /\ \A i \in 1..Len(plan) : plan[i] \in Row
  BY LenProperties, ElementOfSeq DEF DataType
<1>2. QED
  BY <1>1 DEF Row

LEMMA RowsCount ==
    ASSUME NEW n \in Nat, NEW S \in SUBSET (1..n)
    PROVE  /\ IsFiniteSet(S) /\ Cardinality(S) \in Nat
           /\ \A T \in SUBSET S : Cardinality(T) \in Nat /\ Cardinality(T) <= Cardinality(S)
<1>1. IsFiniteSet(1..n)
  BY FS_Interval
<1>2. IsFiniteSet(S)
  BY <1>1, FS_Subset
<1>3. QED
  BY <1>2, FS_Subset, FS_CardinalityType

LEMMA Balanced == ASSUME TypeInv, Balance PROVE UndoesOnlyWhatRan
<1> SUFFICES ASSUME NEW a \in Actions PROVE undone[a] <= sent[a]
  BY DEF UndoesOnlyWhatRan
<1>1. /\ Len(plan) \in Nat /\ Ran(a) \cup Confirmed(a) \in SUBSET (1..Len(plan))
      /\ sent[a] \in Nat /\ undone[a] \in Nat
      /\ TakenBack(a) \in SUBSET (Ran(a) \cup Confirmed(a))
  BY RowsThere DEF TypeInv, HistoryType, Ran, Confirmed, TakenBack
<1>2. /\ Cardinality(TakenBack(a)) <= Cardinality(Ran(a) \cup Confirmed(a))
      /\ Cardinality(TakenBack(a)) \in Nat /\ Cardinality(Ran(a) \cup Confirmed(a)) \in Nat
  BY <1>1, RowsCount
<1>3. QED
  BY <1>1, <1>2 DEF Balance

\* A step that confirms nothing keeps the balance if no more rows read as run
\* and no fewer as taken back.
LEMMA NothingConfirmed ==
    ASSUME TypeInv, DataType', Balance, sent' = sent, undone' = undone,
           \A a \in Actions : /\ (Ran(a) \cup Confirmed(a))' \subseteq Ran(a) \cup Confirmed(a)
                              /\ TakenBack(a) \subseteq TakenBack(a)'
    PROVE  Balance'
<1> SUFFICES ASSUME NEW a \in Actions
             PROVE  /\ Cardinality((Ran(a) \cup Confirmed(a))') <= sent[a]
                    /\ undone[a] <= Cardinality(TakenBack(a)')
  BY DEF Balance
<1>1. /\ Len(plan) \in Nat /\ Ran(a) \cup Confirmed(a) \in SUBSET (1..Len(plan))
      /\ sent[a] \in Nat /\ undone[a] \in Nat /\ TakenBack(a) \in SUBSET (1..Len(plan))
  BY RowsThere DEF TypeInv, HistoryType, Ran, Confirmed, TakenBack
<1>2. Len(plan') \in Nat /\ TakenBack(a)' \in SUBSET (1..Len(plan'))
  BY LenProperties DEF DataType, TakenBack, Ran
<1>3. /\ Cardinality(Ran(a) \cup Confirmed(a)) <= sent[a]
      /\ undone[a] <= Cardinality(TakenBack(a))
  BY DEF Balance
<1>4. /\ Cardinality((Ran(a) \cup Confirmed(a))') <= Cardinality(Ran(a) \cup Confirmed(a))
      /\ Cardinality((Ran(a) \cup Confirmed(a))') \in Nat
      /\ Cardinality(Ran(a) \cup Confirmed(a)) \in Nat
  BY <1>1, RowsCount
<1>5. /\ Cardinality(TakenBack(a)) <= Cardinality(TakenBack(a)')
      /\ Cardinality(TakenBack(a)) \in Nat /\ Cardinality(TakenBack(a)') \in Nat
  BY <1>1, <1>2, RowsCount
<1>6. QED
  BY <1>1, <1>3, <1>4, <1>5

LEMMA UndoInit == ASSUME Init PROVE UndoInv
<1>1. plan = <<>> /\ Len(plan) = 0 /\ 1..0 = {}
  BY EmptySeq DEF Init
<1>2. /\ \A p \in Procs : proc[p].pc = "idle"
      /\ \A p \in Approvers : run[p].pc = "none"
  BY DEF Init, Idle, NoRun
<1>3. RowsInv
  BY <1>1, <1>2 DEF RowsInv, NotYet, NoneRan, InTurn, OfARow, OneClaim, Claims, Rolling
<1>4. Balance
  <2> SUFFICES ASSUME NEW a \in Actions
               PROVE  Cardinality(Ran(a) \cup Confirmed(a)) <= sent[a]
                      /\ undone[a] <= Cardinality(TakenBack(a))
    BY DEF Balance
  <2>1. Ran(a) \cup Confirmed(a) = {} /\ TakenBack(a) = {}
    BY <1>1 DEF Ran, Confirmed, TakenBack
  <2>2. sent[a] = 0 /\ undone[a] = 0
    BY DEF Init
  <2>3. QED
    BY <2>1, <2>2, FS_EmptySet
<1>5. QED
  BY <1>3, <1>4 DEF UndoInv

\* A step that concerns neither the execution nor a rollback, and rewrites the
\* plan only before there is an execution.
HandlersAside ==
    \A h \in Procs : proc[h].pc \in Rolling \/ proc'[h].pc \in Rolling => proc'[h] = proc[h]
Aside ==
    /\ run' = run /\ sent' = sent /\ undone' = undone
    /\ HandlersAside
    /\ \/ plan' = plan /\ base' = base
       \/ NotYet /\ NoneRan'

\* Before anything ran there is nothing to take back.
LEMMA NothingToUndo ==
    ASSUME RowsInv, NoneRan
    PROVE  /\ \A h \in Procs : proc[h].pc \notin Rolling
           /\ \A a \in Actions : Ran(a) = {} /\ TakenBack(a) = {}
  BY DEF RowsInv, NoneRan, OfARow, Ran, TakenBack

LEMMA AsideKeeps ==
    ASSUME TypeInv, DataType', UndoInv, Aside
    PROVE  UndoInv'
<1>0. /\ run' = run /\ sent' = sent /\ undone' = undone
      /\ \A h \in Procs : proc[h].pc \in Rolling \/ proc'[h].pc \in Rolling => proc'[h] = proc[h]
  BY DEF Aside, HandlersAside
<1>1. CASE plan' = plan /\ base' = base
  <2>1. \A h \in Procs : OfARow(h)'
    BY <1>0, <1>1 DEF UndoInv, RowsInv, OfARow, Claims, RowOf, Rolling
  <2>2. OneClaim'
    BY <1>0 DEF UndoInv, RowsInv, OneClaim, Claims, Rolling
  <2>3. (NotYet => NoneRan)' /\ \A p \in Approvers : InTurn(p)'
    BY <1>0, <1>1 DEF UndoInv, RowsInv, NotYet, Started, NoneRan, InTurn
  <2>4. \A h \in Procs, i \in 1..Len(plan) : Holding(h, i)' <=> Holding(h, i)
    BY <1>0, <1>1 DEF Holding, Rolling
  <2>5. ASSUME NEW a \in Actions
        PROVE  (Ran(a) \cup Confirmed(a))' \subseteq Ran(a) \cup Confirmed(a)
               /\ TakenBack(a) \subseteq TakenBack(a)'
    BY <1>0, <1>1, <2>4 DEF Ran, Confirmed, TakenBack
  <2>6. Balance'
    BY <1>0, <2>5, NothingConfirmed DEF UndoInv
  <2>7. QED
    BY <2>1, <2>2, <2>3, <2>6 DEF UndoInv, RowsInv
<1>2. CASE NotYet /\ NoneRan'
  <2>1. NoneRan
    BY <1>2 DEF UndoInv, RowsInv
  <2>2. \A h \in Procs : proc[h].pc \notin Rolling /\ proc'[h].pc \notin Rolling
    BY <1>0, <2>1, NothingToUndo DEF UndoInv
  <2>3. \A p \in Approvers : run[p].pc = "none"
    BY <1>2 DEF NotYet, Started
  <2>4. RowsInv'
    BY <1>0, <1>2, <2>2, <2>3 DEF RowsInv, InTurn, OfARow, OneClaim, Claims, Rolling
  <2>5. ASSUME NEW a \in Actions
        PROVE  (Ran(a) \cup Confirmed(a))' = {} /\ TakenBack(a) = {}
    BY <1>0, <1>2, <2>1, <2>3, NothingToUndo DEF UndoInv, NoneRan, Ran, Confirmed
  <2>6. Balance'
    BY <1>0, <2>5, NothingConfirmed DEF UndoInv
  <2>7. QED
    BY <2>4, <2>6 DEF UndoInv
<1>3. QED
  BY <1>1, <1>2 DEF Aside

\* How handlers move, as far as rollbacks go.
LEMMA MovesAside ==
    ASSUME ProcType, NEW p \in Procs, proc[p].pc \notin Rolling
    PROVE  /\ \A pc : Goes(p, pc) /\ pc \notin Rolling => HandlersAside
           /\ Ends(p) => HandlersAside
           /\ Weighs(p) => HandlersAside
           /\ \A kind, pc, s : Starts(p, kind, pc, s) /\ pc \notin Rolling => HandlersAside
<1>0. proc[p] \in Request /\ DOMAIN proc = Procs
  BY DEF ProcType
<1>1. ASSUME NEW new, proc' = [proc EXCEPT ![p] = new], new.pc \notin Rolling
      PROVE  HandlersAside
  BY <1>0, <1>1 DEF HandlersAside
<1>2. ASSUME NEW pc, Goes(p, pc), pc \notin Rolling PROVE HandlersAside
  <2> DEFINE new == [proc[p] EXCEPT !.pc = pc]
  <2>1. new.pc = pc /\ proc' = [proc EXCEPT ![p] = new]
    BY <1>0, <1>2 DEF Goes, Request
  <2> HIDE DEF new
  <2>2. QED
    BY <1>1, <1>2, <2>1
<1>3. ASSUME Ends(p) PROVE HandlersAside
  <2>1. Idle.pc \notin Rolling
    BY DEF Idle, Rolling
  <2>2. QED
    BY <1>1, <1>3, <2>1 DEF Ends
<1>4. ASSUME Weighs(p) PROVE HandlersAside
  <2>1. Goes(p, "autopilot") \/ Ends(p)
    BY <1>4 DEF Weighs
  <2>2. "autopilot" \notin Rolling
    BY DEF Rolling
  <2>3. QED
    BY <1>2, <1>3, <2>1, <2>2
<1>5. ASSUME NEW kind, NEW pc, NEW s, Starts(p, kind, pc, s), pc \notin Rolling
      PROVE  HandlersAside
  <2> DEFINE new == [Idle EXCEPT !.doing = kind, !.pc = pc, !.plan = s]
  <2>1. new.pc = pc /\ proc' = [proc EXCEPT ![p] = new]
    BY <1>5 DEF Starts, Idle
  <2> HIDE DEF new
  <2>2. QED
    BY <1>1, <1>5, <2>1
<1>6. QED
  BY <1>2, <1>3, <1>4, <1>5

\* A new plan has run nowhere; it is made while nothing has been approved.
LEMMA ReplannedAside ==
    ASSUME RunInv, decision.status \in {"NONE", "PENDING"},
           NEW s \in Seq(Actions), Replan(s)
    PROVE  NotYet /\ NoneRan'
<1>1. NotYet
  BY DEF RunInv, Running, NotYet, Carried
<1>2. plan' = NewRows(s) /\ plan' \in Seq(Row)
  BY NewRowsType DEF Replan
<1>3. \A i \in 1..Len(plan') : plan'[i].status = "PENDING"
  <2>1. ActionsOf(plan') = s
    BY <1>2, NewRowsType
  <2>2. Len(plan') = Len(s)
    BY <1>2, <2>1, ActionsOfType
  <2>3. QED
    BY <1>2, <2>2 DEF NewRows
<1>4. QED
  BY <1>1, <1>3 DEF NoneRan

LEMMA StepsAside ==
    ASSUME Tier2Assumption, DInv, NEW p \in Procs,
           \/ \E new \in Proposals : AnalyseFirst(p, new) \/ AnalyseAgain(p, new)
           \/ AnalysisStep(p) \/ Ensure(p) \/ ProposalStep(p)
           \/ ApproveRead(p) \/ RejectRead(p) \/ RejectWrite(p) \/ EditRead(p) \/ EditWrite(p)
           \/ ReopenAlert(p) \/ Merge(p)
    PROVE  Aside
<1>0. /\ ProcType /\ RunInv /\ InOrder(p) /\ proc[p] \in Request
      /\ proc[p].doing = "nothing" => proc[p].pc \notin Rolling
      /\ UNCHANGED <<run, history>> => run' = run /\ sent' = sent /\ undone' = undone
      /\ \A kind, pc, s : Starts(p, kind, pc, s) => proc[p].doing = "nothing"
  BY DEF DInv, TypeInv, HandlerInv, InOrder, ProcType, Rolling, history, Starts, MayStart
<1>1. ASSUME NEW new \in Proposals, AnalyseFirst(p, new) PROVE Aside
  <2>1. HandlersAside
    BY <1>0, <1>1, MovesAside DEF AnalyseFirst, Rolling
  <2>2. QED
    BY <1>0, <1>1, <2>1 DEF AnalyseFirst, Aside
<1>2. ASSUME NEW new \in Proposals, AnalyseAgain(p, new) PROVE Aside
  <2>1. HandlersAside
    BY <1>0, <1>2, MovesAside DEF AnalyseAgain, Rolling
  <2>2. QED
    BY <1>0, <1>2, <2>1 DEF AnalyseAgain, Aside
<1>3. CASE AttachAlert(p)
  <2>1. HandlersAside
    BY <1>0, <1>3, MovesAside DEF AttachAlert, Rolling
  <2>2. QED
    BY <1>0, <1>3, <2>1 DEF AttachAlert, Aside
<1>4. CASE RebuildRead(p) \/ AutopilotDeclines(p) \/ AutopilotApproves(p)
  <2>1. HandlersAside
    BY <1>0, <1>4, MovesAside DEF RebuildRead, AutopilotDeclines, AutopilotApproves, Rolling
  <2>2. QED
    BY <1>0, <1>4, <2>1 DEF RebuildRead, AutopilotDeclines, AutopilotApproves, Aside, data
<1>5. CASE Ensure(p) \/ ApproveRead(p) \/ RejectRead(p)
  <2>1. HandlersAside
    BY <1>0, <1>5, MovesAside DEF Ensure, ApproveRead, RejectRead, Rolling
  <2>2. QED
    BY <1>0, <1>5, <2>1 DEF Ensure, ApproveRead, RejectRead, Aside, data
<1>6. CASE EditRead(p)
  <2>1. HandlersAside
    BY <1>0, <1>6, MovesAside DEF EditRead, Rolling
  <2>2. QED
    BY <1>0, <1>6, <2>1 DEF EditRead, Aside, data
<1>7. CASE CreateRead(p) \/ ReadBack(p)
  <2>1. HandlersAside
    BY <1>0, <1>7, MovesAside DEF CreateRead, ReadBack, Rolling
  <2>2. QED
    BY <1>0, <1>7, <2>1 DEF CreateRead, ReadBack, Aside, data
<1>8. CASE RejectWrite(p) \/ ReopenAlert(p)
  <2>1. HandlersAside
    BY <1>0, <1>8, MovesAside DEF RejectWrite, ReopenAlert, Rolling
  <2>2. QED
    BY <1>0, <1>8, <2>1 DEF RejectWrite, ReopenAlert, Aside
<1>9. CASE CreateWrite(p)
  <2>1. HandlersAside
    BY <1>0, <1>9, MovesAside DEF CreateWrite, Rolling
  <2>2. (decision.status = "NONE" /\ Replan(proc[p].plan)) \/ UNCHANGED <<plan, base>>
    BY <1>9 DEF CreateWrite
  <2>3. UNCHANGED <<plan, base>> \/ (NotYet /\ NoneRan')
    <3>1. proc[p].plan \in Seq(Actions)
      BY <1>0 DEF Request
    <3>2. CASE decision.status \in {"NONE", "PENDING"} /\ Replan(proc[p].plan)
      BY <1>0, <3>1, <3>2, ReplannedAside
    <3>3. QED
      BY <2>2, <3>2
  <2>4. QED
    BY <1>0, <1>9, <2>1, <2>3 DEF CreateWrite, Aside
<1>10. CASE RebuildWrite(p)
  <2>1. HandlersAside
    BY <1>0, <1>10, MovesAside DEF RebuildWrite, Rolling
  <2>2. decision.status = "PENDING" /\ Replan(proc[p].plan)
    BY <1>0, <1>10 DEF RebuildWrite, InOrder, ForPending, Pending
  <2>3. NotYet /\ NoneRan'
    BY <1>0, <2>2, ReplannedAside DEF Request
  <2>4. QED
    BY <1>0, <1>10, <2>1, <2>3 DEF RebuildWrite, Aside
<1>11. CASE EditWrite(p)
  <2>1. HandlersAside
    BY <1>0, <1>11, MovesAside DEF EditWrite, Rolling
  <2>2. (decision.status = "PENDING" /\ Replan(proc[p].plan)) \/ UNCHANGED <<plan, base>>
    BY <1>0, <1>11 DEF EditWrite, InOrder, ForPending, Pending
  <2>3. UNCHANGED <<plan, base>> \/ (NotYet /\ NoneRan')
    <3>1. proc[p].plan \in Seq(Actions)
      BY <1>0 DEF Request
    <3>2. CASE decision.status \in {"NONE", "PENDING"} /\ Replan(proc[p].plan)
      BY <1>0, <3>1, <3>2, ReplannedAside
    <3>3. QED
      BY <2>2, <3>2
  <2>4. QED
    BY <1>0, <1>11, <2>1, <2>3 DEF EditWrite, Aside
<1>12. CASE MergeRead(p)
  <2>1. HandlersAside
    BY <1>0, <1>12, MovesAside DEF MergeRead, Rolling
  <2>2. QED
    BY <1>0, <1>12, <2>1 DEF MergeRead, Aside, data
<1>13. CASE MergeLoad(p)
  <2>1. proc[p].pc \notin Rolling
    BY <1>13 DEF MergeLoad, Rolling
  <2>2. Goes(p, "absorb") \/ Goes(p, "absorb bare") \/ Ends(p)
    BY <1>13 DEF MergeLoad
  <2>3. HandlersAside
    BY <1>0, <2>1, <2>2, MovesAside DEF Rolling
  <2>4. QED
    BY <1>0, <1>13, <2>3 DEF MergeLoad, Aside, data
<1>14. CASE MergeWrite(p)
  <2>1. HandlersAside
    BY <1>0, <1>14, MovesAside DEF MergeWrite, Rolling
  <2>2. QED
    BY <1>0, <1>14, <2>1 DEF MergeWrite, Aside
<1>15. QED
  BY <1>1, <1>2, <1>3, <1>4, <1>5, <1>6, <1>7, <1>8, <1>9, <1>10, <1>11, <1>12, <1>13, <1>14
     DEF AnalysisStep, ProposalStep, Merge

\* The approval queues the rows of a plan nothing of which has run.
LEMMA ApprovalUndoes ==
    ASSUME Tier2Assumption, DInv, UndoInv, DataType', NEW p \in Approvers, ApproveWrite(p)
    PROVE  UndoInv'
<1>0. TypeInv /\ RunInv /\ InOrder(p) /\ p \in Procs
  BY DEF DInv, HandlerInv, Approvers, Procs
<1>1. \A q \in Approvers : run[q].pc = "none"
  <2>1. decision.status = "PENDING"
    BY <1>0 DEF ApproveWrite, InOrder, ForPending, Pending
  <2>2. QED
    BY <1>0, <2>1 DEF RunInv, Running, Started, Carried
<1>2. NoneRan
  BY <1>1 DEF UndoInv, RowsInv, NotYet, Started
<1>3. Len(plan') = Len(plan) /\ \A i \in 1..Len(plan) : plan'[i].status = "QUEUED"
  <2>1. /\ plan' = [i \in 1..Len(plan) |-> [plan[i] EXCEPT !.status = "QUEUED"]]
        /\ \A i \in 1..Len(plan) : plan[i] \in Row
    BY <1>0, RowsThere DEF ApproveWrite, TypeInv
  <2>2. Len(plan') = Len(plan)
    BY <1>0, <2>1, QueuedRows DEF TypeInv, DataType
  <2>3. QED
    BY <2>1, <2>2 DEF Row
<1>4. NoneRan'
  BY <1>3 DEF NoneRan
<1>5. \A h \in Procs : proc[h].pc \notin Rolling /\ proc'[h].pc \notin Rolling
  <2>1. \A h \in Procs : proc[h].pc \notin Rolling
    BY <1>2, NothingToUndo DEF UndoInv
  <2>2. HandlersAside
    BY <1>0, <2>1, MovesAside DEF ApproveWrite, TypeInv
  <2>3. QED
    BY <2>1, <2>2 DEF HandlersAside
<1>6. /\ \A q \in Approvers : run'[q].pc \in {"none", "start"} /\ (run'[q].pc = "start" => run'[q].at = 1)
      /\ sent' = sent /\ undone' = undone
  BY <1>0, <1>1 DEF ApproveWrite, TypeInv, RunType, NoRun
<1>7. RowsInv'
  BY <1>4, <1>5, <1>6 DEF RowsInv, InTurn, OfARow, OneClaim, Claims, Rolling
<1>8. ASSUME NEW a \in Actions
      PROVE  (Ran(a) \cup Confirmed(a))' = {} /\ TakenBack(a) = {}
  BY <1>2, <1>4, <1>6, <1>8, NothingToUndo DEF UndoInv, NoneRan, Ran, Confirmed
<1>9. Balance'
  BY <1>0, <1>6, <1>8, NothingConfirmed DEF UndoInv
<1>10. QED
  BY <1>7, <1>9 DEF UndoInv

\* While the execution runs there is no other, and it works on the plan's rows.
LEMMA WorksOnRows ==
    ASSUME DInv, RowsInv, NEW p \in Approvers, Started(p)
    PROVE  /\ \A q \in Approvers : q # p => run[q].pc = "none"
           /\ run[p].pc \in {"next", "deliver", "record"} =>
                  /\ run[p].plan = ActionsOf(plan) /\ Len(run[p].plan) = Len(plan)
                  /\ \A i \in 1..Len(plan) : run[p].plan[i] = plan[i].action
                  /\ NextRow(p) - base = run[p].at
<1>1. \A q \in Approvers : q # p => run[q].pc = "none"
  BY DEF DInv, RunInv, OneExecution, Started
<1>2. ASSUME run[p].pc \in {"next", "deliver", "record"}
      PROVE  /\ run[p].plan = ActionsOf(plan) /\ Len(run[p].plan) = Len(plan)
             /\ \A i \in 1..Len(plan) : run[p].plan[i] = plan[i].action
             /\ NextRow(p) - base = run[p].at
  <2>1. run[p].plan = ActionsOf(plan)
    BY <1>2 DEF DInv, RunInv, Kept, Running, SendsWhatWasApproved, Carried, Started
  <2>2. plan \in Seq(Row) /\ base \in Nat /\ run[p].at \in Nat
    BY DEF DInv, TypeInv, DataType, RunType, Execution
  <2>3. run[p].base = base
    BY <1>2 DEF RowsInv, InTurn
  <2>4. QED
    BY <2>1, <2>2, <2>3, ActionsOfType DEF NextRow
<1>3. QED
  BY <1>1, <1>2

\* What writing one row leaves of the others, and of it.
LEMMA OneRowSet ==
    ASSUME DataType, NEW id \in Nat, id - base \in 1..Len(plan),
           NEW status \in RowStatus, NEW undo \in UndoStatus, SetRow(id, status, undo)
    PROVE  /\ Len(plan') = Len(plan)
           /\ \A i \in 1..Len(plan) : /\ plan'[i].action = plan[i].action
                                      /\ i # id - base => plan'[i] = plan[i]
           /\ plan'[id - base].status = status
<1> DEFINE k == id - base
           row == [plan[k] EXCEPT !.status = status, !.undo = undo]
<1>1. Len(plan') = Len(plan)
  BY SetRowType
<1>2. plan[k] \in Row /\ k \in 1..Len(plan)
  BY RowsThere
<1>3. row.action = plan[k].action /\ row.status = status
  BY <1>2 DEF Row
<1>4. plan' = [plan EXCEPT ![k] = row]
  BY DEF SetRow, Holds
<1>5. k \in DOMAIN plan
  BY <1>2 DEF DataType
<1> HIDE DEF k, row
<1>6. QED
  BY <1>1, <1>2, <1>3, <1>4, <1>5 DEF k

\* An execution that writes no row that says its action ran keeps what is
\* known of the rows, and whatever was taken back stays so.
Executes(p) ==
    /\ UNCHANGED <<proc, base, undone>>
    /\ \A q \in Approvers : q # p => run[q].pc = "none" /\ run'[q].pc = "none"
    /\ run[p].pc # "none" /\ run'[p].pc # "none"
    /\ Len(plan') = Len(plan)
    /\ \A i \in 1..Len(plan) : /\ plan'[i].action = plan[i].action
                               /\ plan[i].status = "DONE" => plan'[i] = plan[i]

LEMMA ExecutesRows ==
    ASSUME TypeInv, RowsInv, NEW p \in Approvers, Executes(p), InTurn(p)'
    PROVE  /\ RowsInv'
           /\ \A a \in Actions : /\ TakenBack(a) \subseteq TakenBack(a)'
                                 /\ Ran(a) \subseteq Ran(a)'
<1>1. ~NotYet'
  BY DEF NotYet, Started, Executes
<1>2. \A q \in Approvers : InTurn(q)'
  BY DEF Executes, InTurn
<1>3. ASSUME NEW h \in Procs PROVE OfARow(h)'
  <2>1. OfARow(h)
    BY DEF RowsInv
  <2>2. CASE proc[h].pc \in Rolling
    <3>1. /\ RowOf(h)' = RowOf(h) /\ RowOf(h) \in 1..Len(plan)
          /\ plan'[RowOf(h)] = plan[RowOf(h)]
      BY <2>1, <2>2 DEF OfARow, Executes, RowOf
    <3>2. QED
      BY <2>1, <2>2, <3>1 DEF OfARow, Executes, Claims
  <2>3. CASE proc[h].pc \notin Rolling
    BY <2>3 DEF OfARow, Executes, Claims, Rolling
  <2>4. QED
    BY <2>2, <2>3
<1>4. OneClaim'
  BY DEF RowsInv, OneClaim, Claims, Executes
<1>5. \A a \in Actions : TakenBack(a) \subseteq TakenBack(a)' /\ Ran(a) \subseteq Ran(a)'
  <2>1. ASSUME NEW a \in Actions, NEW i \in Ran(a)
        PROVE  i \in Ran(a)' /\ plan'[i] = plan[i]
    BY <2>1 DEF Executes, Ran
  <2>2. \A h \in Procs : \A i : Holding(h, i)' <=> Holding(h, i)
    BY DEF Holding, Executes
  <2>3. QED
    BY <2>1, <2>2 DEF TakenBack
<1>6. QED
  BY <1>1, <1>2, <1>3, <1>4, <1>5 DEF RowsInv

\* One more confirmed action is one more row at most.
LEMMA OneMoreRow ==
    ASSUME NEW n \in Nat, NEW S \in SUBSET (1..n), NEW k \in 1..n,
           NEW T \in SUBSET (S \cup {k})
    PROVE  /\ Cardinality(T) \in Nat /\ Cardinality(S) \in Nat
           /\ Cardinality(T) <= Cardinality(S) + 1
<1>1. IsFiniteSet(S) /\ Cardinality(S) \in Nat /\ S \cup {k} \in SUBSET (1..n)
  BY RowsCount
<1>2. Cardinality(S \cup {k}) <= Cardinality(S) + 1
  BY <1>1, FS_AddElement
<1>3. /\ Cardinality(T) <= Cardinality(S \cup {k})
      /\ Cardinality(T) \in Nat /\ Cardinality(S \cup {k}) \in Nat
  BY <1>1, RowsCount
<1>4. QED
  BY <1>1, <1>2, <1>3

\* The steps of an execution that have nothing confirmed.
LEMMA ExecutesUnconfirmed ==
    ASSUME TypeInv, UndoInv, DataType', NEW p \in Approvers, Executes(p), InTurn(p)',
           sent' = sent,
           \A a \in Actions : (Ran(a) \cup Confirmed(a))' \subseteq Ran(a) \cup Confirmed(a)
    PROVE  UndoInv'
<1>1. RowsInv' /\ \A a \in Actions : TakenBack(a) \subseteq TakenBack(a)'
  BY ExecutesRows DEF UndoInv
<1>2. undone' = undone
  BY DEF Executes
<1>3. Balance'
  BY <1>1, <1>2, NothingConfirmed DEF UndoInv
<1>4. QED
  BY <1>1, <1>3 DEF UndoInv

\* The steps that leave the plan alone.
LEMMA IdlePlanUndoes ==
    ASSUME DInv, UndoInv, DataType', NEW p \in Approvers,
           RunStart(p) \/ RunLoad(p) \/ RunMitigate(p) \/ RunSettle(p)
    PROVE  UndoInv'
<1>0. /\ TypeInv /\ run[p] \in Execution /\ InTurn(p) /\ RowsInv
  BY DEF DInv, TypeInv, RunType, UndoInv, RowsInv
<1>1. /\ Started(p) /\ run[p].pc # "none" /\ run[p].pc # "record"
      /\ UNCHANGED <<plan, base, proc, sent, undone>>
      /\ \A q \in Approvers : q # p => run'[q] = run[q]
  BY <1>0 DEF RunStart, RunLoad, RunMitigate, RunSettle, Finished, Started, data, history,
              TypeInv, RunType
<1>2. /\ run'[p].pc \in {"load", "next", "settle", "over"} /\ run'[p].at = run[p].at
      /\ run'[p].pc = "load" => run[p].pc = "start"
      /\ run'[p].pc = "next" => run[p].pc = "load" /\ run'[p].base = base
  <2>1. CASE RunStart(p)
    BY <1>0, <2>1 DEF RunStart, TypeInv, RunType, Execution
  <2>2. CASE RunLoad(p)
    BY <1>0, <2>2 DEF RunLoad, TypeInv, RunType, Execution
  <2>3. CASE RunMitigate(p)
    BY <1>0, <2>3 DEF RunMitigate, TypeInv, RunType, Execution
  <2>4. CASE RunSettle(p)
    BY <1>0, <2>4 DEF RunSettle, TypeInv, RunType, Execution
  <2>5. QED
    BY <2>1, <2>2, <2>3, <2>4
<1>3. Executes(p)
  BY <1>0, <1>1, <1>2, WorksOnRows DEF Executes
<1>4. InTurn(p)'
  BY <1>0, <1>1, <1>2 DEF InTurn, NoneRan
<1>5. ASSUME NEW a \in Actions PROVE (Ran(a) \cup Confirmed(a))' \subseteq Ran(a) \cup Confirmed(a)
  BY <1>1, <1>2, <1>3 DEF Ran, Confirmed, Executes
<1>6. QED
  BY <1>0, <1>1, <1>3, <1>4, <1>5, ExecutesUnconfirmed

\* The steps that write the row the execution is at.
LEMMA RowUndoes ==
    ASSUME Tier2Assumption, DInv, UndoInv, DataType', NEW p \in Approvers,
           RunBlock(p) \/ RunDispatch(p) \/ RunRecord(p)
    PROVE  UndoInv'
<1>0. /\ TypeInv /\ DataType /\ RunType /\ run[p] \in Execution /\ InTurn(p) /\ RowsInv
      /\ run[p].at \in Nat
  BY DEF DInv, TypeInv, RunType, UndoInv, RowsInv, Execution
<1>1. /\ Started(p) /\ run[p].pc \in {"next", "record"}
      /\ run[p].pc = "record" \/ run[p].at <= Len(run[p].plan)
      /\ UNCHANGED <<base, proc, sent, undone>>
      /\ \A q \in Approvers : q # p => run'[q] = run[q]
  BY <1>0 DEF RunBlock, RunDispatch, RunRecord, Remaining, Started, history, RunType
<1> DEFINE k == run[p].at
<1>2. /\ \A q \in Approvers : q # p => run[q].pc = "none"
      /\ NextRow(p) \in Nat /\ NextRow(p) - base = k /\ Len(plan) \in Nat
      /\ k \in 1..Len(plan) /\ plan[k].status # "DONE"
  <2>1. /\ \A q \in Approvers : q # p => run[q].pc = "none"
        /\ NextRow(p) - base = k /\ Len(run[p].plan) = Len(plan)
    BY <1>0, <1>1, WorksOnRows
  <2>2. Len(plan) \in Nat /\ NextRow(p) \in Nat
    BY <1>0, RowsThere, NextRowType
  <2>3. k # 0 /\ k <= Len(plan)
    BY <1>0, <1>1, <2>1 DEF InTurn
  <2>4. k \in 1..Len(plan)
    BY <1>0, <2>2, <2>3
  <2>5. plan[k].status # "DONE"
    BY <1>0, <1>1, <2>4 DEF InTurn
  <2>6. QED
    BY <2>1, <2>2, <2>4, <2>5
<1>3. PICK status \in RowStatus, undo \in UndoStatus :
         /\ SetRow(NextRow(p), status, undo)
         /\ status = "DONE" => run[p].pc = "record" /\ run[p].receipt = "DONE"
  <2>1. UndoOf(NextRow(p)) \in UndoStatus
    BY <1>0, NextRowType
  <2>2. CASE RunBlock(p)
    BY <2>1, <2>2 DEF RunBlock, RowStatus, Receipts
  <2>3. CASE RunDispatch(p)
    BY <2>1, <2>3 DEF RunDispatch, RowStatus
  <2>4. CASE RunRecord(p)
    <3> DEFINE new == IF run[p].receipt = "DONE" /\ NextAction(p) \in Reversible
                      THEN "AVAILABLE" ELSE ""
    <3>1. new \in UndoStatus
      BY DEF UndoStatus
    <3>2. SetRow(NextRow(p), run[p].receipt, new)
      BY <2>4 DEF RunRecord
    <3>3. run[p].receipt \in RowStatus /\ run[p].pc = "record"
      BY <1>0, <2>4 DEF RunRecord, RunType, RowStatus
    <3> HIDE DEF new
    <3>4. QED
      BY <3>1, <3>2, <3>3
  <2>5. QED
    BY <2>2, <2>3, <2>4
<1>4. /\ Len(plan') = Len(plan) /\ plan'[k].status = status
      /\ \A i \in 1..Len(plan) : /\ plan'[i].action = plan[i].action
                                 /\ i # k => plan'[i] = plan[i]
  BY <1>0, <1>2, <1>3, OneRowSet
<1>5. /\ run'[p].pc \in {"next", "deliver"} /\ run'[p].base = run[p].base
      /\ \/ run'[p].at = k + 1 /\ run'[p].pc = "next"
         \/ run'[p].at = k /\ run'[p].pc = "deliver" /\ run[p].pc = "next" /\ status # "DONE"
  <2>1. CASE RunBlock(p)
    BY <1>0, <1>1, <2>1 DEF RunBlock, RunType, Execution, Remaining
  <2>2. CASE RunDispatch(p)
    <3>1. run[p].pc = "next"
      BY <2>2 DEF RunDispatch, Remaining
    <3>2. run'[p].pc = "deliver" /\ run'[p].base = run[p].base /\ run'[p].at = k
      BY <1>0, <2>2 DEF RunDispatch, RunType, Execution
    <3>3. QED
      BY <1>3, <3>1, <3>2
  <2>3. CASE RunRecord(p)
    <3> DEFINE simulated == run[p].simulated \/ run[p].receipt = "SIMULATED"
               failed == run[p].failed \/ run[p].receipt \in {"FAILED", "BLOCKED"}
    <3>1. run' = [run EXCEPT ![p] = [run[p] EXCEPT !.pc = "next", !.at = @ + 1,
                                        !.simulated = simulated, !.failed = failed]]
      BY <2>3 DEF RunRecord
    <3> HIDE DEF simulated, failed
    <3>2. QED
      BY <1>0, <3>1 DEF RunType, Execution
  <2>4. QED
    BY <2>1, <2>2, <2>3
<1>6. Executes(p)
  <2>1. \A i \in 1..Len(plan) : plan[i].status = "DONE" => plan'[i] = plan[i]
    BY <1>2, <1>4
  <2>2. \A q \in Approvers : q # p => run[q].pc = "none" /\ run'[q].pc = "none"
    BY <1>1, <1>2
  <2>3. run[p].pc # "none" /\ run'[p].pc # "none"
    BY <1>1, <1>5
  <2>4. QED
    BY <1>1, <1>4, <2>1, <2>2, <2>3 DEF Executes
<1>7. InTurn(p)'
  <2>1. run'[p].base = base' /\ run'[p].at # 0
    BY <1>0, <1>1, <1>2, <1>5 DEF InTurn
  <2>2. run'[p].pc = "next" \/ run'[p].at <= Len(plan')
    BY <1>2, <1>4, <1>5
  <2>3. ASSUME NEW i \in 1..Len(plan'), i >= run'[p].at PROVE plan'[i].status # "DONE"
    <3>1. i \in 1..Len(plan) /\ i \in Int /\ k \in Int
      BY <1>0, <1>2, <1>4
    <3>2. CASE i = k
      BY <1>4, <1>5, <2>3, <3>1, <3>2
    <3>3. CASE i # k
      <4>1. i >= k /\ plan'[i] = plan[i]
        BY <1>4, <1>5, <2>3, <3>1, <3>3
      <4>2. QED
        BY <1>0, <1>1, <3>1, <4>1 DEF InTurn
    <3>4. QED
      BY <3>2, <3>3
  <2>4. QED
    BY <1>5, <2>1, <2>2, <2>3 DEF InTurn
<1>8. ASSUME NEW a \in Actions PROVE (Ran(a) \cup Confirmed(a))' \subseteq Ran(a) \cup Confirmed(a)
  <2>1. Confirmed(a)' = {}
    BY <1>5, <1>6 DEF Confirmed, Executes
  <2>2. ASSUME NEW i \in Ran(a)' PROVE i \in Ran(a) \cup Confirmed(a)
    <3>1. i \in 1..Len(plan) /\ plan[i].action = a /\ plan'[i].status = "DONE"
      BY <1>4, <2>2 DEF Ran
    <3>2. CASE i = k
      BY <1>3, <1>4, <3>1, <3>2 DEF Confirmed
    <3>3. CASE i # k
      BY <1>4, <3>1, <3>3 DEF Ran
    <3>4. QED
      BY <3>2, <3>3
  <2>3. QED
    BY <2>1, <2>2
<1>9. QED
  BY <1>0, <1>1, <1>6, <1>7, <1>8, ExecutesUnconfirmed

\* The step that has the action confirmed, or refused.
LEMMA DeliveryUndoes ==
    ASSUME Tier2Assumption, DInv, UndoInv, DataType', NEW p \in Approvers, RunDeliver(p)
    PROVE  UndoInv'
<1>0. /\ TypeInv /\ DataType /\ run[p] \in Execution /\ InTurn(p) /\ RowsInv /\ Balance
      /\ Started(p) /\ run[p].pc = "deliver"
      /\ UNCHANGED <<plan, base, proc, undone>>
  BY DEF DInv, TypeInv, RunType, UndoInv, RowsInv, RunDeliver, Started, data
<1> DEFINE k == run[p].at
<1>1. /\ \A q \in Approvers : q # p => run[q].pc = "none"
      /\ k \in 1..Len(plan) /\ Len(plan) \in Nat /\ NextAction(p) = plan[k].action
      /\ plan[k].action \in Actions
  <2>1. /\ \A q \in Approvers : q # p => run[q].pc = "none"
        /\ \A i \in 1..Len(plan) : run[p].plan[i] = plan[i].action
    BY <1>0, WorksOnRows
  <2>2. k \in Nat /\ k # 0 /\ k <= Len(plan)
    BY <1>0 DEF InTurn, Execution
  <2>3. Len(plan) \in Nat /\ k \in 1..Len(plan) /\ plan[k].action \in Actions
    BY <1>0, <2>2, RowsThere
  <2>4. QED
    BY <2>1, <2>3 DEF NextAction
<1>2. PICK receipt \in Outcomes, one \in {0, 1} :
        /\ run' = [run EXCEPT ![p] = [run[p] EXCEPT !.pc = "record", !.receipt = receipt,
                                                    !.acked = @ + one]]
        /\ sent' = [sent EXCEPT ![NextAction(p)] = @ + one]
        /\ receipt = "DONE" => one = 1
  <2>1. PICK receipt \in Outcomes :
          /\ run' = [run EXCEPT ![p].pc = "record", ![p].receipt = receipt,
                                ![p].acked = @ + (IF receipt = "DONE" THEN 1 ELSE 0)]
          /\ sent' = [sent EXCEPT ![NextAction(p)] = @ + (IF receipt = "DONE" THEN 1 ELSE 0)]
    BY DEF RunDeliver
  <2>2. CASE receipt = "DONE"
    BY <2>1, <2>2
  <2>3. CASE receipt # "DONE"
    BY <2>1, <2>3
  <2>4. QED
    BY <2>2, <2>3
<1>3. /\ run'[p].pc = "record" /\ run'[p].at = k /\ run'[p].base = run[p].base
      /\ run'[p].receipt = receipt
      /\ \A q \in Approvers : q # p => run'[q] = run[q]
  BY <1>0, <1>2 DEF TypeInv, RunType, Execution
<1>4. Executes(p)
  BY <1>0, <1>1, <1>3 DEF Executes
<1>5. InTurn(p)'
  BY <1>0, <1>3 DEF InTurn
<1>6. RowsInv' /\ \A a \in Actions : TakenBack(a) \subseteq TakenBack(a)'
  BY <1>0, <1>4, <1>5, ExecutesRows
<1>7. ASSUME NEW a \in Actions
      PROVE  /\ Cardinality((Ran(a) \cup Confirmed(a))') <= sent'[a]
             /\ undone'[a] <= Cardinality(TakenBack(a)')
  <2>1. /\ Ran(a) \cup Confirmed(a) \in SUBSET (1..Len(plan))
        /\ sent[a] \in Nat /\ undone[a] \in Nat
        /\ TakenBack(a) \in SUBSET (1..Len(plan)) /\ TakenBack(a)' \in SUBSET (1..Len(plan))
    BY <1>0 DEF TypeInv, HistoryType, Ran, Confirmed, TakenBack
  <2>2. /\ Cardinality(Ran(a) \cup Confirmed(a)) <= sent[a]
        /\ undone[a] <= Cardinality(TakenBack(a))
    BY <1>0 DEF Balance
  <2>3. undone'[a] <= Cardinality(TakenBack(a)')
    <3>1. /\ Cardinality(TakenBack(a)) <= Cardinality(TakenBack(a)')
          /\ Cardinality(TakenBack(a)) \in Nat /\ Cardinality(TakenBack(a)') \in Nat
      BY <1>1, <1>6, <2>1, RowsCount
    <3>2. QED
      BY <1>0, <2>1, <2>2, <3>1
  <2>4. Ran(a)' = Ran(a)
    BY <1>0 DEF Ran
  <2>5. CASE receipt = "DONE" /\ a = NextAction(p)
    <3>1. (Ran(a) \cup Confirmed(a))' \subseteq (Ran(a) \cup Confirmed(a)) \cup {k}
      BY <1>0, <1>1, <1>3, <2>4 DEF Confirmed
    <3>2. sent'[a] = sent[a] + 1
      BY <1>0, <1>2, <2>5 DEF TypeInv, HistoryType
    <3>3. /\ Cardinality((Ran(a) \cup Confirmed(a))') <= Cardinality(Ran(a) \cup Confirmed(a)) + 1
          /\ Cardinality((Ran(a) \cup Confirmed(a))') \in Nat
          /\ Cardinality(Ran(a) \cup Confirmed(a)) \in Nat
      <4> DEFINE S == Ran(a) \cup Confirmed(a)
                 T == (Ran(a) \cup Confirmed(a))'
                 n == Len(plan)
      <4>1. n \in Nat /\ S \in SUBSET (1..n) /\ k \in 1..n /\ T \in SUBSET (S \cup {k})
        BY <1>1, <2>1, <3>1
      <4> HIDE DEF S, T, n, k
      <4>2. Cardinality(T) \in Nat /\ Cardinality(S) \in Nat /\ Cardinality(T) <= Cardinality(S) + 1
        BY <4>1, OneMoreRow
      <4>3. QED
        BY <4>2 DEF S, T
    <3>4. QED
      BY <2>1, <2>2, <2>3, <3>2, <3>3
  <2>6. CASE ~(receipt = "DONE" /\ a = NextAction(p))
    <3>1. Confirmed(a)' = {}
      BY <1>0, <1>1, <1>3, <2>6 DEF Confirmed
    <3>2. (Ran(a) \cup Confirmed(a))' \subseteq Ran(a) \cup Confirmed(a)
      BY <2>4, <3>1
    <3>3. sent'[a] \in Nat /\ sent'[a] >= sent[a]
      BY <1>0, <1>2, <2>1 DEF TypeInv, HistoryType
    <3>4. /\ Cardinality((Ran(a) \cup Confirmed(a))') <= Cardinality(Ran(a) \cup Confirmed(a))
          /\ Cardinality((Ran(a) \cup Confirmed(a))') \in Nat
          /\ Cardinality(Ran(a) \cup Confirmed(a)) \in Nat
      BY <1>1, <2>1, <3>2, RowsCount
    <3>5. QED
      BY <2>1, <2>2, <2>3, <3>3, <3>4
  <2>7. QED
    BY <2>5, <2>6
<1>8. Balance'
  BY <1>7 DEF Balance
<1>9. QED
  BY <1>6, <1>8 DEF UndoInv

\* A rollback that writes at most its own row's mark keeps what is known of
\* the rows and of the other handlers.
Reverts(a) ==
    /\ UNCHANGED <<run, base, sent>>
    /\ \A h \in Procs : h # a => proc'[h] = proc[h]
    /\ Len(plan') = Len(plan)
    /\ \A i \in 1..Len(plan) : /\ plan'[i].action = plan[i].action
                               /\ plan'[i].status = plan[i].status
                               /\ i = RowOf(a) \/ plan'[i] = plan[i]

LEMMA RevertsRows ==
    ASSUME TypeInv, RowsInv, NEW a \in Procs, Reverts(a), OfARow(a)',
           \A h \in Procs \ {a} :
               Claims(h) => plan' = plan \/ proc[h].row # proc[a].row,
           Claims(a)' => /\ proc'[a].row = proc[a].row
                         /\ \A h \in Procs \ {a} : Claims(h) => proc[h].row # proc[a].row
    PROVE  /\ RowsInv'
           /\ \A b \in Actions : (Ran(b) \cup Confirmed(b))' = Ran(b) \cup Confirmed(b)
<1>1. (NotYet => NoneRan)' /\ \A p \in Approvers : InTurn(p)'
  BY DEF RowsInv, Reverts, NotYet, Started, NoneRan, InTurn
<1>2. ASSUME NEW h \in Procs, h # a PROVE OfARow(h)'
  <2>1. OfARow(h) /\ proc'[h] = proc[h] /\ RowOf(h)' = RowOf(h)
    BY <1>2 DEF RowsInv, Reverts, RowOf
  <2>2. CASE Claims(h)
    <3>1. /\ RowOf(h) \in 1..Len(plan) /\ plan'[RowOf(h)] = plan[RowOf(h)]
      <4>1. RowOf(h) \in 1..Len(plan)
        BY <2>1, <2>2 DEF OfARow, Claims, Rolling
      <4>2. CASE plan' = plan
        BY <4>1, <4>2
      <4>3. CASE proc[h].row # proc[a].row
        <5>1. proc[h].row \in Nat /\ proc[a].row \in Nat /\ base \in Nat
          BY DEF TypeInv, ProcType, Request, DataType
        <5>2. RowOf(h) # RowOf(a)
          BY <4>3, <5>1 DEF RowOf
        <5>3. QED
          BY <4>1, <5>2 DEF Reverts
      <4>4. QED
        BY <1>2, <2>2, <4>1, <4>2, <4>3
    <3>2. QED
      BY <2>1, <2>2, <3>1 DEF OfARow, Claims, Reverts
  <2>3. CASE ~Claims(h)
    BY <2>1, <2>3 DEF OfARow, Claims, Reverts
  <2>4. QED
    BY <2>2, <2>3
<1>3. OneClaim'
  <2> SUFFICES ASSUME NEW g \in Procs, NEW h \in Procs,
                      Claims(g)', Claims(h)', proc'[g].row = proc'[h].row
               PROVE  g = h
    BY DEF OneClaim
  <2>1. CASE g # a /\ h # a
    BY <2>1 DEF RowsInv, OneClaim, Claims, Reverts
  <2>2. CASE g = a /\ h # a
    BY <2>2 DEF Claims, Reverts
  <2>3. CASE g # a /\ h = a
    BY <2>3 DEF Claims, Reverts
  <2>4. QED
    BY <2>1, <2>2, <2>3
<1>4. ASSUME NEW b \in Actions PROVE (Ran(b) \cup Confirmed(b))' = Ran(b) \cup Confirmed(b)
  BY DEF Ran, Confirmed, Reverts
<1>5. QED
  BY <1>1, <1>2, <1>3, <1>4 DEF RowsInv

\* Of a row that a rollback neither marks nor holds, what is taken back stays.
LEMMA StaysTakenBack ==
    ASSUME NEW a \in Procs, Reverts(a), NEW b \in Actions, NEW i \in TakenBack(b),
           plan'[i] = plan[i], Holding(a, i)' => Holding(a, i)
    PROVE  i \in TakenBack(b)'
<1>1. i \in Ran(b) /\ i \in Ran(b)'
  BY DEF TakenBack, Ran, Reverts
<1>2. \A h \in Procs : Holding(h, i)' => Holding(h, i)
  BY DEF Holding, Reverts
<1>3. QED
  BY <1>1, <1>2 DEF TakenBack

\* The rollback that has not been delivered yet.
LEMMA ClaimUndoes ==
    ASSUME DInv, UndoInv, DataType', NEW a \in Analysts,
           (\E i \in 1..Len(plan) : RollbackRead(a, i)) \/ RollbackClaim(a)
    PROVE  UndoInv'
<1>0. /\ TypeInv /\ ProcType /\ RowsInv /\ a \in Procs /\ OfARow(a) /\ InOrder(a)
      /\ Len(plan) \in Nat /\ proc[a] \in Request
      /\ \A i \in 1..Len(plan) : plan[i] \in Row
      /\ base \in Nat
  BY RowsThere DEF DInv, TypeInv, UndoInv, RowsInv, Procs, HandlerInv, ProcType, DataType
<1>1. UNCHANGED <<run, base, sent, undone>>
  BY DEF RollbackRead, RollbackClaim, data, history
<1>2. ASSUME NEW i \in 1..Len(plan), RollbackRead(a, i)
      PROVE  UndoInv'
  <2>1. /\ plan' = plan /\ proc[a].pc \notin Rolling
        /\ \A h \in Procs : h # a => proc'[h] = proc[h]
        /\ proc'[a].pc = "claim" /\ proc'[a].row = base + i
        /\ proc'[a].plan = <<plan[i].action>> /\ plan[i].status = "DONE"
    BY <1>0, <1>2 DEF RollbackRead, MayStart, InOrder, data, ProcType, Rolling
  <2>2. RowOf(a)' = i
    BY <1>0, <1>1, <2>1 DEF RowOf
  <2>3. OfARow(a)' /\ ~Claims(a)'
    BY <1>1, <2>1, <2>2 DEF OfARow, Claims
  <2>4. Reverts(a)
    BY <1>1, <2>1 DEF Reverts
  <2>5. /\ RowsInv'
        /\ \A b \in Actions : (Ran(b) \cup Confirmed(b))' = Ran(b) \cup Confirmed(b)
    BY <1>0, <2>1, <2>3, <2>4, RevertsRows
  <2>6. \A b \in Actions : TakenBack(b) \subseteq TakenBack(b)'
    <3>1. \A k : ~Holding(a, k)'
      BY <2>1 DEF Holding
    <3>2. QED
      BY <1>0, <2>1, <2>4, <3>1, StaysTakenBack
  <2>7. Balance'
    BY <1>0, <1>1, <2>5, <2>6, NothingConfirmed DEF UndoInv
  <2>8. QED
    BY <2>5, <2>7 DEF UndoInv
<1>3. CASE RollbackClaim(a) /\ ~Claimable(proc[a].row)
  <2>1. plan' = plan /\ Ends(a)
    BY <1>3 DEF RollbackClaim
  <2>2. /\ plan' = plan /\ proc'[a].pc = "idle"
        /\ \A h \in Procs : h # a => proc'[h] = proc[h]
    BY <1>0, <2>1 DEF Ends, ProcType, Idle
  <2>3. OfARow(a)' /\ ~Claims(a)'
    BY <2>2 DEF OfARow, Claims, Rolling
  <2>4. Reverts(a)
    BY <1>1, <2>2 DEF Reverts
  <2>5. /\ RowsInv'
        /\ \A b \in Actions : (Ran(b) \cup Confirmed(b))' = Ran(b) \cup Confirmed(b)
    BY <1>0, <2>2, <2>3, <2>4, RevertsRows
  <2>6. \A b \in Actions : TakenBack(b) \subseteq TakenBack(b)'
    <3>1. \A k : ~Holding(a, k)'
      BY <2>2 DEF Holding
    <3>2. QED
      BY <1>0, <2>2, <2>4, <3>1, StaysTakenBack
  <2>7. Balance'
    BY <1>0, <1>1, <2>5, <2>6, NothingConfirmed DEF UndoInv
  <2>8. QED
    BY <2>5, <2>7 DEF UndoInv
<1>4. CASE RollbackClaim(a) /\ Claimable(proc[a].row)
  <2>0. PICK k \in 1..Len(plan) : k = RowOf(a)
    BY <1>4 DEF Claimable, Holds, RowOf
  <2>1. /\ plan[k] \in Row /\ plan[k].status = "DONE"
        /\ proc[a].plan[1] = plan[k].action
        /\ plan[k].undo \notin {"DONE", "EXECUTING"} /\ proc[a].pc = "claim"
        /\ proc[a].row \in Nat /\ proc[a].row = base + k
    <3>1. proc[a].pc = "claim" /\ proc[a].row \in Nat
      BY <1>0, <1>4 DEF RollbackClaim, Request
    <3>2. k = proc[a].row - base
      BY <2>0 DEF RowOf
    <3>3. plan[k].undo \in {"AVAILABLE", "FAILED", "BLOCKED", "SIMULATED"}
      BY <1>4, <3>2 DEF Claimable, UndoOf
    <3>4. proc[a].row = base + k
      BY <1>0, <3>1, <3>2
    <3>5. /\ plan[k].status = "DONE" /\ proc[a].plan[1] = plan[k].action
      BY <1>0, <3>1, <3>2 DEF OfARow, Rolling, RowOf
    <3>6. QED
      BY <1>0, <3>1, <3>3, <3>4, <3>5
  <2>2. /\ \A h \in Procs : h # a => proc'[h] = proc[h]
        /\ proc'[a].pc = "undo" /\ proc'[a].row = proc[a].row /\ proc'[a].plan = proc[a].plan
    <3>1. Goes(a, "undo")
      BY <1>4 DEF RollbackClaim
    <3>2. QED
      BY <1>0, <3>1 DEF Goes, ProcType, Request
  <2>3. /\ plan' = [plan EXCEPT ![k].undo = "EXECUTING"]
        /\ Len(plan') = Len(plan)
    <3>1. plan' = [plan EXCEPT ![k].undo = "EXECUTING"]
      BY <1>4, <2>0 DEF RollbackClaim, RowOf
    <3>2. "EXECUTING" \in UndoStatus
      BY DEF UndoStatus
    <3>3. QED
      BY <1>0, <2>1, <3>1, <3>2, MarkedRow DEF TypeInv
  <2>4. /\ \A i \in 1..Len(plan) : /\ plan'[i].action = plan[i].action
                                   /\ plan'[i].status = plan[i].status
                                   /\ i = k \/ plan'[i] = plan[i]
        /\ plan'[k].undo = "EXECUTING"
    <3>1. QED
      BY <1>0, <2>1, <2>3 DEF Row, TypeInv, DataType
  <2>5. Reverts(a)
    BY <1>1, <2>0, <2>2, <2>3, <2>4 DEF Reverts
  <2>6. RowOf(a)' = k
    BY <1>1, <2>0, <2>2 DEF RowOf
  <2>7. OfARow(a)'
    <3>1. QED
      BY <2>1, <2>2, <2>3, <2>4, <2>6 DEF OfARow
  <2>8. \A h \in Procs \ {a} : Claims(h) => proc[h].row # proc[a].row
    BY <1>0, <2>0, <2>1 DEF RowsInv, OfARow, RowOf
  <2>9. /\ RowsInv'
        /\ \A b \in Actions : (Ran(b) \cup Confirmed(b))' = Ran(b) \cup Confirmed(b)
    BY <1>0, <2>2, <2>5, <2>7, <2>8, RevertsRows
  <2>10. ASSUME NEW b \in Actions, NEW i \in TakenBack(b) PROVE i \in TakenBack(b)'
    <3>1. i # k /\ i \in 1..Len(plan)
      BY <2>1 DEF TakenBack, Ran
    <3>2. ~Holding(a, i)'
      BY <1>0, <1>1, <2>1, <2>2, <3>1 DEF Holding
    <3>3. QED
      BY <1>0, <2>4, <2>5, <3>1, <3>2, StaysTakenBack
  <2>11. Balance'
    BY <1>0, <1>1, <2>9, <2>10, NothingConfirmed DEF UndoInv
  <2>12. QED
    BY <2>9, <2>11 DEF UndoInv
<1>5. QED
  BY <1>2, <1>3, <1>4

\* The executor's answer to a rollback.
LEMMA AnswerUndoes ==
    ASSUME DInv, UndoInv, DataType', NEW a \in Analysts, RollbackDeliver(a)
    PROVE  UndoInv'
<1>0. /\ TypeInv /\ ProcType /\ RowsInv /\ Balance /\ a \in Procs /\ OfARow(a) /\ OneClaim
      /\ Len(plan) \in Nat /\ proc[a] \in Request /\ proc[a].pc = "undo"
      /\ \A i \in 1..Len(plan) : plan[i] \in Row
      /\ base \in Nat
      /\ UNCHANGED <<run, base, sent, plan>>
  BY RowsThere DEF DInv, TypeInv, UndoInv, RowsInv, Procs, HandlerInv, ProcType, DataType,
                   RollbackDeliver, data
<1>1. PICK receipt \in Outcomes, one \in {0, 1} :
        /\ proc' = [proc EXCEPT ![a] = [proc[a] EXCEPT !.pc = "undone", !.receipt = receipt]]
        /\ undone' = [undone EXCEPT ![proc[a].plan[1]] = @ + one]
        /\ IF receipt = "DONE" THEN one = 1 ELSE one = 0
  <2>1. PICK receipt \in Outcomes :
          /\ proc' = [proc EXCEPT ![a].pc = "undone", ![a].receipt = receipt]
          /\ undone' = [undone EXCEPT ![proc[a].plan[1]] =
                                  @ + (IF receipt = "DONE" THEN 1 ELSE 0)]
    BY DEF RollbackDeliver
  <2>2. CASE receipt = "DONE"
    BY <2>1, <2>2
  <2>3. CASE receipt # "DONE"
    BY <2>1, <2>3
  <2>4. QED
    BY <2>2, <2>3
<1>2. /\ \A h \in Procs : h # a => proc'[h] = proc[h]
      /\ proc'[a].pc = "undone" /\ proc'[a].row = proc[a].row /\ proc'[a].plan = proc[a].plan
      /\ proc'[a].receipt = receipt
  BY <1>0, <1>1 DEF ProcType, Request
<1>3. PICK k \in 1..Len(plan), c \in Actions :
         /\ k = RowOf(a) /\ plan[k].status = "DONE" /\ plan[k].undo = "EXECUTING"
         /\ c = plan[k].action /\ c = proc[a].plan[1]
  <2> DEFINE i == RowOf(a)
  <2>1. /\ i \in 1..Len(plan) /\ plan[i].status = "DONE" /\ plan[i].undo = "EXECUTING"
        /\ proc[a].plan[1] = plan[i].action
    BY <1>0 DEF OfARow, Rolling, Claims
  <2>2. plan[i].action \in Actions
    BY <1>0, <2>1 DEF Row
  <2>3. QED
    BY <2>1, <2>2
<1>4. Reverts(a)
  BY <1>0, <1>2 DEF Reverts
<1>5. OfARow(a)'
  BY <1>0, <1>2 DEF OfARow, RowOf, Claims, Rolling
<1>6. /\ RowsInv'
      /\ \A b \in Actions : (Ran(b) \cup Confirmed(b))' = Ran(b) \cup Confirmed(b)
  <2>1. \A h \in Procs \ {a} : Claims(h) => proc[h].row # proc[a].row
    BY <1>0 DEF OneClaim, Claims
  <2>2. QED
    BY <1>0, <1>2, <1>4, <1>5, <2>1, RevertsRows
<1>7. \A b \in Actions : TakenBack(b) \subseteq TakenBack(b)'
  <2>1. \A i : Holding(a, i)' => Holding(a, i)
    BY <1>0, <1>2 DEF Holding
  <2>2. QED
    BY <1>0, <1>4, <2>1, StaysTakenBack
<1>8. ASSUME receipt = "DONE" PROVE k \in TakenBack(c)' /\ k \notin TakenBack(c)
  <2>1. proc[a].row \in Nat /\ proc[a].row = base + k
    <3>1. proc[a].row \in Nat
      BY <1>0 DEF Request
    <3>2. QED
      BY <1>0, <1>3, <3>1 DEF RowOf
  <2>2. Holding(a, k)
    BY <1>0, <2>1 DEF Holding
  <2>3. k \notin TakenBack(c)
    BY <1>0, <1>3, <2>2 DEF TakenBack
  <2>4. ASSUME NEW h \in Procs, Holding(h, k)' PROVE FALSE
    <3>1. h # a
      BY <1>2, <1>8, <2>4 DEF Holding
    <3>2. Claims(h) /\ proc[h].row = proc[a].row
      BY <1>0, <1>2, <2>1, <2>4, <3>1 DEF Holding, Claims
    <3>3. QED
      BY <1>0, <3>1, <3>2 DEF OneClaim, Claims
  <2>5. k \in TakenBack(c)'
    <3>1. k \in Ran(c)' /\ plan'[k].undo = "EXECUTING"
      BY <1>0, <1>3 DEF Ran
    <3>2. QED
      BY <2>4, <3>1 DEF TakenBack
  <2>6. QED
    BY <2>3, <2>5
<1>9. ASSUME NEW b \in Actions
      PROVE  /\ Cardinality((Ran(b) \cup Confirmed(b))') <= sent'[b]
             /\ undone'[b] <= Cardinality(TakenBack(b)')
  <2>0. Cardinality((Ran(b) \cup Confirmed(b))') <= sent'[b]
    <3>1. (Ran(b) \cup Confirmed(b))' = Ran(b) \cup Confirmed(b) /\ sent'[b] = sent[b]
      BY <1>0, <1>6
    <3>2. Cardinality(Ran(b) \cup Confirmed(b)) <= sent[b]
      BY <1>0 DEF Balance
    <3>3. QED
      BY <3>1, <3>2
  <2>1. /\ Cardinality(Ran(b) \cup Confirmed(b)) <= sent[b]
        /\ undone[b] <= Cardinality(TakenBack(b)) /\ undone[b] \in Nat
    BY <1>0 DEF Balance, TypeInv, HistoryType
  <2>2. /\ TakenBack(b) \in SUBSET (1..Len(plan)) /\ TakenBack(b)' \in SUBSET (1..Len(plan))
        /\ TakenBack(b) \subseteq TakenBack(b)'
    BY <1>0, <1>7 DEF TakenBack, Ran
  <2>3. /\ Cardinality(TakenBack(b)) <= Cardinality(TakenBack(b)')
        /\ Cardinality(TakenBack(b)) \in Nat /\ Cardinality(TakenBack(b)') \in Nat
    BY <1>0, <2>2, RowsCount
  <2>4. CASE receipt = "DONE" /\ b = c
    <3>1. undone'[b] = undone[b] + 1
      BY <1>0, <1>1, <1>3, <2>4 DEF TypeInv, HistoryType
    <3>2. Cardinality(TakenBack(b)) # Cardinality(TakenBack(b)')
      <4> DEFINE S == TakenBack(b)
                 T == TakenBack(b)'
      <4>1. S \subseteq T /\ S # T
        BY <1>8, <2>2, <2>4
      <4>2. IsFiniteSet(T)
        BY <1>0, <2>2, RowsCount
      <4> HIDE DEF S, T
      <4>3. Cardinality(S) # Cardinality(T)
        BY <4>1, <4>2, FS_Subset
      <4>4. QED
        BY <4>3 DEF S, T
    <3>3. QED
      BY <2>0, <2>1, <2>3, <3>1, <3>2
  <2>5. CASE ~(receipt = "DONE" /\ b = c)
    <3>1. undone'[b] = undone[b]
      BY <1>0, <1>1, <1>3, <2>1, <2>5 DEF TypeInv, HistoryType
    <3>2. QED
      BY <2>0, <2>1, <2>3, <3>1
  <2>6. QED
    BY <2>4, <2>5
<1>10. Balance'
  BY <1>9 DEF Balance
<1>11. QED
  BY <1>6, <1>10 DEF UndoInv

\* The receipt of a rollback is written on its row.
LEMMA ReceiptUndoes ==
    ASSUME DInv, UndoInv, DataType', NEW a \in Analysts, RollbackRecord(a)
    PROVE  UndoInv'
<1>0. /\ TypeInv /\ ProcType /\ DataType /\ RowsInv /\ a \in Procs /\ OfARow(a) /\ OneClaim
      /\ Len(plan) \in Nat /\ proc[a] \in Request /\ proc[a].pc = "undone"
      /\ proc[a].receipt \in Receipts /\ base \in Nat
      /\ UNCHANGED <<run, base, sent, undone>>
  BY RowsThere DEF DInv, TypeInv, UndoInv, RowsInv, Procs, ProcType, DataType,
                   RollbackRecord, history
<1>1. PICK k \in 1..Len(plan) : /\ k = RowOf(a) /\ plan[k].status = "DONE"
                                /\ plan[k].undo = "EXECUTING"
  BY <1>0 DEF OfARow, Rolling, Claims
<1>2. proc[a].row \in Nat /\ proc[a].row = base + k
  <2>1. proc[a].row \in Nat
    BY <1>0 DEF Request
  <2>2. QED
    BY <1>0, <1>1, <2>1 DEF RowOf
<1>3. /\ \A h \in Procs : h # a => proc'[h] = proc[h]
      /\ proc'[a].pc \in {"reopen", "idle"}
  <2>1. Goes(a, "reopen") \/ Ends(a)
    BY DEF RollbackRecord
  <2>2. CASE Goes(a, "reopen")
    BY <1>0, <2>2 DEF Goes, ProcType, Request
  <2>3. CASE Ends(a)
    BY <1>0, <2>3 DEF Ends, ProcType, Idle
  <2>4. QED
    BY <2>1, <2>2, <2>3
<1>4. plan' = [plan EXCEPT ![k].undo = proc[a].receipt] /\ Len(plan') = Len(plan)
  <2>1. plan' = [plan EXCEPT ![k].undo = proc[a].receipt]
    BY <1>1 DEF RollbackRecord, Holds, RowOf
  <2>2. proc[a].receipt \in UndoStatus
    BY <1>0 DEF UndoStatus
  <2>3. QED
    BY <1>0, <2>1, <2>2, MarkedRow
<1>5. /\ \A i \in 1..Len(plan) : /\ plan'[i].action = plan[i].action
                                 /\ plan'[i].status = plan[i].status
                                 /\ i = k \/ plan'[i] = plan[i]
      /\ plan'[k].undo = proc[a].receipt
  <2>1. \A i \in 1..Len(plan) : plan[i] \in Row
    BY <1>0, RowsThere
  <2>2. QED
    BY <1>0, <1>4, <2>1 DEF Row, DataType
<1>6. Reverts(a)
  BY <1>0, <1>1, <1>3, <1>4, <1>5 DEF Reverts
<1>7. OfARow(a)' /\ ~Claims(a)'
  BY <1>3 DEF OfARow, Claims, Rolling
<1>8. /\ RowsInv'
      /\ \A b \in Actions : (Ran(b) \cup Confirmed(b))' = Ran(b) \cup Confirmed(b)
  <2>1. \A h \in Procs \ {a} : Claims(h) => proc[h].row # proc[a].row
    BY <1>0 DEF OneClaim, Claims
  <2>2. QED
    BY <1>0, <1>6, <1>7, <2>1, RevertsRows
<1>9. ASSUME NEW b \in Actions, NEW i \in TakenBack(b) PROVE i \in TakenBack(b)'
  <2>1. i \in 1..Len(plan) /\ ~Holding(a, i)'
    BY <1>3 DEF TakenBack, Ran, Holding
  <2>2. CASE i # k
    BY <1>0, <1>5, <1>6, <2>1, <2>2, StaysTakenBack
  <2>3. CASE i = k
    <3>1. ~Holding(a, k)
      BY <1>0, <1>1, <2>3 DEF TakenBack
    <3>2. proc[a].receipt = "DONE"
      BY <1>0, <1>2, <3>1 DEF Holding
    <3>3. i \in Ran(b)'
      BY <1>4, <1>5, <2>1 DEF TakenBack, Ran
    <3>4. QED
      BY <1>5, <2>3, <3>2, <3>3 DEF TakenBack
  <2>4. QED
    BY <2>2, <2>3
<1>10. Balance'
  BY <1>0, <1>8, <1>9, NothingConfirmed DEF UndoInv
<1>11. QED
  BY <1>8, <1>10 DEF UndoInv

\* A claim the process died with may or may not have been carried out: it
\* counts as taken back, and nobody can claim the row again.
LEMMA CrashUndoes ==
    ASSUME DInv, UndoInv, DataType', Crash
    PROVE  UndoInv'
<1>0. TypeInv /\ RowsInv
  BY DEF DInv, UndoInv
<1>1. /\ UNCHANGED <<plan, base, sent, undone>>
      /\ \A h \in Procs : proc'[h].pc = "idle"
  BY DEF Crash, data, Idle
<1>2. \A p \in Approvers : /\ run'[p].pc \in {"none", "over", "lost"}
                           /\ run'[p].pc = "none" => run[p].pc = "none"
  BY <1>0 DEF Crash, TypeInv, RunType, Execution
<1>3. RowsInv'
  <2>1. (NotYet => NoneRan)'
    BY <1>0, <1>1, <1>2 DEF RowsInv, NotYet, Started, NoneRan
  <2>2. QED
    BY <1>1, <1>2, <2>1 DEF RowsInv, InTurn, OfARow, OneClaim, Claims, Rolling
<1>4. ASSUME NEW a \in Actions
      PROVE  /\ (Ran(a) \cup Confirmed(a))' \subseteq Ran(a) \cup Confirmed(a)
             /\ TakenBack(a) \subseteq TakenBack(a)'
  <2>1. Ran(a)' = Ran(a) /\ Confirmed(a)' = {}
    BY <1>1, <1>2 DEF Ran, Confirmed
  <2>2. \A h \in Procs : \A i : ~Holding(h, i)'
    BY <1>1 DEF Holding
  <2>3. QED
    BY <1>1, <2>1, <2>2 DEF TakenBack
<1>5. Balance'
  BY <1>0, <1>1, <1>4, NothingConfirmed DEF UndoInv
<1>6. QED
  BY <1>3, <1>5 DEF UndoInv

\* Every step keeps it.
LEMMA UndoStep ==
    ASSUME Tier2Assumption, DInv, DInv', UndoInv, [Next]_vars
    PROVE  UndoInv'
<1>0. TypeInv /\ DataType'
  BY DEF DInv, TypeInv
<1>1. CASE UNCHANGED vars \/ MarkContained
  <2>1. UNCHANGED <<plan, base, proc, run, sent, undone>>
    BY <1>1 DEF MarkContained, vars, data, history
  <2>2. Aside
    BY <2>1 DEF Aside, HandlersAside
  <2>3. QED
    BY <1>0, <2>2, AsideKeeps
<1>2. CASE Crash
  BY <1>0, <1>2, CrashUndoes
<1>3. ASSUME NEW p \in Procs,
             \/ \E new \in Proposals : AnalyseFirst(p, new) \/ AnalyseAgain(p, new)
             \/ AnalysisStep(p) \/ Ensure(p) \/ ProposalStep(p)
             \/ ApproveRead(p) \/ RejectRead(p) \/ RejectWrite(p) \/ EditRead(p) \/ EditWrite(p)
             \/ ReopenAlert(p) \/ Merge(p)
      PROVE  UndoInv'
  BY <1>0, <1>3, StepsAside, AsideKeeps
<1>4. ASSUME NEW p \in Approvers, ApproveWrite(p) \/ RunStep(p)
      PROVE  UndoInv'
  BY <1>0, <1>4, ApprovalUndoes, IdlePlanUndoes, RowUndoes, DeliveryUndoes DEF RunStep
<1>5. ASSUME NEW a \in Analysts,
             \/ \E i \in 1..Len(plan) : RollbackRead(a, i)
             \/ RollbackClaim(a) \/ RollbackDeliver(a) \/ RollbackRecord(a)
      PROVE  UndoInv'
  BY <1>0, <1>5, ClaimUndoes, AnswerUndoes, ReceiptUndoes
<1>6. CASE Next /\ ~MarkContained /\ ~Crash
  <2>1. ASSUME NEW x \in Analysers, Analyse(x) PROVE UndoInv'
    BY <1>3, <2>1 DEF Analyse, Procs
  <2>2. ASSUME NEW a \in Analysts, Analyst(a) PROVE UndoInv'
    BY <1>3, <1>5, <2>2 DEF Analyst, RollbackStep, Procs
  <2>3. ASSUME NEW p \in Approvers, ProposalStep(p) \/ ApproveWrite(p) \/ RunStep(p) PROVE UndoInv'
    BY <1>3, <1>4, <2>3 DEF Procs, Approvers
  <2>4. ASSUME NEW m \in Mergers, Merge(m) PROVE UndoInv'
    BY <1>3, <2>4 DEF Procs
  <2>5. QED
    BY <1>6, <2>1, <2>2, <2>3, <2>4 DEF Next
<1>7. QED
  BY <1>1, <1>2, <1>6

\* No action is taken back more often than the executor confirmed it, whichever
\* analysts ask at the same time and wherever the process dies between a claim
\* and its receipt (execution.py: the conditional UPDATE that claims a rollback).
THEOREM TakesBackOnlyWhatRan ==
    ASSUME DecisionsDoNotOverlap PROVE Spec => []UndoesOnlyWhatRan
<1>1. Tier2Assumption /\ DInv /\ DInv' /\ UndoInv /\ [Next]_vars => UndoInv'
  BY UndoStep
<1>2. DInv /\ UndoInv => UndoesOnlyWhatRan
  BY Balanced DEF DInv, UndoInv
<1>3. QED
  BY <1>1, <1>2, UndoInit, DInvCorrect, Tier2Assumption, PTL DEF Spec

=============================================================================
