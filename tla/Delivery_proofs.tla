--------------------------- MODULE Delivery_proofs ---------------------------
(***************************************************************************)
(* What deliver_action guarantees for any number of attempts, rollbacks    *)
(* and deaths of the process.                                              *)
(***************************************************************************)
EXTENDS Delivery, TLAPS

\* What is known of the executor from the outside: a reply or a receipt that
\* says done is one of an operation that took effect, a rollback is only ever
\* asked for after the action took effect, and the keys remembered are those
\* of the operations that did.  The copy a call waits on is of its operation,
\* and a call holds a receipt exactly when it is over.
Known ==
    /\ \A op \in Ops : <<op>> \in keys <=> effects[op] > 0
    /\ call.reply = "done" => effects[call.op] > 0
    /\ call.receipt = "DONE" => effects[call.op] > 0
Ordered ==
    /\ \A m \in wire : /\ m.key = <<m.op>>
                       /\ m.op = "rollback" => effects["execute"] > 0
    /\ call.op = "rollback" => effects["execute"] > 0
    /\ effects["rollback"] > 0 => effects["execute"] > 0
Matched ==
    /\ \A m \in wire : m.copy <= copies
    /\ call.pc = "await" => \A m \in wire : m.copy = call.copy => m.op = call.op
Told == IF call.pc = "record" THEN call.receipt \in Receipts ELSE call.receipt = "none"
Free == Honoured /\ effects["rollback"] > 0 => ~contained

DeliveryInv == /\ TypeOK /\ Known /\ Ordered /\ Matched /\ Told
               /\ DoneIsObserved /\ CarriedOutOnce /\ Free

-----------------------------------------------------------------------------
\* A copy that is sent carries the key of its operation.
LEMMA KeyOfOperation ==
    ASSUME NEW op, NEW copy PROVE Key(op, copy) = <<op>>
  BY DEF Key

\* Two operations have the same key only if they are the same.
LEMMA KeysDiffer ==
    ASSUME NEW o, NEW p, <<o>> = <<p>> PROVE o = p
  OBVIOUS

LEMMA DeliveryInit == ASSUME Init PROVE DeliveryInv
<1>1. NoCall \in Call /\ NoCall.op = "execute" /\ NoCall.pc = "idle"
      /\ NoCall.reply = "none" /\ NoCall.receipt = "none"
  BY DEF NoCall, Call, Ops
<1>2. TypeOK
  BY <1>1 DEF Init, TypeOK, Call, Ops, RowStatus, UndoStatus, Receipts, Replies
<1>3. \A op \in Ops : effects[op] = 0
  BY DEF Init
<1>4. "execute" \in Ops /\ "rollback" \in Ops
  BY DEF Ops
<1>5. Known /\ Ordered /\ Matched /\ Told
  BY <1>1, <1>3, <1>4 DEF Init, Known, Ordered, Matched, Told
<1>6. DoneIsObserved /\ CarriedOutOnce /\ Free
  BY <1>3, <1>4 DEF Init, DoneIsObserved, CarriedOutOnce, Free
<1> QED BY <1>2, <1>5, <1>6 DEF DeliveryInv

\* A step of deliver_action that sends nothing: it only moves the call on,
\* and reports success only where the executor did.
LEMMA CallMoves ==
    ASSUME DeliveryInv, UNCHANGED <<row, wire, copies, executor, dryRun, rollbacks, crashes>>,
           call' \in Call, call'.op = call.op, call'.pc # "await", call'.reply = call.reply,
           IF call'.pc = "record" THEN call'.receipt \in Receipts ELSE call'.receipt = "none",
           call'.receipt = "DONE" => call.reply = "done"
    PROVE  DeliveryInv'
<1>1. UNCHANGED <<keys, effects, contained>>
  BY DEF executor
<1>2. TypeOK'
  BY <1>1 DEF DeliveryInv, TypeOK
<1>3. Known' /\ Ordered' /\ Matched' /\ Told'
  BY <1>1 DEF DeliveryInv, Known, Ordered, Matched, Told
<1>4. DoneIsObserved' /\ CarriedOutOnce' /\ Free'
  BY <1>1 DEF DeliveryInv, DoneIsObserved, CarriedOutOnce, Free
<1> QED BY <1>2, <1>3, <1>4 DEF DeliveryInv

\* The process touches the executor only through the wire.
LEMMA ClientMoves ==
    ASSUME DeliveryInv, Dispatch \/ AskRollback \/ ClientStep \/ Crash
    PROVE  DeliveryInv'
<1> USE DEF DeliveryInv
<1>1. CASE Dispatch
  BY <1>1 DEF Dispatch, executor, TypeOK, Known, Ordered, Matched, Told, Free, DoneIsObserved,
              CarriedOutOnce, Calling, Call, Ops, RowStatus, UndoStatus, Receipts, Request, Keys
<1>2. CASE AskRollback
  BY <1>2 DEF AskRollback, executor, TypeOK, Known, Ordered, Matched, Told, Free, DoneIsObserved,
              CarriedOutOnce, Calling, Call, Ops, RowStatus, UndoStatus, Receipts, Request, Keys
<1>3. CASE Record
  <2>1. /\ UNCHANGED <<wire, copies, keys, effects, contained, dryRun, rollbacks, crashes>>
        /\ call' = NoCall
    BY <1>3 DEF Record, executor
  <2>2. /\ NoCall \in Call /\ NoCall.op = "execute" /\ NoCall.pc = "idle"
        /\ NoCall.reply = "none" /\ NoCall.receipt = "none"
    BY DEF NoCall, Call, Ops
  <2>3. call.op \in Ops /\ call.receipt \in Receipts \cup {"none"}
    BY DEF TypeOK, Call
  <2>4. call.receipt \in Receipts
    BY <1>3, <2>3 DEF Record, Told
  <2>5. row' \in [status : RowStatus, undo : UndoStatus] /\ DoneIsObserved'
    <3>1. CASE call.op = "execute"
      BY <1>3, <2>1, <2>4, <3>1 DEF Record, TypeOK, RowStatus, UndoStatus, Receipts,
                                    DoneIsObserved, Known
    <3>2. CASE call.op = "rollback"
      BY <1>3, <2>1, <2>4, <3>2 DEF Record, TypeOK, RowStatus, UndoStatus, Receipts,
                                    DoneIsObserved, Known
    <3> QED BY <2>3, <3>1, <3>2 DEF Ops
  <2>6. TypeOK'
    BY <2>1, <2>2, <2>5 DEF TypeOK
  <2>7. Known' /\ Ordered' /\ Matched' /\ Told' /\ CarriedOutOnce' /\ Free'
    BY <2>1, <2>2 DEF Known, Ordered, Matched, Told, CarriedOutOnce, Free
  <2> QED BY <2>5, <2>6, <2>7
<1>4. CASE Refuse \/ Preview \/ GoAhead \/ CannotSend
  <2>1. /\ UNCHANGED <<row, wire, copies, executor, dryRun, rollbacks, crashes>>
        /\ call' \in Call /\ call'.op = call.op /\ call'.pc # "await"
        /\ call'.reply = call.reply
        /\ IF call'.pc = "record" THEN call'.receipt \in Receipts ELSE call'.receipt = "none"
    BY <1>4 DEF Refuse, Preview, GoAhead, CannotSend, Receipt, TypeOK, Call, Receipts, Told
  <2>2. call'.receipt # "DONE"
    BY <1>4 DEF Refuse, Preview, GoAhead, CannotSend, Receipt, TypeOK, Call, Told
  <2> QED BY <2>1, <2>2, CallMoves
<1>5. CASE Send
  <2> DEFINE m == [op |-> call.op, copy |-> copies + 1, key |-> <<call.op>>]
  <2>1. wire' = wire \cup {m}
    BY <1>5, KeyOfOperation DEF Send
  <2>2. m \in Request /\ call.op \in Ops
    BY DEF TypeOK, Call, Request, Keys
  <2>3. UNCHANGED <<row, keys, effects, contained, dryRun, rollbacks, crashes>>
    BY <1>5 DEF Send, executor
  <2>4. /\ call' \in Call /\ copies' \in Nat
        /\ call'.op = call.op /\ call'.reply = "none" /\ call'.receipt = call.receipt
        /\ call.pc = "attempt" /\ call'.pc = "await"
    <3>1. call.attempt + 1 \in Nat /\ copies + 1 \in Nat
      BY DEF TypeOK, Call
    <3>2. call' = [call EXCEPT !.pc = "await", !.attempt = call.attempt + 1,
                               !.copy = copies + 1, !.reply = "none"]
      BY <1>5 DEF Send
    <3> QED BY <1>5, <3>1, <3>2 DEF Send, TypeOK, Call
  <2>8. TypeOK'
    BY <2>1, <2>2, <2>3, <2>4 DEF TypeOK
  <2>5. Known' /\ Told' /\ DoneIsObserved' /\ CarriedOutOnce' /\ Free'
    BY <2>3, <2>4 DEF Known, Told, DoneIsObserved, CarriedOutOnce, Free
  <2>6. Ordered'
    BY <2>1, <2>3, <2>4 DEF Ordered
  <2>7. Matched'
    <3>1. copies' = copies + 1 /\ call'.copy = copies + 1 /\ copies \in Nat
      BY <1>5 DEF Send, TypeOK, Call
    <3>2. \A x \in wire : x.copy \in Nat /\ x.copy < copies + 1
      BY <3>1 DEF Matched, TypeOK, Request
    <3>3. m.copy = copies + 1 /\ m.op = call.op
      OBVIOUS
    <3> QED BY <2>1, <2>4, <3>1, <3>2, <3>3 DEF Matched
  <2> QED BY <2>5, <2>6, <2>7, <2>8
<1>6. CASE Answered \/ Unanswered
  <2>1. /\ UNCHANGED <<row, wire, copies, executor, dryRun, rollbacks, crashes>>
        /\ call' \in Call /\ call'.op = call.op /\ call'.pc # "await"
        /\ call'.reply = call.reply
        /\ IF call'.pc = "record" THEN call'.receipt \in Receipts ELSE call'.receipt = "none"
    BY <1>6 DEF Answered, Unanswered, Receipt, TypeOK, Call, Receipts, Told
  <2>2. call'.receipt = "DONE" => call.reply = "done"
    BY <1>6 DEF Answered, Unanswered, Receipt, TypeOK, Call, Told
  <2> QED BY <2>1, <2>2, CallMoves
<1>7. CASE Crash
  BY <1>7 DEF Crash, executor, TypeOK, Known, Ordered, Matched, Told, Free, DoneIsObserved,
              CarriedOutOnce, NoCall, Calling, Call, Ops, Receipts, Replies
<1> QED BY <1>1, <1>2, <1>3, <1>4, <1>5, <1>6, <1>7 DEF ClientStep

-----------------------------------------------------------------------------
\* The executor takes one copy off the wire.
LEMMA ArrivalStep ==
    ASSUME DeliveryInv, NEW m \in wire, CarryOut(m) \/ Decline(m) \/ Recognise(m)
    PROVE  DeliveryInv'
<1> USE DEF DeliveryInv
<1>1. /\ UNCHANGED <<row, copies, dryRun, rollbacks, crashes>> /\ wire' \subseteq wire
  BY DEF CarryOut, Decline, Recognise, executor
<1>2. PICK reply \in Replies : Replied(m, reply)
  BY DEF CarryOut, Decline, Recognise, Replies
<1>3. /\ call' \in Call /\ call.op \in Ops /\ call'.copy = call.copy
      /\ call'.pc = call.pc /\ call'.op = call.op /\ call'.receipt = call.receipt
      /\ call'.reply \in {call.reply, reply}
      /\ call'.reply = call.reply \/ m.op = call.op
  BY <1>2 DEF TypeOK, Replied, Call, Replies, Matched
<1>4. m \in Request /\ m.op \in Ops /\ m.key = <<m.op>>
  BY DEF TypeOK, Request, Ordered
<1>5. Matched'
  BY <1>1, <1>3 DEF Matched
<1>8. Told'
  BY <1>3 DEF Told
<1>6. CASE CarryOut(m)
  <2>1. effects' = [effects EXCEPT ![m.op] = effects[m.op] + 1]
    BY <1>6 DEF CarryOut
  <2>2. keys' = keys \cup {<<m.op>>} /\ (Honoured => <<m.op>> \notin keys)
    BY <1>4, <1>6 DEF CarryOut
  <2>3. contained' \in BOOLEAN /\ (contained' <=> m.op = "execute")
    BY <1>6 DEF CarryOut
  <2>4. /\ effects \in [Ops -> Nat] /\ effects' \in [Ops -> Nat]
        /\ effects'[m.op] = effects[m.op] + 1
        /\ \A op \in Ops : op # m.op => effects'[op] = effects[op]
    <3>1. effects \in [Ops -> Nat] /\ effects[m.op] \in Nat /\ effects[m.op] + 1 \in Nat
      BY <1>4 DEF TypeOK
    <3> QED BY <1>4, <2>1, <3>1
  <2>5. TypeOK'
    <3>1. <<m.op>> \in Keys
      BY <1>4 DEF Keys
    <3>2. keys' \subseteq Keys
      BY <2>2, <3>1 DEF TypeOK
    <3> QED BY <1>1, <1>3, <2>3, <2>4, <3>2 DEF TypeOK
  <2>6. \A op \in Ops : effects[op] > 0 => effects'[op] > 0
    BY <1>4, <2>4
  <2>7. Known'
    <3>1. ASSUME NEW op \in Ops
          PROVE  <<op>> \in keys' <=> effects'[op] > 0
      <4>1. CASE op = m.op
        BY <1>4, <2>2, <2>4, <4>1
      <4>2. CASE op # m.op
        <5>1. <<op>> \in keys' <=> <<op>> \in keys
          BY <2>2, <4>2, KeysDiffer
        <5>2. effects'[op] = effects[op]
          BY <2>4, <4>2
        <5> QED BY <5>1, <5>2 DEF Known
      <4> QED BY <4>1, <4>2
    <3>2. effects'[m.op] > 0
      BY <1>4, <2>4
    <3> QED BY <1>3, <2>6, <3>1, <3>2 DEF Known
  <2>8. Honoured => effects[m.op] = 0
    BY <1>4, <2>2, <2>4 DEF Known
  <2>9. CarriedOutOnce'
    BY <2>4, <2>8 DEF CarriedOutOnce
  <2>10. DoneIsObserved'
    BY <1>1, <2>6 DEF DoneIsObserved, Ops
  <2>11. Ordered'
    BY <1>1, <1>3, <1>4, <2>4, <2>6 DEF Ordered, Ops
  <2>12. Free'
    <3>1. CASE m.op = "execute"
      <4>1. "rollback" \in Ops /\ effects'["rollback"] = effects["rollback"]
        BY <2>4, <3>1 DEF Ops
      <4>2. Honoured => ~(effects["rollback"] > 0)
        BY <2>4, <2>8, <3>1 DEF Ordered
      <4> QED BY <4>1, <4>2 DEF Free
    <3>2. CASE m.op = "rollback"
      BY <2>3, <3>2 DEF Free
    <3> QED BY <1>4, <3>1, <3>2 DEF Ops
  <2> QED BY <1>5, <1>8, <2>5, <2>7, <2>9, <2>10, <2>11, <2>12
<1>7. CASE Decline(m) \/ Recognise(m)
  <2>1. UNCHANGED <<keys, effects, contained>>
    BY <1>7 DEF Decline, Recognise, executor
  <2>2. call'.reply = "done" => call'.reply = call.reply \/ effects[call.op] > 0
    <3>1. CASE Decline(m)
      BY <3>1 DEF Decline, Replied, TypeOK, Call
    <3>2. CASE Recognise(m)
      BY <1>3, <1>4, <3>2 DEF Recognise, Known
    <3> QED BY <1>7, <3>1, <3>2
  <2>3. TypeOK'
    BY <1>1, <1>3, <2>1 DEF TypeOK
  <2>4. Known'
    BY <1>3, <2>1, <2>2 DEF Known
  <2>5. Ordered' /\ Free' /\ DoneIsObserved' /\ CarriedOutOnce'
    BY <1>1, <1>3, <2>1 DEF Ordered, Free, DoneIsObserved, CarriedOutOnce
  <2> QED BY <1>5, <1>8, <2>3, <2>4, <2>5
<1> QED BY <1>6, <1>7

LEMMA DeliveryStep == ASSUME DeliveryInv, [Next]_vars PROVE DeliveryInv'
<1>1. CASE Dispatch \/ AskRollback \/ ClientStep \/ Crash
  BY <1>1, ClientMoves
<1>2. CASE ExecutorStep
  BY <1>2, ArrivalStep DEF ExecutorStep
<1>3. CASE UNCHANGED vars
  BY <1>3 DEF vars, client, executor, DeliveryInv, TypeOK, Known, Ordered, Matched, Told, Free,
              DoneIsObserved, CarriedOutOnce
<1> QED BY <1>1, <1>2, <1>3 DEF Next

-----------------------------------------------------------------------------
\* The inductive invariant holds in every run of the dispatcher.
THEOREM DeliveryCorrect == Spec => []DeliveryInv
  BY DeliveryInit, DeliveryStep, PTL DEF Spec

\* Every variable stays in its domain.
THEOREM TypeCorrect == Spec => []TypeOK
<1>1. DeliveryInv => TypeOK
  BY DEF DeliveryInv
<1> QED BY <1>1, DeliveryCorrect, PTL

\* DONE is only ever reported of an operation the executor carried out,
\* whether or not it honours the key.
THEOREM DoneWasObserved == Spec => []DoneIsObserved
<1>1. DeliveryInv => DoneIsObserved
  BY DEF DeliveryInv
<1> QED BY <1>1, DeliveryCorrect, PTL

\* An executor that honours the key acts once per operation.
THEOREM ActsOnce == Spec => []CarriedOutOnce
<1>1. DeliveryInv => CarriedOutOnce
  BY DEF DeliveryInv
<1> QED BY <1>1, DeliveryCorrect, PTL

\* A lifted containment stays lifted, whatever copies are still on their way.
THEOREM StaysLifted == Spec => []LiftedStaysLifted
<1>1. DeliveryInv => LiftedStaysLifted
  BY DEF DeliveryInv, Free, DoneIsObserved, LiftedStaysLifted
<1> QED BY <1>1, DeliveryCorrect, PTL

=============================================================================
