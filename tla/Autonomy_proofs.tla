---------------------------- MODULE Autonomy_proofs ----------------------------
(***************************************************************************)
(* Autonomy, for any situations, features, plans, files and settings of    *)
(* the gate: what the autopilot approved is earned by people (from the     *)
(* inductive invariant EarnedInv), and when retrieval leaves nothing out   *)
(* (Whole) no contradicted or reversed verdict is executed again.  What it *)
(* clears is within the guards if plans say what they mean (PlainlySpoken).*)
(***************************************************************************)
EXTENDS Autonomy, FiniteSetTheorems, WellFoundedInduction, TLAPS

-----------------------------------------------------------------------------
(* Types                                                                   *)

LEMMA Numbers ==
    /\ MinPrecedents \in Nat /\ CandidatePool \in Nat /\ Take \in Nat
    /\ StalenessDays \in Nat /\ MaxDay \in Nat
  BY AutonomyAssumption

LEMMA TypeInit == ASSUME Init PROVE TypeOK
<1>1. AnyVerdict \in Verdicts
  BY AutonomyAssumption DEF AnyVerdict
<1>2. 0 \in Days
  BY Numbers DEF Days
<1>3. Nothing \in Decision /\ Unlabelled \in Label /\ Idle \in Pass
  BY <1>1, <1>2 DEF Nothing, Unlabelled, Idle, Decision, Label, Pass, Statuses, Approvers, Outcomes
<1>4. QED
  BY <1>2, <1>3 DEF Init, TypeOK

\* Whatever retrieval returns, the gate counts decisions of the corpus that
\* people decided on the same verdict, and that are not too old.
LEMMA BasisSound ==
    ASSUME NEW s \in Situations, NEW pool \in Pools(s), NEW cases \in Retrieved(s, pool), NEW verdict
    PROVE  /\ cases \subseteq Corpus(s)
           /\ Basis(cases, verdict) \subseteq Situations
           /\ \A t \in Basis(cases, verdict) :
                /\ t # s /\ PersonDecided(t) /\ CaseVerdict(t) = verdict
                /\ Age(t) <= StalenessDays
<1>1. cases \subseteq Corpus(s)
  BY DEF Pools, Retrieved, TakesFirst
<1>2. QED
  BY <1>1 DEF Corpus, Basis, SameVerdict, Confirmed, PersonDecided

LEMMA AskTyped ==
    ASSUME TypeOK, NEW s \in Situations, NEW verdict \in Verdicts, NEW plan \in Plans,
           NEW confident, Asks(s, verdict, plan, confident)
    PROVE  pass' \in [Situations -> Pass]
<1>1. Idle \in Pass
  BY AutonomyAssumption DEF Idle, Pass, AnyVerdict
<1>2. [at |-> "asked", verdict |-> verdict, plan |-> plan, basis |-> {}] \in Pass
  BY DEF Pass
<1>3. QED
  BY <1>1, <1>2 DEF TypeOK, Asks

\* A decision and its label, as the steps write them.
LEMMA WritesTyped ==
    ASSUME TypeOK
    PROVE  /\ \A d \in Decision, v \in Verdicts, basis \in SUBSET Situations :
                /\ [d EXCEPT !.status = "PENDING", !.verdict = v, !.created = today] \in Decision
                /\ [d EXCEPT !.verdict = v] \in Decision
                /\ [d EXCEPT !.verdict = v, !.source = "human"] \in Decision
                /\ [d EXCEPT !.status = "APPROVED", !.by = "autopilot", !.basis = basis,
                             !.settled = today] \in Decision
                /\ \A status \in {"APPROVED", "REJECTED"} :
                     [d EXCEPT !.status = status, !.by = "analyst", !.settled = today] \in Decision
                /\ [d EXCEPT !.status = "DONE", !.settled = today] \in Decision
           /\ \A l \in Label, v \in Verdicts, changed \in BOOLEAN, o \in Outcomes :
                /\ [l EXCEPT !.corrected = TRUE, !.verdict = v, !.changed = changed] \in Label
                /\ [l EXCEPT !.outcome = o] \in Label
           /\ \A w \in Pass, basis \in SUBSET Situations :
                [w EXCEPT !.at = "cleared", !.basis = basis] \in Pass
<1>1. today \in Days
  BY DEF TypeOK
<1>2. ASSUME NEW d \in Decision, NEW v \in Verdicts, NEW basis \in SUBSET Situations
      PROVE  /\ [d EXCEPT !.status = "PENDING", !.verdict = v, !.created = today] \in Decision
             /\ [d EXCEPT !.verdict = v] \in Decision
             /\ [d EXCEPT !.verdict = v, !.source = "human"] \in Decision
             /\ [d EXCEPT !.status = "APPROVED", !.by = "autopilot", !.basis = basis,
                          !.settled = today] \in Decision
             /\ \A status \in {"APPROVED", "REJECTED"} :
                  [d EXCEPT !.status = status, !.by = "analyst", !.settled = today] \in Decision
             /\ [d EXCEPT !.status = "DONE", !.settled = today] \in Decision
  BY <1>1 DEF Decision, Statuses, Approvers
<1>3. ASSUME NEW l \in Label, NEW v \in Verdicts, NEW changed \in BOOLEAN, NEW o \in Outcomes
      PROVE  /\ [l EXCEPT !.corrected = TRUE, !.verdict = v, !.changed = changed] \in Label
             /\ [l EXCEPT !.outcome = o] \in Label
  BY DEF Label
<1>4. ASSUME NEW w \in Pass, NEW basis \in SUBSET Situations
      PROVE  [w EXCEPT !.at = "cleared", !.basis = basis] \in Pass
  BY DEF Pass
<1>5. QED
  BY <1>2, <1>3, <1>4

LEMMA RowTyped ==
    ASSUME TypeOK, NEW s \in Situations
    PROVE  /\ \A d \in Decision : decision' = [decision EXCEPT ![s] = d]
                => decision' \in [Situations -> Decision]
           /\ \A l \in Label : label' = [label EXCEPT ![s] = l]
                => label' \in [Situations -> Label]
           /\ decision[s] \in Decision /\ label[s] \in Label /\ pass[s] \in Pass
  BY DEF TypeOK

LEMMA TypeStep == ASSUME TypeOK, [Next]_vars PROVE TypeOK'
<1>0. today \in Days /\ Idle \in Pass
  BY AutonomyAssumption DEF TypeOK, Idle, Pass, AnyVerdict
<1>1. CASE UNCHANGED vars
  BY <1>1 DEF vars, TypeOK
<1>2. ASSUME NEW s \in Situations, NEW v \in Verdicts, NEW plan \in Plans, NEW c \in BOOLEAN,
             Analyse(s, v, plan, c)
      PROVE  TypeOK'
  <2>1. decision[s].verdict \in Verdicts
    BY DEF TypeOK, Decision
  <2>2. pass' \in [Situations -> Pass]
    BY <1>2, <2>1, AskTyped DEF Analyse
  <2>3. decision' \in [Situations -> Decision]
    <3> DEFINE d1 == [decision[s] EXCEPT !.status = "PENDING", !.verdict = v, !.created = today]
               d2 == [decision[s] EXCEPT !.verdict = v]
    <3>1. d1 \in Decision /\ d2 \in Decision
      BY RowTyped, WritesTyped
    <3>2. \/ decision' = [decision EXCEPT ![s] = d1]
          \/ decision' = [decision EXCEPT ![s] = d2]
          \/ decision' = decision
      BY <1>2 DEF Analyse, TypeOK, Decision
    <3> HIDE DEF d1, d2
    <3>3. QED
      BY <3>1, <3>2 DEF TypeOK
  <2>4. QED
    BY <1>2, <2>2, <2>3 DEF Analyse, TypeOK
<1>3. ASSUME NEW s \in Situations, Judge(s) PROVE TypeOK'
  <2>1. PICK pool \in Pools(s) : \E cases \in Retrieved(s, pool) :
          pass' = [pass EXCEPT ![s] =
                    IF /\ AutopilotAllows(pass[s].plan, site)
                       /\ RequirePrecedent => Supports(cases, pass[s].verdict)
                    THEN [pass[s] EXCEPT !.at = "cleared", !.basis = Basis(cases, pass[s].verdict)]
                    ELSE Idle]
    BY <1>3 DEF Judge
  <2>2. PICK cases \in Retrieved(s, pool) :
          pass' = [pass EXCEPT ![s] =
                    IF /\ AutopilotAllows(pass[s].plan, site)
                       /\ RequirePrecedent => Supports(cases, pass[s].verdict)
                    THEN [pass[s] EXCEPT !.at = "cleared", !.basis = Basis(cases, pass[s].verdict)]
                    ELSE Idle]
    BY <2>1
  <2>3. Basis(cases, pass[s].verdict) \subseteq Situations
    BY BasisSound
  <2>4. \A b \in SUBSET Situations : [pass[s] EXCEPT !.at = "cleared", !.basis = b] \in Pass
    BY RowTyped, WritesTyped
  <2>5. pass' \in [Situations -> Pass]
    BY <1>0, <2>2, <2>3, <2>4 DEF TypeOK
  <2>6. QED
    BY <1>3, <2>5 DEF Judge, TypeOK
<1>4. ASSUME NEW s \in Situations, AutopilotApproves(s) PROVE TypeOK'
  <2>1. pass[s].basis \subseteq Situations
    BY DEF TypeOK, Pass
  <2>2. decision' \in [Situations -> Decision]
    <3> DEFINE d == [decision[s] EXCEPT !.status = "APPROVED", !.by = "autopilot",
                                        !.basis = pass[s].basis, !.settled = today]
    <3>1. d \in Decision
      BY <2>1, RowTyped, WritesTyped, AutonomyAssumption
    <3>2. decision' = [decision EXCEPT ![s] = d] \/ decision' = decision
      BY <1>4 DEF AutopilotApproves, TypeOK, Decision
    <3> HIDE DEF d
    <3>3. QED
      BY <3>1, <3>2 DEF TypeOK
  <2>3. QED
    BY <1>0, <1>4, <2>2 DEF AutopilotApproves, TypeOK
<1>5. ASSUME NEW s \in Situations, NEW status \in {"APPROVED", "REJECTED"}, Resolve(s, status)
      PROVE  TypeOK'
  <2> DEFINE d == [decision[s] EXCEPT !.status = status, !.by = "analyst", !.settled = today]
  <2>1. d \in Decision
    BY RowTyped, WritesTyped, AutonomyAssumption
  <2>2. decision' = [decision EXCEPT ![s] = d]
    BY <1>5 DEF Resolve, TypeOK, Decision
  <2> HIDE DEF d
  <2>3. QED
    BY <1>5, <2>1, <2>2 DEF Resolve, TypeOK
<1>6. ASSUME NEW s \in Situations, NEW v \in Verdicts, Edit(s, v) PROVE TypeOK'
  <2>1. decision' \in [Situations -> Decision]
    <3> DEFINE d == [decision[s] EXCEPT !.verdict = v, !.source = "human"]
    <3>1. d \in Decision
      BY RowTyped, WritesTyped
    <3>2. decision' = [decision EXCEPT ![s] = d]
      BY <1>6 DEF Edit, TypeOK, Decision
    <3> HIDE DEF d
    <3>3. QED
      BY <3>1, <3>2 DEF TypeOK
  <2>2. label' \in [Situations -> Label]
    <3> DEFINE changed == v # decision[s].verdict
               l == [label[s] EXCEPT !.corrected = TRUE, !.verdict = v, !.changed = changed]
    <3>1. label' = [label EXCEPT ![s] = l]
      BY <1>6 DEF Edit, TypeOK, Label
    <3>2. changed \in BOOLEAN
      OBVIOUS
    <3> HIDE DEF changed
    <3>3. l \in Label
      BY <3>2, RowTyped, WritesTyped DEF Outcomes
    <3> HIDE DEF l
    <3>4. QED
      BY <3>1, <3>3 DEF TypeOK
  <2>3. QED
    BY <1>6, <2>1, <2>2 DEF Edit, TypeOK
<1>7. ASSUME NEW s \in Situations, NEW o \in Reports, ReportOutcome(s, o) PROVE TypeOK'
  <2>1. label' \in [Situations -> Label]
    BY <1>7, AutonomyAssumption DEF ReportOutcome, TypeOK, Label
  <2>2. QED
    BY <1>7, <2>1 DEF ReportOutcome, TypeOK
<1>8. ASSUME NEW s \in Situations, Finish(s) PROVE TypeOK'
  <2> DEFINE d == [decision[s] EXCEPT !.status = "DONE", !.settled = today]
  <2>1. d \in Decision
    BY RowTyped, WritesTyped, AutonomyAssumption
  <2>2. decision' = [decision EXCEPT ![s] = d]
    BY <1>8 DEF Finish, TypeOK, Decision
  <2> HIDE DEF d
  <2>3. QED
    BY <1>8, <2>1, <2>2 DEF Finish, TypeOK
<1>9. ASSUME NEW f \in SiteFiles, WriteFiles(f) PROVE TypeOK'
  BY <1>9 DEF WriteFiles, TypeOK
<1>10. CASE NextDay
  BY <1>0, <1>10, Numbers DEF NextDay, TypeOK, Days
<1>11. QED
  BY <1>1, <1>2, <1>3, <1>4, <1>5, <1>6, <1>7, <1>8, <1>9, <1>10 DEF Next

\* The variables stay in their domains.
THEOREM TypeCorrect == Spec => []TypeOK
  BY TypeInit, TypeStep, PTL DEF Spec

-----------------------------------------------------------------------------
(* What is settled stays                                                   *)

LEMMA Stays ==
    ASSUME TypeOK, [Next]_vars, NEW t \in Situations
    PROVE  /\ decision[t].status # "none" =>
                decision'[t].status # "none" /\ decision'[t].created = decision[t].created
           /\ decision[t].status \in Settled =>
                /\ decision'[t].status \in Settled
                /\ decision'[t].verdict = decision[t].verdict /\ decision'[t].by = decision[t].by
                /\ decision'[t].basis = decision[t].basis
                /\ label'[t].corrected = label[t].corrected
                /\ label'[t].verdict = label[t].verdict
<1> DEFINE Fine ==
        /\ decision[t].status # "none" =>
             decision'[t].status # "none" /\ decision'[t].created = decision[t].created
        /\ decision[t].status \in Settled =>
             /\ decision'[t].status \in Settled
             /\ decision'[t].verdict = decision[t].verdict /\ decision'[t].by = decision[t].by
             /\ decision'[t].basis = decision[t].basis
             /\ label'[t].corrected = label[t].corrected
             /\ label'[t].verdict = label[t].verdict
<1>1. CASE UNCHANGED <<decision, label>>
  BY <1>1
<1>2. ASSUME NEW s \in Situations, NEW v, NEW plan, NEW c, Analyse(s, v, plan, c) PROVE Fine
  BY <1>2 DEF Analyse, TypeOK, Decision, Settled
<1>3. ASSUME NEW s \in Situations, AutopilotApproves(s) PROVE Fine
  BY <1>3 DEF AutopilotApproves, TypeOK, Decision, Settled
<1>4. ASSUME NEW s \in Situations, NEW status \in {"APPROVED", "REJECTED"}, Resolve(s, status)
      PROVE  Fine
  BY <1>4 DEF Resolve, TypeOK, Decision, Settled
<1>5. ASSUME NEW s \in Situations, NEW v, Edit(s, v) PROVE Fine
  <2>1. CASE t = s
    <3>1. decision[t].status = "PENDING" /\ decision' = [decision EXCEPT ![t] =
            [decision[t] EXCEPT !.verdict = v, !.source = "human"]]
      BY <1>5, <2>1 DEF Edit, TypeOK, Decision
    <3>2. decision'[t].status = "PENDING" /\ decision'[t].created = decision[t].created
      BY <3>1 DEF TypeOK, Decision
    <3>3. QED
      BY <3>1, <3>2 DEF Settled
  <2>2. CASE t # s
    <3>1. decision'[t] = decision[t] /\ label'[t] = label[t]
      BY <1>5, <2>2 DEF Edit, TypeOK
    <3>2. QED
      BY <3>1
  <2>3. QED
    BY <2>1, <2>2
<1>6. ASSUME NEW s \in Situations, NEW o, ReportOutcome(s, o) PROVE Fine
  BY <1>6 DEF ReportOutcome, TypeOK, Label, Settled
<1>7. ASSUME NEW s \in Situations, Finish(s) PROVE Fine
  BY <1>7 DEF Finish, TypeOK, Decision, Settled
<1>8. ASSUME NEW s \in Situations, Judge(s) PROVE Fine
  BY <1>1, <1>8 DEF Judge
<1>9. ASSUME NEW f, WriteFiles(f) PROVE Fine
  BY <1>1, <1>9 DEF WriteFiles
<1>10. CASE NextDay
  BY <1>1, <1>10 DEF NextDay
<1>11. CASE UNCHANGED vars
  BY <1>1, <1>11 DEF vars
<1>12. QED
  BY <1>2, <1>3, <1>4, <1>5, <1>6, <1>7, <1>8, <1>9, <1>10, <1>11 DEF Next

-----------------------------------------------------------------------------
(* Autonomy does not feed on itself                                        *)

\* t is a decision of a person on that verdict, recent enough to support s.
Backs(t, s, verdict) ==
    /\ t # s /\ PersonDecided(t) /\ CaseVerdict(t) = verdict
    /\ decision[t].created >= decision[s].created - StalenessDays
Backed(s, basis, verdict) ==
    /\ \A t \in basis : Backs(t, s, verdict)
    /\ Cardinality(basis) >= MinPrecedents

\* A pass is about the verdict it asked with, unless a person has written
\* another; what it has cleared, and what it has approved, is backed.
Earned(s) ==
    /\ decision[s].created <= today
    /\ decision[s].status \in {"none", "PENDING"} => decision[s].by = "nobody"
    /\ pass[s].at # "idle" => /\ decision[s].status # "none"
                              /\ label[s].corrected \/ pass[s].verdict = decision[s].verdict
    /\ RequirePrecedent /\ pass[s].at = "cleared" => Backed(s, pass[s].basis, pass[s].verdict)
    /\ RequirePrecedent /\ ByMachine(s) /\ ~label[s].corrected
         => Backed(s, decision[s].basis, decision[s].verdict)
EarnedInv == \A s \in Situations : Earned(s)

LEMMA BackedStays ==
    ASSUME TypeOK, [Next]_vars, NEW s \in Situations, decision[s].status # "none",
           NEW basis \in SUBSET Situations, NEW verdict, Backed(s, basis, verdict)
    PROVE  Backed(s, basis, verdict)'
<1>1. ASSUME NEW t \in basis PROVE Backs(t, s, verdict)'
  <2>1. t \in Situations /\ Backs(t, s, verdict) /\ decision[t].status \in Settled
    BY DEF Backed, Backs, PersonDecided
  <2>2. decision[t].status # "none"
    BY <2>1 DEF Settled
  <2>3. decision'[s].created = decision[s].created /\ decision'[t].created = decision[t].created
    BY <2>1, <2>2, Stays
  <2>4. /\ decision'[t].status \in Settled
        /\ decision'[t].verdict = decision[t].verdict /\ decision'[t].by = decision[t].by
        /\ label'[t].corrected = label[t].corrected /\ label'[t].verdict = label[t].verdict
    BY <2>1, Stays
  <2>5. QED
    BY <2>1, <2>3, <2>4 DEF Backs, PersonDecided, CaseVerdict
<1>2. QED
  BY <1>1 DEF Backed

LEMMA EarnedInit == ASSUME Init PROVE EarnedInv
  BY DEF Init, EarnedInv, Earned, Nothing, Idle, Unlabelled, ByMachine

LEMMA EarnedStep == ASSUME TypeOK, TypeOK', EarnedInv, [Next]_vars PROVE EarnedInv'
<1> SUFFICES ASSUME NEW s \in Situations PROVE Earned(s)'
  BY DEF EarnedInv
<1>0. /\ Earned(s) /\ today \in Int /\ today' \in Int
      /\ decision[s].created \in Int /\ decision'[s].created \in Int
      /\ pass[s].basis \in SUBSET Situations /\ decision[s].basis \in SUBSET Situations
      /\ decision[s].status \in Statuses /\ decision[s] \in Decision /\ label[s] \in Label
      /\ pass[s] \in Pass
  BY DEF EarnedInv, TypeOK, Decision, Pass, Days
\* A step that leaves alone what the invariant says of s.
<1>1. ASSUME decision'[s] = decision[s], label'[s].corrected = label[s].corrected,
             pass'[s] = pass[s], today' >= today
      PROVE  Earned(s)'
  <2>1. decision'[s].created <= today'
    BY <1>0, <1>1 DEF Earned
  <2>2. RequirePrecedent /\ pass'[s].at = "cleared" => Backed(s, pass[s].basis, pass[s].verdict)'
    BY <1>0, <1>1, BackedStays DEF Earned
  <2>3. RequirePrecedent /\ ByMachine(s)' /\ ~label'[s].corrected
          => Backed(s, decision[s].basis, decision[s].verdict)'
    BY <1>0, <1>1, BackedStays DEF Earned, ByMachine
  <2>4. QED
    BY <1>0, <1>1, <2>1, <2>2, <2>3 DEF Earned, Backed, Backs
<1>2. CASE UNCHANGED vars
  BY <1>0, <1>1, <1>2 DEF vars
<1>3. ASSUME NEW u \in Situations, NEW v \in Verdicts, NEW plan \in Plans, NEW c \in BOOLEAN,
             Analyse(u, v, plan, c)
      PROVE  Earned(s)'
  <2>1. CASE u # s
    BY <1>0, <1>1, <1>3, <2>1 DEF Analyse, Asks, TypeOK
  <2>2. CASE u = s
    <3>1. /\ pass[s].at = "idle" /\ decision[s].status \in {"none", "PENDING"}
          /\ decision[s].by = "nobody" /\ today' = today /\ label' = label
      BY <1>0, <1>3, <2>2 DEF Analyse, Earned
    <3>2. decision'[s].by = "nobody" /\ decision'[s].status = "PENDING" /\ decision'[s].created <= today
      <4> DEFINE d1 == [decision[s] EXCEPT !.status = "PENDING", !.verdict = v, !.created = today]
                 d2 == [decision[s] EXCEPT !.verdict = v]
      <4>1. /\ d1.by = decision[s].by /\ d1.status = "PENDING" /\ d1.created = today
            /\ d2.by = decision[s].by /\ d2.status = decision[s].status
            /\ d2.created = decision[s].created
        BY <1>0 DEF Decision
      <4>2. \/ decision' = [decision EXCEPT ![s] = d1]
            \/ decision[s].status = "PENDING" /\ decision' = [decision EXCEPT ![s] = d2]
            \/ decision[s].status = "PENDING" /\ decision' = decision
        BY <1>3, <2>2 DEF Analyse, TypeOK, Decision
      <4> HIDE DEF d1, d2
      <4>3. decision'[s] = d1 \/ (decision[s].status = "PENDING" /\ decision'[s] \in {d2, decision[s]})
        BY <4>2 DEF TypeOK
      <4>4. QED
        BY <1>0, <3>1, <4>1, <4>3 DEF Earned
    <3>3. pass'[s].at \in {"idle", "asked"}
      BY <1>3, <2>2 DEF Analyse, Asks, TypeOK, Idle
    <3>4. pass'[s].at # "idle" => pass'[s].verdict = decision'[s].verdict
      BY <1>0, <1>3, <2>2 DEF Analyse, Asks, TypeOK, Idle, Decision
    <3>5. QED
      BY <3>1, <3>2, <3>3, <3>4 DEF Earned, ByMachine
  <2>3. QED
    BY <2>1, <2>2
<1>4. ASSUME NEW u \in Situations, Judge(u) PROVE Earned(s)'
  <2>1. CASE u # s
    BY <1>0, <1>1, <1>4, <2>1 DEF Judge, TypeOK
  <2>2. CASE u = s
    <3>1. PICK pool \in Pools(s) : \E cases \in Retrieved(s, pool) :
            pass' = [pass EXCEPT ![s] =
                      IF /\ AutopilotAllows(pass[s].plan, site)
                         /\ RequirePrecedent => Supports(cases, pass[s].verdict)
                      THEN [pass[s] EXCEPT !.at = "cleared", !.basis = Basis(cases, pass[s].verdict)]
                      ELSE Idle]
      BY <1>4, <2>2 DEF Judge
    <3>2. PICK cases \in Retrieved(s, pool) :
            pass' = [pass EXCEPT ![s] =
                      IF /\ AutopilotAllows(pass[s].plan, site)
                         /\ RequirePrecedent => Supports(cases, pass[s].verdict)
                      THEN [pass[s] EXCEPT !.at = "cleared", !.basis = Basis(cases, pass[s].verdict)]
                      ELSE Idle]
      BY <3>1
    <3>3. UNCHANGED <<decision, label, today>> /\ pass[s].at = "asked"
      BY <1>4, <2>2 DEF Judge
    <3>4. CASE pass'[s] = Idle
      <4>1. pass'[s].at = "idle"
        BY <3>4 DEF Idle
      <4>2. RequirePrecedent /\ ByMachine(s)' /\ ~label'[s].corrected
              => Backed(s, decision[s].basis, decision[s].verdict)'
        BY <1>0, <3>3 DEF Earned, ByMachine, Backed, Backs, PersonDecided, CaseVerdict
      <4>3. QED
        BY <1>0, <3>3, <4>1, <4>2 DEF Earned
    <3>5. CASE pass'[s] # Idle
      <4>1. /\ RequirePrecedent => Supports(cases, pass[s].verdict)
            /\ pass'[s] = [pass[s] EXCEPT !.at = "cleared", !.basis = Basis(cases, pass[s].verdict)]
        BY <3>2, <3>5 DEF TypeOK
      <4>2. /\ pass'[s].verdict = pass[s].verdict
            /\ pass'[s].basis = Basis(cases, pass[s].verdict)
        BY <1>0, <4>1 DEF Pass
      <4> PICK basis, verdict : basis = Basis(cases, pass[s].verdict) /\ verdict = pass[s].verdict
        OBVIOUS
      <4>3. ASSUME NEW t \in basis PROVE Backs(t, s, verdict)
        <5>1. t \in Situations /\ t # s /\ PersonDecided(t) /\ CaseVerdict(t) = verdict
              /\ today - decision[t].created <= StalenessDays
          BY BasisSound DEF Age
        <5>2. decision[t].created \in Int
          BY <5>1 DEF TypeOK, Decision, Days
        <5>3. QED
          BY <1>0, <5>1, <5>2, Numbers DEF Backs, Earned
      <4>4. RequirePrecedent => Cardinality(basis) >= MinPrecedents
        BY <4>1 DEF Supports
      <4>5. RequirePrecedent => Backed(s, basis, verdict)
        BY <4>3, <4>4 DEF Backed
      <4>6. RequirePrecedent => Backed(s, basis, verdict)'
        BY <3>3, <4>5 DEF Backed, Backs, PersonDecided, CaseVerdict
      <4>7. RequirePrecedent => Backed(s, pass[s].basis, pass[s].verdict)'
        BY <4>2, <4>6 DEF Backed, Backs
      <4>8. RequirePrecedent /\ ByMachine(s)' /\ ~label'[s].corrected
              => Backed(s, decision[s].basis, decision[s].verdict)'
        BY <1>0, <3>3 DEF Earned, ByMachine, Backed, Backs, PersonDecided, CaseVerdict
      <4>9. QED
        BY <1>0, <3>3, <4>2, <4>7, <4>8 DEF Earned
    <3>6. QED
      BY <3>4, <3>5
  <2>3. QED
    BY <2>1, <2>2
<1>5. ASSUME NEW u \in Situations, AutopilotApproves(u) PROVE Earned(s)'
  <2>1. CASE u # s
    BY <1>0, <1>1, <1>5, <2>1 DEF AutopilotApproves, TypeOK
  <2>2. CASE u = s
    <3>1. /\ pass[s].at = "cleared" /\ pass'[s].at = "idle" /\ label' = label /\ today' = today
      BY <1>5, <2>2 DEF AutopilotApproves, TypeOK, Idle
    <3>2. CASE decision[s].status # "PENDING"
      <4>1. decision'[s] = decision[s]
        BY <1>5, <2>2, <3>2 DEF AutopilotApproves
      <4>2. RequirePrecedent /\ ByMachine(s)' /\ ~label'[s].corrected
              => Backed(s, decision[s].basis, decision[s].verdict)'
        BY <1>0, <3>1, <4>1, BackedStays DEF Earned, ByMachine
      <4>3. QED
        BY <1>0, <3>1, <4>1, <4>2 DEF Earned, Backed, Backs
    <3>3. CASE decision[s].status = "PENDING"
      <4>1. /\ decision'[s].created = decision[s].created /\ decision'[s].status = "APPROVED"
            /\ decision'[s].verdict = decision[s].verdict /\ decision'[s].basis = pass[s].basis
        BY <1>0, <1>5, <2>2, <3>3 DEF AutopilotApproves, TypeOK, Decision
      <4>2. PICK b, v : b = pass[s].basis /\ v = pass[s].verdict
        OBVIOUS
      <4>3. RequirePrecedent => Backed(s, b, v)
        BY <1>0, <3>1, <4>2 DEF Earned
      <4>4. b \in SUBSET Situations /\ decision[s].status # "none"
        BY <1>0, <3>3, <4>2
      <4>5. RequirePrecedent => Backed(s, b, v)'
        BY <4>3, <4>4, BackedStays
      <4>6. ~label'[s].corrected => v = decision'[s].verdict
        BY <1>0, <3>1, <4>1, <4>2 DEF Earned
      <4>7. RequirePrecedent /\ ~label'[s].corrected
              => Backed(s, decision[s].basis, decision[s].verdict)'
        BY <4>1, <4>2, <4>5, <4>6 DEF Backed, Backs
      <4>8. decision'[s].created <= today'
        BY <1>0, <3>1, <4>1 DEF Earned
      <4>9. QED
        BY <3>1, <4>1, <4>7, <4>8 DEF Earned
    <3>4. QED
      BY <3>2, <3>3
  <2>3. QED
    BY <2>1, <2>2
<1>6. ASSUME NEW u \in Situations, NEW status \in {"APPROVED", "REJECTED"}, Resolve(u, status)
      PROVE  Earned(s)'
  <2>1. CASE u # s
    BY <1>0, <1>1, <1>6, <2>1 DEF Resolve, TypeOK
  <2>2. CASE u = s
    <3> DEFINE d == [decision[s] EXCEPT !.status = status, !.by = "analyst", !.settled = today]
    <3>1. /\ decision[s].status = "PENDING" /\ decision' = [decision EXCEPT ![s] = d]
          /\ label' = label /\ pass' = pass /\ today' = today
      BY <1>6, <2>2 DEF Resolve, TypeOK, Decision
    <3>2. /\ d.status = status /\ d.by = "analyst" /\ d.verdict = decision[s].verdict
          /\ d.created = decision[s].created
      BY <1>0 DEF Decision
    <3>3. decision'[s] = d
      BY <3>1 DEF TypeOK
    <3> HIDE DEF d
    <3>4. RequirePrecedent /\ pass'[s].at = "cleared" => Backed(s, pass[s].basis, pass[s].verdict)'
      BY <1>0, <3>1, BackedStays DEF Earned
    <3>5. decision'[s].status \notin {"none", "PENDING"}
      BY <1>6, <3>2, <3>3
    <3>6. decision'[s].created <= today' /\ ~ByMachine(s)'
      BY <1>0, <3>1, <3>2, <3>3 DEF Earned, ByMachine
    <3>7. pass'[s].at # "idle" => label'[s].corrected \/ pass'[s].verdict = decision'[s].verdict
      BY <1>0, <3>1, <3>2, <3>3 DEF Earned
    <3>8. QED
      BY <3>4, <3>5, <3>6, <3>7 DEF Earned
  <2>3. QED
    BY <2>1, <2>2
<1>7. ASSUME NEW u \in Situations, NEW v \in Verdicts, Edit(u, v) PROVE Earned(s)'
  <2>1. CASE u # s
    <3>1. decision'[s] = decision[s] /\ label'[s] = label[s]
      BY <1>7, <2>1 DEF Edit, TypeOK
    <3>2. pass' = pass /\ today' = today
      BY <1>7 DEF Edit
    <3>3. QED
      BY <1>0, <1>1, <3>1, <3>2
  <2>2. CASE u = s
    <3> DEFINE d == [decision[s] EXCEPT !.verdict = v, !.source = "human"]
    <3>1. /\ decision[s].status = "PENDING" /\ decision' = [decision EXCEPT ![s] = d]
          /\ pass' = pass /\ today' = today
      BY <1>7, <2>2 DEF Edit, TypeOK, Decision
    <3>2. d.status = "PENDING" /\ d.by = decision[s].by /\ d.created = decision[s].created
      BY <1>0, <3>1 DEF Decision
    <3>3. decision'[s] = d
      BY <3>1 DEF TypeOK
    <3> HIDE DEF d
    <3>4. label'[s].corrected
      BY <1>0, <1>7, <2>2 DEF Edit, TypeOK, Label
    <3>5. RequirePrecedent /\ pass'[s].at = "cleared" => Backed(s, pass[s].basis, pass[s].verdict)'
      BY <1>0, <3>1, BackedStays DEF Earned
    <3>6. QED
      BY <1>0, <3>1, <3>2, <3>3, <3>4, <3>5 DEF Earned, ByMachine
  <2>3. QED
    BY <2>1, <2>2
<1>8. ASSUME NEW u \in Situations, NEW o \in Reports, ReportOutcome(u, o) PROVE Earned(s)'
  <2>1. label'[s].corrected = label[s].corrected
    BY <1>0, <1>8 DEF ReportOutcome, TypeOK, Label
  <2>2. QED
    BY <1>0, <1>1, <1>8, <2>1 DEF ReportOutcome
<1>9. ASSUME NEW u \in Situations, Finish(u) PROVE Earned(s)'
  <2>1. CASE u # s
    BY <1>0, <1>1, <1>9, <2>1 DEF Finish, TypeOK
  <2>2. CASE u = s
    <3> DEFINE d == [decision[s] EXCEPT !.status = "DONE", !.settled = today]
    <3>1. /\ decision[s].status = "APPROVED" /\ decision' = [decision EXCEPT ![s] = d]
          /\ label' = label /\ pass' = pass /\ today' = today
      BY <1>9, <2>2 DEF Finish, TypeOK, Decision
    <3>2. /\ d.status = "DONE" /\ d.by = decision[s].by /\ d.verdict = decision[s].verdict
          /\ d.basis = decision[s].basis /\ d.created = decision[s].created
      BY <1>0 DEF Decision
    <3>3. decision'[s] = d
      BY <3>1 DEF TypeOK
    <3> HIDE DEF d
    <3>4. RequirePrecedent /\ pass'[s].at = "cleared" => Backed(s, pass[s].basis, pass[s].verdict)'
      BY <1>0, <3>1, BackedStays DEF Earned
    <3>5. RequirePrecedent /\ ByMachine(s)' /\ ~label'[s].corrected
            => Backed(s, decision[s].basis, decision[s].verdict)'
      BY <1>0, <3>1, <3>2, <3>3, BackedStays DEF Earned, ByMachine
    <3>6. QED
      BY <1>0, <3>1, <3>2, <3>3, <3>4, <3>5 DEF Earned
  <2>3. QED
    BY <2>1, <2>2
<1>10. ASSUME NEW f \in SiteFiles, WriteFiles(f) PROVE Earned(s)'
  BY <1>0, <1>1, <1>10 DEF WriteFiles
<1>11. CASE NextDay
  BY <1>0, <1>1, <1>11 DEF NextDay
<1>12. QED
  BY <1>2, <1>3, <1>4, <1>5, <1>6, <1>7, <1>8, <1>9, <1>10, <1>11 DEF Next

\* Behind every decision that the machine approved there are enough decisions
\* of people (autopilot_precedent), however its passes, edits and corrections
\* interleave.
THEOREM AutonomyIsEarned == Spec => []EarnedByPeople
<1>1. EarnedInv => EarnedByPeople
  <2> SUFFICES ASSUME EarnedInv, RequirePrecedent, NEW s \in Situations, ByMachine(s),
                      ~label[s].corrected
               PROVE  Cardinality({t \in decision[s].basis :
                         /\ t # s /\ PersonDecided(t)
                         /\ CaseVerdict(t) = decision[s].verdict
                         /\ decision[t].created >= decision[s].created - StalenessDays})
                        >= MinPrecedents
    BY DEF EarnedByPeople
  <2>1. Backed(s, decision[s].basis, decision[s].verdict)
    BY DEF EarnedInv, Earned
  <2>2. {t \in decision[s].basis :
           /\ t # s /\ PersonDecided(t)
           /\ CaseVerdict(t) = decision[s].verdict
           /\ decision[t].created >= decision[s].created - StalenessDays} = decision[s].basis
    BY <2>1 DEF Backed, Backs
  <2>3. QED
    BY <2>1, <2>2 DEF Backed
<1>2. TypeOK /\ EarnedInv /\ [Next]_vars => EarnedInv'
  BY TypeStep, EarnedStep
<1>3. QED
  BY <1>1, <1>2, EarnedInit, TypeCorrect, PTL DEF Spec
-----------------------------------------------------------------------------
(* When retrieval leaves nothing out, mistakes are not repeated            *)

\* No pool and no result is ever cut.  (It takes this: AutonomyCrowded.)
Whole == Cardinality(Situations) <= CandidatePool /\ Cardinality(Situations) <= Take

LEMMA TakesAll ==
    ASSUME NEW from \in SUBSET Situations, NEW n \in Nat, Cardinality(Situations) <= n,
           NEW chosen, TakesFirst(chosen, from, n)
    PROVE  chosen = from
<1>1. IsFiniteSet(Situations)
  BY AutonomyAssumption
<1>2. IsFiniteSet(from) /\ Cardinality(from) <= Cardinality(Situations)
  BY <1>1, FS_Subset
<1>3. Cardinality(from) \in Nat /\ Cardinality(Situations) \in Nat
  BY <1>1, <1>2, FS_CardinalityType
<1>4. chosen \in SUBSET from /\ Cardinality(chosen) = Cardinality(from)
  BY <1>2, <1>3 DEF TakesFirst
<1>5. QED
  BY <1>2, <1>4, FS_Subset

\* The gate then sees every settled decision that is alike.
LEMMA SeesAll ==
    ASSUME Whole, NEW s \in Situations, NEW pool \in Pools(s), NEW cases \in Retrieved(s, pool)
    PROVE  cases = {t \in Corpus(s) : Alike[s, t] >= Similarity}
<1>1. Corpus(s) \in SUBSET Situations
  BY DEF Corpus
<1>2. pool = Corpus(s)
  BY <1>1, Numbers, TakesAll DEF Whole, Pools
<1>3. {t \in pool : Alike[s, t] >= Similarity} \in SUBSET Situations
  BY <1>1, <1>2
<1>4. TakesFirst(cases, {t \in pool : Alike[s, t] >= Similarity}, Take)
  BY DEF Retrieved
<1>5. QED
  BY <1>2, <1>3, <1>4, Numbers, TakesAll DEF Whole

\* Only Judge clears a pass.
LEMMA OnlyJudgeClears ==
    ASSUME TypeOK, [Next]_vars, NEW s \in Situations, Clears(s)
    PROVE  Judge(s)
<1>1. pass[s].at = "asked" /\ pass'[s].at = "cleared" /\ pass \in [Situations -> Pass]
  BY DEF Clears, TypeOK
<1>2. ASSUME NEW u \in Situations, NEW v \in Verdicts, NEW plan \in Plans, NEW c \in BOOLEAN,
             Analyse(u, v, plan, c)
      PROVE  FALSE
  BY <1>1, <1>2 DEF Analyse, Asks, Idle
<1>3. ASSUME NEW u \in Situations, Judge(u) PROVE Judge(s)
  <2>1. CASE u = s
    BY <1>3, <2>1
  <2>2. CASE u # s
    BY <1>1, <1>3, <2>2 DEF Judge
  <2>3. QED
    BY <2>1, <2>2
<1>4. ASSUME NEW u \in Situations, AutopilotApproves(u) PROVE FALSE
  BY <1>1, <1>4 DEF AutopilotApproves, Idle
<1>5. pass' = pass => FALSE
  BY <1>1
<1>6. ASSUME NEW u \in Situations, NEW status \in {"APPROVED", "REJECTED"}, Resolve(u, status)
      PROVE  FALSE
  BY <1>5, <1>6 DEF Resolve
<1>7. ASSUME NEW u \in Situations, NEW v \in Verdicts, Edit(u, v) PROVE FALSE
  BY <1>5, <1>7 DEF Edit
<1>8. ASSUME NEW u \in Situations, NEW o \in Reports, ReportOutcome(u, o) PROVE FALSE
  BY <1>5, <1>8 DEF ReportOutcome
<1>9. ASSUME NEW u \in Situations, Finish(u) PROVE FALSE
  BY <1>5, <1>9 DEF Finish
<1>10. ASSUME NEW f \in SiteFiles, WriteFiles(f) PROVE FALSE
  BY <1>5, <1>10 DEF WriteFiles
<1>11. ~NextDay /\ vars' # vars
  BY <1>5 DEF NextDay, vars
<1>12. QED
  BY <1>2, <1>3, <1>4, <1>6, <1>7, <1>8, <1>9, <1>10, <1>11 DEF Next

\* What clears a pass is judged by every case there is, so a verdict that a
\* person changed, or reported as wrong, is not executed on a situation like it
\* (precedent.py, rule 2) - as long as retrieval cuts nothing.
THEOREM NoMistakeAgain == ASSUME Whole PROVE Spec => MistakesAreNotRepeated
<1>1. ASSUME TypeOK, [Next]_vars
      PROVE  \A s, t \in Situations :
               /\ Clears(s) /\ RequirePrecedent
               /\ s # t /\ PersonDecided(t) /\ Alike[s, t] >= Similarity
               => /\ CaseVerdict(t) = pass[s].verdict
                  /\ label[t].outcome \notin {"FALSE_POSITIVE", "REOPENED"}
  <2> SUFFICES ASSUME NEW s \in Situations, NEW t \in Situations, Clears(s), RequirePrecedent,
                      s # t, PersonDecided(t), Alike[s, t] >= Similarity
               PROVE  /\ CaseVerdict(t) = pass[s].verdict
                      /\ label[t].outcome \notin {"FALSE_POSITIVE", "REOPENED"}
    OBVIOUS
  <2>1. Judge(s) /\ pass \in [Situations -> Pass]
    BY <1>1, OnlyJudgeClears DEF TypeOK
  <2>2. PICK pool \in Pools(s) : \E cases \in Retrieved(s, pool) :
          pass' = [pass EXCEPT ![s] =
                     IF /\ AutopilotAllows(pass[s].plan, site)
                        /\ RequirePrecedent => Supports(cases, pass[s].verdict)
                     THEN [pass[s] EXCEPT !.at = "cleared", !.basis = Basis(cases, pass[s].verdict)]
                     ELSE Idle]
    BY <2>1 DEF Judge
  <2>3. PICK cases \in Retrieved(s, pool) :
          pass' = [pass EXCEPT ![s] =
                     IF /\ AutopilotAllows(pass[s].plan, site)
                        /\ RequirePrecedent => Supports(cases, pass[s].verdict)
                     THEN [pass[s] EXCEPT !.at = "cleared", !.basis = Basis(cases, pass[s].verdict)]
                     ELSE Idle]
    BY <2>2
  <2>4. Supports(cases, pass[s].verdict)
    BY <2>1, <2>3 DEF Clears, Idle
  <2>5. t \in cases
    BY SeesAll DEF Corpus, PersonDecided
  <2>6. Confirmed(t)
    BY DEF Confirmed, PersonDecided
  <2>7. CaseVerdict(t) = pass[s].verdict
    BY <2>4, <2>5, <2>6 DEF Supports
  <2>8. ~Reversed(t)
    BY <2>4, <2>5, <2>6, <2>7 DEF Supports, SameVerdict
  <2>9. QED
    BY <2>7, <2>8 DEF Reversed
<1>2. TypeOK /\ [Next]_vars
        => [\A s, t \in Situations :
              /\ Clears(s) /\ RequirePrecedent
              /\ s # t /\ PersonDecided(t) /\ Alike[s, t] >= Similarity
              => /\ CaseVerdict(t) = pass[s].verdict
                 /\ label[t].outcome \notin {"FALSE_POSITIVE", "REOPENED"}]_vars
  BY <1>1
<1>3. QED
  BY <1>2, TypeCorrect, PTL DEF Spec, MistakesAreNotRepeated

-----------------------------------------------------------------------------
(* The guards                                                              *)

LEMMA RiskOrders ==
    /\ RiskOrder("READ") = 1 /\ RiskOrder("LOW_WRITE") = 2
    /\ RiskOrder("HIGH_WRITE") = 3 /\ RiskOrder("DESTRUCTIVE") = 4
<1>1. DOMAIN Risks = 1 .. 4
  BY DEF Risks
<1>2. /\ Risks[1] = "READ" /\ Risks[2] = "LOW_WRITE"
      /\ Risks[3] = "HIGH_WRITE" /\ Risks[4] = "DESTRUCTIVE"
  BY DEF Risks
<1>3. \A i \in 1 .. 4 : i = 1 \/ i = 2 \/ i = 3 \/ i = 4
  OBVIOUS
<1>4. /\ \A i \in DOMAIN Risks : Risks[i] = "READ" <=> i = 1
      /\ \A i \in DOMAIN Risks : Risks[i] = "LOW_WRITE" <=> i = 2
      /\ \A i \in DOMAIN Risks : Risks[i] = "HIGH_WRITE" <=> i = 3
      /\ \A i \in DOMAIN Risks : Risks[i] = "DESTRUCTIVE" <=> i = 4
  BY <1>1, <1>2, <1>3
<1>5. QED
  BY <1>1, <1>4 DEF RiskOrder

LEMMA DisruptiveRisks ==
    /\ Disruptive("HIGH_WRITE") /\ Disruptive("DESTRUCTIVE")
    /\ ~Disruptive("LOW_WRITE") /\ ~Disruptive("READ")
  BY RiskOrders DEF Disruptive

\* The rules that disrupt come first.
LEMMA DisruptiveRulesFirst ==
    /\ DOMAIN Rules = 1 .. 16
    /\ \A i \in DOMAIN Rules : Disruptive(Rules[i].risk) <=> i <= 11
<1>1. DOMAIN Rules = 1 .. 16
  BY DEF Rules
<1>2. /\ Rules[1].risk = "DESTRUCTIVE" /\ Rules[2].risk = "DESTRUCTIVE"
      /\ Rules[3].risk = "DESTRUCTIVE" /\ Rules[4].risk = "HIGH_WRITE"
      /\ Rules[5].risk = "HIGH_WRITE" /\ Rules[6].risk = "HIGH_WRITE"
      /\ Rules[7].risk = "HIGH_WRITE" /\ Rules[8].risk = "HIGH_WRITE"
      /\ Rules[9].risk = "HIGH_WRITE" /\ Rules[10].risk = "HIGH_WRITE"
      /\ Rules[11].risk = "HIGH_WRITE" /\ Rules[12].risk = "LOW_WRITE"
      /\ Rules[13].risk = "LOW_WRITE" /\ Rules[14].risk = "LOW_WRITE"
      /\ Rules[15].risk = "LOW_WRITE" /\ Rules[16].risk = "READ"
  BY DEF Rules, Rule
<1>3. \A i \in 1 .. 16 :
        \/ i = 1 \/ i = 2 \/ i = 3 \/ i = 4 \/ i = 5 \/ i = 6 \/ i = 7 \/ i = 8
        \/ i = 9 \/ i = 10 \/ i = 11 \/ i = 12 \/ i = 13 \/ i = 14 \/ i = 15 \/ i = 16
  OBVIOUS
<1>4. QED
  BY <1>1, <1>2, <1>3, DisruptiveRisks

\* What can be taken back, or ends by itself, disrupts.
LEMMA TakenBackDisrupts == \A word \in Inverses \cup SelfLimiting : Disrupts(word)
<1>1. /\ {"disable account", "revoke session"} \subseteq Rules[4].words
      /\ "isolate" \in Rules[5].words /\ "block ip" \in Rules[6].words
      /\ "block url" \in Rules[7].words /\ "quarantine file" \in Rules[9].words
      /\ "stop service" \in Rules[10].words
  BY DEF Rules, Rule
<1>2. \A i \in {4, 5, 6, 7, 9, 10} : i \in DOMAIN Rules /\ Disruptive(Rules[i].risk)
  BY DisruptiveRulesFirst
<1>3. \A word \in Inverses \cup SelfLimiting : \E i \in {4, 5, 6, 7, 9, 10} : word \in Rules[i].words
  BY <1>1 DEF Inverses, SelfLimiting
<1>4. QED
  BY <1>2, <1>3 DEF Disrupts

LEMMA FirstMatches ==
    ASSUME NEW verb, Matching(verb) # {}
    PROVE  /\ FirstMatch(verb) \in Matching(verb)
           /\ \A j \in Matching(verb) : FirstMatch(verb) <= j
<1>1. Matching(verb) \in SUBSET Nat
  BY DisruptiveRulesFirst DEF Matching
<1>2. \E i \in Matching(verb) : \A j \in Matching(verb) : i <= j
  <2> DEFINE R == OpToRel(<, Nat)
             S == Matching(verb)
  <2>1. IsWellFoundedOn(R, Nat)
    BY NatLessThanWellFounded
  <2>2. S \in SUBSET Nat /\ S # {}
    BY <1>1
  <2> HIDE DEF S
  <2>3. \A x \in S, y \in S : y < x => <<y, x>> \in R
    BY <2>2 DEF OpToRel
  <2> HIDE DEF R
  <2>4. PICK n \in S : \A m \in S : ~(<<m, n>> \in R)
    BY <2>1, <2>2, WFMin
  <2>5. \A m \in S : ~(m < n)
    BY <2>3, <2>4, Zenon
  <2>6. QED
    BY <2>2, <2>5 DEF S
<1>3. QED
  BY <1>2 DEF FirstMatch

\* What the theorem takes for granted.  It takes all of it (AutonomyCompound).
\* A verb calls for one disruption at most.
OneDisruption(verb) == \A v, w \in verb.words : Disrupts(v) /\ Disrupts(w) => v = w
\* An override does not make light of what disrupts, or undoes.
OverridesKeepRisk ==
    \A verb \in DOMAIN Overrides :
      verb.phrasing = "undoing" \/ (\E word \in verb.words : Disrupts(word))
        => Disruptive(Overrides[verb])
\* Only the file that the guard asks about a target may set it apart.
AskedOfItsFile(action, files) ==
    LET kind == Classify(action.verb).kind IN
    (\E word \in action.verb.words : Disrupts(word) /\ ~Irrevocable(word)) =>
      /\ kind \notin {"ip", "endpoint"} => Criticality(files, action.target) # "CRITICAL"
      /\ kind # "user" => IdentityRole(files, action.target) = "STANDARD"
PlainlySpoken ==
    /\ OverridesKeepRisk
    /\ \A plan \in Plans : \A action \in plan :
         /\ OneDisruption(action.verb)
         /\ \A files \in SiteFiles : AskedOfItsFile(action, files)

\* A plain verb that disrupts is classified as what it does.
LEMMA DisruptionIsSeen ==
    ASSUME OverridesKeepRisk, NEW verb \in Verbs, verb.phrasing = "plain", OneDisruption(verb),
           NEW word \in verb.words, Disrupts(word)
    PROVE  Disruptive(Classify(verb).risk)
<1>1. PICK i \in DOMAIN Rules : word \in Rules[i].words /\ Disruptive(Rules[i].risk)
  BY DEF Disrupts
<1>2. i \in Matching(verb)
  BY <1>1 DEF Matching
<1> DEFINE first == FirstMatch(verb)
<1>3. first \in DOMAIN Rules /\ first <= i
  BY <1>2, FirstMatches DEF Matching
<1> HIDE DEF first
<1>4. Disruptive(Rules[first].risk)
  BY <1>1, <1>3, DisruptiveRulesFirst
<1>5. CASE verb \in DOMAIN Overrides
  <2>1. Disruptive(Overrides[verb])
    BY <1>5 DEF OverridesKeepRisk
  <2>2. Classify(verb).risk = Overrides[verb]
    BY <1>2, <1>5 DEF Classify, Unclassified
  <2>3. QED
    BY <2>1, <2>2
<1>6. CASE verb \notin DOMAIN Overrides
  <2>1. Classify(verb).risk = Rules[first].risk
    BY <1>2, <1>6 DEF Classify, first
  <2>2. QED
    BY <1>4, <2>1
<1>7. QED
  BY <1>5, <1>6

LEMMA UndoingIsDisruptive ==
    ASSUME OverridesKeepRisk, NEW verb, verb.phrasing = "undoing"
    PROVE  Disruptive(Classify(verb).risk)
<1>1. CASE verb \in DOMAIN Overrides
  BY <1>1 DEF OverridesKeepRisk, Classify, Unclassified
<1>2. CASE verb \notin DOMAIN Overrides
  BY <1>2, DisruptiveRisks DEF Classify, Unclassified
<1>3. QED
  BY <1>1, <1>2

\* What the guard lets pass.
LEMMA GuardHolds ==
    ASSUME OverridesKeepRisk, NEW action, action.verb \in Verbs, OneDisruption(action.verb),
           NEW files, AskedOfItsFile(action, files), MachineMay(action, files)
    PROVE  /\ action.target \notin Protected
           /\ action.verb.phrasing = "plain"
           /\ \A word \in action.verb.words :
                /\ ~Irrevocable(word)
                /\ Disrupts(word) => /\ Criticality(files, action.target) # "CRITICAL"
                                     /\ IdentityRole(files, action.target) = "STANDARD"
<1> DEFINE verb == action.verb
           class == Classify(verb)
<1>1. /\ Allowed(action)
      /\ Disruptive(class.risk) => Assess(action, files).level = "STANDARD"
      /\ Reversibility(verb, class.risk) # "IRREVERSIBLE"
  BY DEF MachineMay, Assess
<1>2. action.target \notin Protected
  BY <1>1 DEF Allowed
<1>3. verb.phrasing = "plain"
  <2>1. verb.phrasing \in {"plain", "undoing"}
    BY <1>1 DEF Allowed, Verbs
  <2>2. verb.phrasing # "undoing"
    BY <1>1, UndoingIsDisruptive DEF Reversibility
  <2>3. QED
    BY <2>1, <2>2
<1>4. ASSUME NEW word \in verb.words, Disrupts(word)
      PROVE  /\ ~Irrevocable(word)
             /\ Criticality(files, action.target) # "CRITICAL"
             /\ IdentityRole(files, action.target) = "STANDARD"
  <2>1. Disruptive(class.risk)
    BY <1>3, <1>4, DisruptionIsSeen
  <2>2. (verb.words \cap SelfLimiting # {}) \/ (verb.words \cap Inverses # {})
    BY <1>1, <1>3, <2>1 DEF Reversibility
  <2>3. PICK other \in verb.words : other \in Inverses \cup SelfLimiting
    BY <2>2
  <2>4. other = word
    BY <1>4, <2>3, TakenBackDisrupts DEF OneDisruption
  <2>5. ~Irrevocable(word)
    BY <2>3, <2>4 DEF Irrevocable
  <2>6. /\ class.kind \notin {"ip", "endpoint"} => Criticality(files, action.target) # "CRITICAL"
        /\ class.kind # "user" => IdentityRole(files, action.target) = "STANDARD"
    BY <1>4, <2>5 DEF AskedOfItsFile
  <2>7. /\ class.kind \in {"ip", "endpoint"} => Criticality(files, action.target) = "STANDARD"
        /\ class.kind = "user" => IdentityRole(files, action.target) = "STANDARD"
    BY <1>1, <2>1 DEF Assess
  <2>8. QED
    BY <2>5, <2>6, <2>7
<1>5. QED
  BY <1>2, <1>3, <1>4 DEF Irrevocable

\* A plan that the machine may carry out neither takes what cannot be taken
\* back nor disrupts what is set apart (F1, F2, F4), as long as its verbs call
\* for one disruption each and the guard asks the right file (autopilot_allows).
THEOREM StaysWithinTheGuards == ASSUME PlainlySpoken PROVE Spec => WithinTheGuards
<1>1. ASSUME TypeOK, [Next]_vars, NEW s \in Situations, Clears(s), NEW action \in pass[s].plan
      PROVE  /\ action.target \notin Protected
             /\ action.verb.phrasing = "plain"
             /\ \A word \in action.verb.words :
                  /\ ~Irrevocable(word)
                  /\ Disrupts(word) => /\ Criticality(site, action.target) # "CRITICAL"
                                       /\ IdentityRole(site, action.target) = "STANDARD"
  <2>1. Judge(s) /\ pass \in [Situations -> Pass]
    BY <1>1, OnlyJudgeClears DEF TypeOK
  <2>2. AutopilotAllows(pass[s].plan, site)
    BY <1>1, <2>1 DEF Judge, Clears, Idle
  <2>3. pass[s].plan \in Plans /\ site \in SiteFiles
    BY <1>1, <2>1 DEF Pass, TypeOK
  <2>4. action.verb \in Verbs /\ OneDisruption(action.verb) /\ AskedOfItsFile(action, site)
    BY <1>1, <2>3, AutonomyAssumption DEF PlainlySpoken
  <2>5. MachineMay(action, site)
    BY <1>1, <2>2 DEF AutopilotAllows
  <2>6. QED
    BY <2>4, <2>5, GuardHolds DEF PlainlySpoken
<1>2. TypeOK /\ [Next]_vars
        => [\A s \in Situations : Clears(s) =>
              \A action \in pass[s].plan :
                /\ action.target \notin Protected
                /\ action.verb.phrasing = "plain"
                /\ \A word \in action.verb.words :
                     /\ ~Irrevocable(word)
                     /\ Disrupts(word) => /\ Criticality(site, action.target) # "CRITICAL"
                                          /\ IdentityRole(site, action.target) = "STANDARD"]_vars
  BY <1>1
<1>3. QED
  BY <1>2, TypeCorrect, PTL DEF Spec, WithinTheGuards
=============================================================================
