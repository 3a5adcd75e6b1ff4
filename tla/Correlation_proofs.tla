-------------------------- MODULE Correlation_proofs --------------------------
(***************************************************************************)
(* What correlation guarantees for any number of detections, any entities, *)
(* any window and any cap: with any overlap of intakes, and one at a time. *)
(* The last part shows that intakes that come one at a time build exactly  *)
(* the situations that shared entities call for.                           *)
(***************************************************************************)
EXTENDS Correlation, FiniteSetTheorems, WellFoundedInduction, TLAPS

PCs == Ended \cup {"look", "choose", "place", "load", "absorb", "measure", "update"}
Seen == UNION {[E -> Row] : E \in SUBSET Detections}
Intake == [pc : PCs, seen : Seen, chosen : Detections \cup {NoSituation},
           targets : SUBSET Detections, alerted : SUBSET Detections,
           members : SUBSET Detections]

\* An intake that has not placed its detection yet.
BeforePlace == {"none", "look", "choose", "place"}

Detection == [stored : BOOLEAN, entities : SUBSET Entities, detected_at : Times,
              home : Detections \cup {NoSituation}]
Decision == {"none", "PENDING", "corrected", "settled", "SUPERSEDED"}

TypeInv ==
    /\ det \in [Detections -> Detection] /\ sit \in [Detections -> Row]
    /\ decision \in [Detections -> Decision]
    /\ intake \in [Detections -> Intake]
    /\ failures \in 0..MaxFailures

\* Where an intake stands and what its detection's row says agree.
HomeInv == \A d \in Detections : intake[d].pc \in BeforePlace => det[d].home = NoSituation

-----------------------------------------------------------------------------
LEMMA TimesType ==
      Times \subseteq Nat /\ 0 \in Times
  BY CorrelationAssumption DEF Times

\* What a set of detections counts.
LEMMA Counts ==
    ASSUME NEW E \in SUBSET Detections
    PROVE  IsFiniteSet(E) /\ Cardinality(E) \in Nat /\ (Cardinality(E) = 0 <=> E = {})
  BY CorrelationAssumption, FS_Subset, FS_CardinalityType, FS_EmptySet

\* A ranking names each match once; what is absorbed is not the winner.
LEMMA RankingOf ==
    ASSUME NEW d, NEW E \in SUBSET Detections, E # {},
           NEW r \in Rankings(d, E)
    PROVE  r[1] \in E /\ Absorbed(d, r) \subseteq E /\ r[1] \notin Absorbed(d, r)
<1>1. Cardinality(E) \in Nat /\ Cardinality(E) # 0
  BY Counts
<1> DEFINE n == Cardinality(E)
<1>2. n \in Nat \ {0}
  BY <1>1
<1> HIDE DEF n
<1>3. r \in [1..n -> E] /\ \A i, j \in DOMAIN r : i < j => r[i] # r[j]
  BY DEF Rankings, n
<1>4. DOMAIN r = 1..n /\ r \in Seq(E)
  BY <1>2, <1>3
<1>5. Len(r) = n
  BY <1>2, <1>4
<1>6. Absorbed(d, r) \subseteq {r[i] : i \in 2..n}
  BY <1>5 DEF Absorbed
<1>7. \A i \in 2..n : i \in DOMAIN r /\ r[i] \in E /\ r[1] # r[i]
  BY <1>2, <1>3, <1>4
<1>8. r[1] \in E
  BY <1>2, <1>3
<1>9. QED
  BY <1>6, <1>7, <1>8

\* A row with the aggregates of its members is a row.
LEMMA DerivedRow ==
    ASSUME TypeInv, NEW row \in Row,
           NEW E \in SUBSET Detections, NEW span \in Spans(E)
    PROVE  Derived(row, E, span) \in Row /\ Derived(row, E, span).status = row.status
<1>1. span[1] \in E /\ span[2] \in E
  BY DEF Spans
<1>2. /\ det[span[1]].detected_at \in Times /\ det[span[2]].detected_at \in Times
      /\ UNION {det[e].entities : e \in E} \in SUBSET Entities
  BY <1>1 DEF TypeInv, Detection
<1>3. Cardinality(E) \in Nat
  BY Counts
<1>4. QED
  BY <1>2, <1>3 DEF Derived, Row

-----------------------------------------------------------------------------
LEMMA Beginning == NotStarted \in Intake
<1>1. <<>> \in [{} -> Row]
  OBVIOUS
<1>2. QED
  BY <1>1 DEF NotStarted, Intake, PCs, Ended, Seen

\* The ways an intake moves on keep its locals well typed.
LEMMA MovesOn ==
    ASSUME NEW i \in Intake, NEW pc \in PCs
    PROVE  /\ [i EXCEPT !.pc = pc] \in Intake
           /\ \A seen \in Seen : [i EXCEPT !.seen = seen, !.pc = pc] \in Intake
           /\ \A seen \in Seen, chosen \in Detections \cup {NoSituation},
                 T \in SUBSET Detections :
                 [i EXCEPT !.chosen = chosen, !.targets = T, !.seen = seen, !.pc = pc] \in Intake
           /\ \A chosen \in Detections \cup {NoSituation} :
                 [i EXCEPT !.chosen = chosen, !.pc = pc] \in Intake
           /\ \A T, A \in SUBSET Detections :
                 [i EXCEPT !.targets = T, !.alerted = A, !.pc = pc] \in Intake
           /\ \A M \in SUBSET Detections : [i EXCEPT !.members = M, !.pc = pc] \in Intake
  BY DEF Intake

LEMMA TypeInit == ASSUME Init PROVE TypeInv
<1>1. NoRow \in Row
  BY TimesType DEF NoRow, Row
<1>2. intake \in [Detections -> Intake]
  BY Beginning DEF Init
<1>3. failures \in 0..MaxFailures
  BY CorrelationAssumption DEF Init
<1>4. QED
  BY <1>1, <1>2, <1>3, TimesType DEF Init, TypeInv, Detection, Decision

\* TypeOK follows from the domains of the variables.
LEMMA TypeOfVariables == ASSUME TypeInv PROVE TypeOK
<1>1. ASSUME NEW d \in Detections
      PROVE  /\ intake[d].pc \in PCs
             /\ intake[d].chosen \in Detections \cup {NoSituation}
             /\ intake[d].targets \subseteq Detections
             /\ intake[d].alerted \subseteq Detections
             /\ intake[d].members \subseteq Detections
             /\ DOMAIN intake[d].seen \subseteq Detections
  BY DEF TypeInv, Intake, Seen
<1>2. QED
  BY <1>1 DEF TypeInv, TypeOK, PCs, Detection, Decision

LEMMA TypeStep ==
    ASSUME TypeInv, [Next]_vars
    PROVE  TypeInv'
<1> USE DEF TypeInv
<1>1. ASSUME NEW d \in Detections, Receive(d) PROVE TypeInv'
  <2>1. PICK keys \in SUBSET Entities, at \in Times :
           /\ det' = [det EXCEPT ![d] = [stored |-> TRUE, entities |-> keys,
                                         detected_at |-> at, home |-> NoSituation]]
           /\ intake' = [intake EXCEPT ![d].pc = IF keys = {} THEN "place" ELSE "look"]
    BY <1>1 DEF Receive
  <2>2. det' \in [Detections -> Detection]
    BY <2>1 DEF Detection
  <2>3. intake' \in [Detections -> Intake]
    BY <2>1 DEF Intake, PCs
  <2>4. QED
    BY <1>1, <2>2, <2>3 DEF Receive
<1>2. ASSUME NEW d \in Detections, ReadCandidates(d) PROVE TypeInv'
  <2>1. [s \in {c \in Detections : IsCandidate(d, c)} |-> sit[s]] \in Seen
    <3>1. {c \in Detections : IsCandidate(d, c)} \in SUBSET Detections
      OBVIOUS
    <3>2. [s \in {c \in Detections : IsCandidate(d, c)} |-> sit[s]]
             \in [{c \in Detections : IsCandidate(d, c)} -> Row]
      OBVIOUS
    <3>3. QED
      BY <3>1, <3>2 DEF Seen
  <2>2. "choose" \in PCs /\ intake[d] \in Intake
    BY DEF PCs
  <2>3. [intake[d] EXCEPT !.seen = [s \in {c \in Detections : IsCandidate(d, c)} |-> sit[s]],
                          !.pc = "choose"] \in Intake
    BY <2>1, <2>2, MovesOn
  <2>4. QED
    BY <1>2, <2>3 DEF ReadCandidates
<1>3. ASSUME NEW d \in Detections, Choose(d) PROVE TypeInv'
  <2> DEFINE matches == {s \in DOMAIN intake[d].seen : Shared(d, s) # {} /\ ~Frozen(s)}
  <2>1. matches \in SUBSET Detections
    BY DEF Intake, Seen
  <2>2. PICK r \in Rankings(d, matches) :
            intake' = [intake EXCEPT ![d] = [@ EXCEPT
                   !.chosen = IF matches = {} THEN NoSituation ELSE r[1],
                   !.targets = IF matches = {} THEN {} ELSE Absorbed(d, r),
                   !.seen = <<>>,
                   !.pc = "place"]]
    BY <1>3 DEF Choose
  <2>3. matches # {} => r[1] \in Detections /\ Absorbed(d, r) \in SUBSET Detections
    BY <2>1, RankingOf
  <2>4. <<>> \in Seen
    BY Beginning DEF NotStarted, Intake
  <2>5. intake' \in [Detections -> Intake]
    <3> HIDE DEF matches
    <3>1. /\ (IF matches = {} THEN NoSituation ELSE r[1]) \in Detections \cup {NoSituation}
          /\ (IF matches = {} THEN {} ELSE Absorbed(d, r)) \in SUBSET Detections
          /\ "place" \in PCs /\ intake[d] \in Intake
      BY <2>3 DEF PCs
    <3>2. [intake[d] EXCEPT
                   !.chosen = IF matches = {} THEN NoSituation ELSE r[1],
                   !.targets = IF matches = {} THEN {} ELSE Absorbed(d, r),
                   !.seen = <<>>,
                   !.pc = "place"] \in Intake
      BY <2>4, <3>1, MovesOn
    <3>3. QED
      BY <2>2, <3>2
  <2>6. QED
    BY <1>3, <2>5 DEF Choose
<1>4. ASSUME NEW d \in Detections, Place(d) PROVE TypeInv'
  <2> DEFINE chosen == IF intake[d].chosen = NoSituation THEN d ELSE intake[d].chosen
  <2>1. chosen \in Detections
    BY DEF Intake
  <2>2. [NoRow EXCEPT !.status = "OPEN", !.first_seen = det[d].detected_at,
                      !.last_seen = det[d].detected_at] \in Row
    BY TimesType DEF NoRow, Row, Detection
  <2> HIDE DEF chosen
  <2>3. /\ sit' = sit \/ sit' = [sit EXCEPT ![d] =
               [NoRow EXCEPT !.status = "OPEN", !.first_seen = det[d].detected_at,
                             !.last_seen = det[d].detected_at]]
        /\ det' = [det EXCEPT ![d].home = chosen]
        /\ intake' = [intake EXCEPT ![d] = [@ EXCEPT
                  !.chosen = chosen,
                  !.pc = IF intake[d].targets = {} THEN "measure" ELSE "load"]]
        /\ UNCHANGED <<decision, failures>>
    BY <1>4 DEF Place, chosen
  <2>4. det' \in [Detections -> Detection]
    BY <2>1, <2>3 DEF Detection
  <2>5. intake' \in [Detections -> Intake]
    <3>1. /\ (IF intake[d].targets = {} THEN "measure" ELSE "load") \in PCs
          /\ intake[d] \in Intake /\ chosen \in Detections \cup {NoSituation}
      BY <2>1 DEF PCs
    <3>2. [intake[d] EXCEPT !.chosen = chosen,
              !.pc = IF intake[d].targets = {} THEN "measure" ELSE "load"] \in Intake
      BY <3>1, MovesOn
    <3>3. QED
      BY <2>3, <3>2
  <2>6. QED
    BY <2>2, <2>3, <2>4, <2>5
<1>5. ASSUME NEW d \in Detections, Load(d) PROVE TypeInv'
  <2> DEFINE open == {s \in intake[d].targets \ {intake[d].chosen} : sit[s].status = "OPEN"}
  <2>1. intake' = [intake EXCEPT ![d] = [intake[d] EXCEPT
              !.targets = open, !.alerted = {s \in open : decision[s] # "none"},
              !.pc = "absorb"]]
    BY <1>5 DEF Load
  <2>2. open \in SUBSET Detections /\ {s \in open : decision[s] # "none"} \in SUBSET Detections
    BY DEF Intake
  <2>3. "absorb" \in PCs /\ intake[d] \in Intake
    BY DEF PCs
  <2> HIDE DEF open
  <2>4. [intake[d] EXCEPT !.targets = open, !.alerted = {s \in open : decision[s] # "none"},
              !.pc = "absorb"] \in Intake
    BY <2>2, <2>3, MovesOn
  <2>5. QED
    BY <1>5, <2>1, <2>4 DEF Load
<1>6. ASSUME NEW d \in Detections, Absorb(d) PROVE TypeInv'
  <2>1. intake[d].chosen \in Detections \cup {NoSituation}
    BY DEF Intake
  <2>2. det' \in [Detections -> Detection]
    BY <1>6, <2>1 DEF Absorb, Moved, Detection
  <2>3. sit' \in [Detections -> Row]
    BY <1>6, <2>1 DEF Absorb, MarkedMerged, Row
  <2>4. intake' \in [Detections -> Intake]
    <3>1. "measure" \in PCs /\ intake[d] \in Intake
      BY DEF PCs
    <3>2. [intake[d] EXCEPT !.targets = {}, !.alerted = {}, !.pc = "measure"] \in Intake
      BY <3>1, MovesOn
    <3>3. QED
      BY <1>6, <3>2 DEF Absorb
  <2>5. decision' \in [Detections -> Decision]
    BY <1>6 DEF Absorb, Decision
  <2>6. QED
    BY <1>6, <2>2, <2>3, <2>4, <2>5 DEF Absorb
<1>7. ASSUME NEW d \in Detections, Measure(d) PROVE TypeInv'
  <2>1. Members(intake[d].chosen) \in SUBSET Detections
    BY DEF Members
  <2>2. intake' \in [Detections -> Intake]
    <3>1. /\ (IF Members(intake[d].chosen) = {} THEN "done" ELSE "update") \in PCs
          /\ intake[d] \in Intake
      BY DEF PCs, Ended
    <3>2. [intake[d] EXCEPT !.members = Members(intake[d].chosen),
              !.pc = IF Members(intake[d].chosen) = {} THEN "done" ELSE "update"] \in Intake
      BY <2>1, <3>1, MovesOn
    <3>3. QED
      BY <1>7, <3>2 DEF Measure
  <2>3. QED
    BY <1>7, <2>2 DEF Measure
<1>8. ASSUME NEW d \in Detections, Update(d) PROVE TypeInv'
  <2>1. intake[d].members \in SUBSET Detections
    BY DEF Intake
  <2>2. PICK span \in Spans(intake[d].members) :
            sit' = [sit EXCEPT ![intake[d].chosen] =
                       Derived(sit[intake[d].chosen], intake[d].members, span)]
    BY <1>8 DEF Update
  <2>3. sit' \in [Detections -> Row]
    BY <2>1, <2>2, DerivedRow
  <2>4. intake' \in [Detections -> Intake]
    <3>1. "done" \in PCs /\ intake[d] \in Intake
      BY DEF PCs, Ended
    <3>2. [intake[d] EXCEPT !.members = {}, !.pc = "done"] \in Intake
      BY <3>1, MovesOn
    <3>3. QED
      BY <1>8, <3>2 DEF Update
  <2>5. QED
    BY <1>8, <2>3, <2>4 DEF Update
<1>9. ASSUME NEW d \in Detections, Fail(d) PROVE TypeInv'
  <2>1. [NotStarted EXCEPT !.pc = "dead"] \in Intake
    BY Beginning DEF Intake, PCs, Ended
  <2>2. failures' \in 0..MaxFailures
    BY <1>9, CorrelationAssumption DEF Fail
  <2>3. QED
    BY <1>9, <2>1, <2>2 DEF Fail
<1>10. ASSUME NEW s \in Detections, Propose(s) \/ Revise(s) \/ Settle(s) PROVE TypeInv'
  BY <1>10 DEF Propose, Revise, Settle, Decision
<1>11. CASE UNCHANGED vars
  BY <1>11 DEF vars
<1>12. QED
  BY <1>1, <1>2, <1>3, <1>4, <1>5, <1>6, <1>7, <1>8, <1>9, <1>10, <1>11
     DEF Next, Correlate

\* Every variable keeps its domain, whatever overlaps: the code's rows and
\* the locals of correlate, merge_situations and recompute.
THEOREM TypeCorrect == Spec => []TypeOK
<1>1. Init => TypeInv
  BY TypeInit
<1>2. TypeInv /\ [Next]_vars => TypeInv'
  BY TypeStep
<1>3. TypeInv => TypeOK
  BY TypeOfVariables
<1>4. QED
  BY <1>1, <1>2, <1>3, PTL DEF Spec

-----------------------------------------------------------------------------
\* Before its place is written, a detection is in no situation; only an
\* intake that has placed its detection moves others.
LEMMA HomeStep ==
    ASSUME TypeInv, HomeInv, [Next]_vars
    PROVE  HomeInv'
<1> USE DEF TypeInv
<1>1. ASSUME NEW d \in Detections,
             \A e \in Detections : e # d => intake'[e] = intake[e] /\ det'[e] = det[e],
             intake'[d].pc \in BeforePlace => det'[d].home = NoSituation
      PROVE  HomeInv'
  BY <1>1 DEF HomeInv
<1>2. ASSUME NEW d \in Detections, Receive(d) PROVE HomeInv'
  <2>1. det'[d].home = NoSituation
    BY <1>2 DEF Receive
  <2>2. \A e \in Detections : e # d => intake'[e] = intake[e] /\ det'[e] = det[e]
    BY <1>2 DEF Receive
  <2>3. QED
    BY <1>1, <2>1, <2>2
<1>3. ASSUME NEW d \in Detections,
             ReadCandidates(d) \/ Choose(d) \/ Load(d) \/ Measure(d) \/ Update(d) \/ Fail(d)
      PROVE  HomeInv'
  <2>1. det' = det /\ \A e \in Detections : e # d => intake'[e] = intake[e]
    BY <1>3 DEF ReadCandidates, Choose, Load, Measure, Update, Fail
  <2>2. intake'[d].pc \in BeforePlace => intake[d].pc \in BeforePlace
    <3>1. intake[d] \in Intake
      OBVIOUS
    <3>2. CASE ReadCandidates(d) \/ Choose(d)
      BY <3>1, <3>2 DEF ReadCandidates, Choose, BeforePlace
    <3>3. CASE Load(d) \/ Update(d)
      <4>1. intake'[d].pc \in {"absorb", "done"}
        <5>1. CASE Load(d)
          BY <3>1, <5>1 DEF Load, Intake
        <5>2. CASE Update(d)
          BY <3>1, <5>2 DEF Update, Intake
        <5>3. QED
          BY <3>3, <5>1, <5>2
      <4>2. QED
        BY <4>1 DEF BeforePlace
    <3>4. CASE Measure(d)
      <4>1. intake'[d].pc \in {"done", "update"}
        BY <3>1, <3>4 DEF Measure, Intake
      <4>2. QED
        BY <4>1 DEF BeforePlace
    <3>5. CASE Fail(d)
      BY <3>1, <3>5 DEF Fail, BeforePlace, NotStarted
    <3>6. QED
      BY <1>3, <3>2, <3>3, <3>4, <3>5
  <2>3. QED
    BY <1>1, <2>1, <2>2 DEF HomeInv
<1>4. ASSUME NEW d \in Detections, Place(d) PROVE HomeInv'
  <2>1. /\ \A e \in Detections : e # d => intake'[e] = intake[e] /\ det'[e] = det[e]
        /\ intake'[d].pc \in {"measure", "load"}
    BY <1>4 DEF Place, Intake
  <2>2. QED
    BY <1>1, <2>1 DEF BeforePlace
<1>5. ASSUME NEW d \in Detections, Absorb(d) PROVE HomeInv'
  <2>1. /\ \A e \in Detections : e # d => intake'[e] = intake[e]
        /\ intake'[d].pc = "measure"
    <3>1. intake' = [intake EXCEPT ![d] = [intake[d] EXCEPT
                  !.targets = {}, !.alerted = {}, !.pc = "measure"]]
      BY <1>5 DEF Absorb
    <3>2. [intake[d] EXCEPT !.targets = {}, !.alerted = {}, !.pc = "measure"].pc = "measure"
      BY DEF Intake
    <3>3. QED
      BY <3>1, <3>2
  <2>2. \A e \in Detections : det[e].home = NoSituation => det'[e] = det[e]
    BY <1>5, CorrelationAssumption DEF Absorb, Moved, Intake
  <2>3. QED
    BY <2>1, <2>2 DEF HomeInv, BeforePlace
<1>6. ASSUME NEW s \in Detections, Propose(s) \/ Revise(s) \/ Settle(s) PROVE HomeInv'
  BY <1>6 DEF Propose, Revise, Settle, HomeInv
<1>7. CASE UNCHANGED vars
  BY <1>7 DEF vars, HomeInv
<1>8. QED
  BY <1>2, <1>3, <1>4, <1>5, <1>6, <1>7 DEF Next, Correlate

\* Whatever overlaps and whatever fails: once two detections are in one
\* situation they are together ever after.  A merge moves all the members of
\* a situation in one statement, and nothing else moves a detection that is
\* placed (correlate, merge_situations).
THEOREM StayTogether == Spec => TogetherForever
<1>1. Init => TypeInv /\ HomeInv
  <2>1. Init => HomeInv
    BY DEF Init, HomeInv
  <2>2. QED
    BY <2>1, TypeInit
<1>2. TypeInv /\ HomeInv /\ [Next]_vars => (TypeInv /\ HomeInv)'
  BY TypeStep, HomeStep
<1>3. ASSUME TypeInv, HomeInv, [Next]_vars
      PROVE  [\A d, e \in Placed :
                 det[d].home = det[e].home => det'[d].home = det'[e].home]_vars
  <2> SUFFICES ASSUME NEW a \in Placed, NEW b \in Placed, det[a].home = det[b].home
               PROVE  det'[a].home = det'[b].home
    OBVIOUS
  <2>0. /\ a \in Detections /\ b \in Detections
        /\ intake[a].pc \notin BeforePlace /\ intake[b].pc \notin BeforePlace
    BY <1>3 DEF Placed, HomeInv
  <2>1. ASSUME NEW d \in Detections, Receive(d) \/ Place(d) PROVE det'[a] = det[a] /\ det'[b] = det[b]
    <3>1. a # d /\ b # d
      BY <2>0, <2>1 DEF Receive, Place, BeforePlace
    <3>2. QED
      BY <1>3, <2>0, <2>1, <3>1 DEF Receive, Place, TypeInv
  <2>2. ASSUME NEW d \in Detections, Absorb(d) PROVE det'[a].home = det'[b].home
    BY <1>3, <2>0, <2>2 DEF Absorb, Moved, TypeInv, Detection
  <2>3. ASSUME det' = det PROVE det'[a].home = det'[b].home
    BY <2>3
  <2>4. QED
    BY <1>3, <2>1, <2>2, <2>3 DEF Next, Correlate, ReadCandidates, Choose, Load, Measure, Update,
       Fail, Propose, Revise, Settle, vars
<1>4. QED
  BY <1>1, <1>2, <1>3, PTL DEF Spec, TogetherForever

-----------------------------------------------------------------------------
(* One intake at a time *)

Alone == \A d, e \in InProgress : d = e

\* What an intake has read is still so.
Fresh(d) ==
    /\ intake[d].pc \in BeforePlace => sit[d].status = "NONE"
    /\ intake[d].pc \in {"none", "look", "choose"} =>
           intake[d].chosen = NoSituation /\ intake[d].targets = {}
    /\ intake[d].pc = "choose" => \A s \in DOMAIN intake[d].seen : sit[s].status = "OPEN"
    /\ intake[d].pc = "place" /\ intake[d].chosen # NoSituation =>
           sit[intake[d].chosen].status = "OPEN"
    /\ intake[d].pc \in {"load", "absorb", "measure", "update"} =>
           intake[d].chosen \in Detections /\ sit[intake[d].chosen].status = "OPEN"
    /\ intake[d].pc \in {"place", "load", "absorb"} =>
           /\ intake[d].chosen \notin intake[d].targets
           /\ \A s \in intake[d].targets : sit[s].status = "OPEN"

SerialInv == TypeInv /\ Alone /\ NothingStrays /\ \A d \in Detections : Fresh(d)

\* When d takes a step nobody else is in progress, and nobody else loses
\* anything by it.
LEMMA OthersStay ==
    ASSUME SerialInv, TypeInv', NothingStrays', NEW d \in Detections, Fresh(d)',
           \A e \in Detections : e # d =>
               /\ intake'[e] = intake[e] /\ intake[e].pc \in Ended
               /\ sit[e].status = "NONE" => sit'[e].status = "NONE"
    PROVE  SerialInv'
<1>1. Alone'
  BY DEF Alone, InProgress
<1>2. ASSUME NEW e \in Detections, e # d PROVE Fresh(e)'
  <2>1. /\ intake'[e] = intake[e] /\ intake[e].pc \in Ended
        /\ sit[e].status = "NONE" => sit'[e].status = "NONE"
    BY <1>2
  <2>2. Fresh(e)
    BY DEF SerialInv
  <2>3. QED
    BY <2>1, <2>2 DEF Fresh, Ended, BeforePlace
<1>3. QED
  BY <1>1, <1>2 DEF SerialInv

\* A step of d finds all others at rest.
LEMMA OthersRest ==
    ASSUME SerialInv, MaxIntakes = 1, NEW d \in Detections,
           intake[d].pc \notin Ended \/ Receive(d)
    PROVE  \A e \in Detections : e # d => intake[e].pc \in Ended
<1>1. CASE intake[d].pc \notin Ended
  BY <1>1 DEF SerialInv, Alone, InProgress
<1>2. CASE Receive(d)
  <2>1. InProgress \in SUBSET Detections /\ Cardinality(InProgress) < 1
    BY <1>2 DEF Receive, InProgress
  <2>2. InProgress = {}
    BY <2>1, Counts
  <2>3. QED
    BY <2>2 DEF InProgress
<1>3. QED
  BY <1>1, <1>2

LEMMA SerialInit == ASSUME Init PROVE SerialInv
<1>1. TypeInv
  BY TypeInit
<1>2. Alone /\ NothingStrays
  BY DEF Init, Alone, InProgress, Ended, NotStarted, NothingStrays, Placed
<1>3. \A d \in Detections : Fresh(d)
  BY DEF Init, Fresh, NotStarted, NoRow
<1>4. QED
  BY <1>1, <1>2, <1>3 DEF SerialInv

LEMMA SerialStep ==
    ASSUME SerialInv, MaxIntakes = 1, [Next]_vars
    PROVE  SerialInv'
<1>0. TypeInv /\ TypeInv' /\ NothingStrays /\ \A d \in Detections : Fresh(d)
  BY TypeStep DEF SerialInv
<1>1. ASSUME NEW d \in Detections, Receive(d) PROVE SerialInv'
  <2>1. /\ intake[d].pc = "none" /\ sit' = sit
        /\ intake'[d].chosen = intake[d].chosen /\ intake'[d].targets = intake[d].targets
        /\ intake'[d].pc \in {"place", "look"}
        /\ \A e \in Detections : e # d => intake'[e] = intake[e] /\ det'[e] = det[e]
        /\ det'[d].home = NoSituation
    BY <1>0, <1>1 DEF Receive, TypeInv, Intake
  <2>2. Fresh(d)'
    BY <1>0, <2>1 DEF Fresh, BeforePlace
  <2>3. NothingStrays'
    BY <1>0, <2>1 DEF NothingStrays, Placed
  <2>4. QED
    BY <1>0, <1>1, <2>1, <2>2, <2>3, OthersRest, OthersStay
<1>2. ASSUME NEW d \in Detections, ReadCandidates(d) PROVE SerialInv'
  <2>1. /\ intake[d].pc = "look" /\ sit' = sit /\ det' = det
        /\ intake'[d].chosen = intake[d].chosen /\ intake'[d].targets = intake[d].targets
        /\ intake'[d].pc = "choose"
        /\ DOMAIN intake'[d].seen = {c \in Detections : IsCandidate(d, c)}
        /\ \A e \in Detections : e # d => intake'[e] = intake[e]
    <3>1. intake[d] \in Intake /\ intake \in [Detections -> Intake]
      BY <1>0 DEF TypeInv
    <3> DEFINE seen == [s \in {c \in Detections : IsCandidate(d, c)} |-> sit[s]]
    <3>2. intake' = [intake EXCEPT ![d] = [intake[d] EXCEPT !.seen = seen, !.pc = "choose"]]
      BY <1>2 DEF ReadCandidates
    <3>3. DOMAIN seen = {c \in Detections : IsCandidate(d, c)}
      OBVIOUS
    <3> HIDE DEF seen
    <3>4. /\ intake'[d] = [intake[d] EXCEPT !.seen = seen, !.pc = "choose"]
          /\ \A e \in Detections : e # d => intake'[e] = intake[e]
      BY <3>1, <3>2
    <3>5. /\ intake'[d].chosen = intake[d].chosen /\ intake'[d].targets = intake[d].targets
          /\ intake'[d].pc = "choose" /\ intake'[d].seen = seen
      BY <3>1, <3>4 DEF Intake
    <3>6. QED
      BY <1>2, <3>3, <3>4, <3>5 DEF ReadCandidates
  <2>2. Fresh(d)'
    BY <1>0, <2>1 DEF Fresh, BeforePlace, IsCandidate
  <2>3. NothingStrays'
    BY <1>0, <2>1 DEF NothingStrays, Placed
  <2>4. intake[d].pc \notin Ended
    BY <2>1 DEF Ended
  <2>5. QED
    BY <1>0, <2>1, <2>2, <2>3, <2>4, OthersRest, OthersStay
<1>3. ASSUME NEW d \in Detections, Choose(d) PROVE SerialInv'
  <2> DEFINE matches == {s \in DOMAIN intake[d].seen : Shared(d, s) # {} /\ ~Frozen(s)}
  <2>1. intake[d] \in Intake /\ matches \in SUBSET Detections
    BY <1>0 DEF TypeInv, Intake, Seen
  <2>2. PICK r \in Rankings(d, matches) :
            intake' = [intake EXCEPT ![d] = [@ EXCEPT
                   !.chosen = IF matches = {} THEN NoSituation ELSE r[1],
                   !.targets = IF matches = {} THEN {} ELSE Absorbed(d, r),
                   !.seen = <<>>,
                   !.pc = "place"]]
    BY <1>3 DEF Choose
  <2>3. matches # {} => /\ r[1] \in matches /\ Absorbed(d, r) \subseteq matches
                        /\ r[1] \notin Absorbed(d, r)
    BY <2>1, RankingOf
  <2>4. intake[d].pc = "choose" /\ sit' = sit /\ det' = det
    BY <1>3 DEF Choose
  <2>5. \A s \in matches : sit[s].status = "OPEN" /\ s \in Detections
    BY <1>0, <2>1, <2>4 DEF Fresh
  <2> HIDE DEF matches
  <2>6. /\ intake'[d].chosen = IF matches = {} THEN NoSituation ELSE r[1]
        /\ intake'[d].targets = IF matches = {} THEN {} ELSE Absorbed(d, r)
        /\ intake'[d].pc = "place"
        /\ \A e \in Detections : e # d => intake'[e] = intake[e]
    BY <1>0, <2>1, <2>2 DEF TypeInv, Intake
  <2>7. /\ intake'[d].chosen # NoSituation => sit[intake'[d].chosen].status = "OPEN"
        /\ intake'[d].chosen \notin intake'[d].targets
        /\ \A s \in intake'[d].targets : sit[s].status = "OPEN"
    BY <2>3, <2>5, <2>6
  <2>8. Fresh(d)'
    <3>1. sit[d].status = "NONE"
      BY <1>0, <2>4 DEF Fresh, BeforePlace
    <3>2. QED
      BY <2>4, <2>6, <2>7, <3>1 DEF Fresh
  <2>9. NothingStrays'
    BY <1>0, <2>4 DEF NothingStrays, Placed
  <2>10. intake[d].pc \notin Ended
    BY <2>4 DEF Ended
  <2>11. QED
    BY <1>0, <2>4, <2>6, <2>8, <2>9, <2>10, OthersRest, OthersStay
<1>4. ASSUME NEW d \in Detections, Place(d) PROVE SerialInv'
  <2> DEFINE chosen == IF intake[d].chosen = NoSituation THEN d ELSE intake[d].chosen
  <2>1. intake[d] \in Intake /\ intake[d].pc = "place" /\ chosen \in Detections
    BY <1>0, <1>4 DEF TypeInv, Intake, Place
  <2>2. /\ intake[d].chosen # NoSituation => sit[intake[d].chosen].status = "OPEN"
        /\ sit[d].status = "NONE"
        /\ \A s \in intake[d].targets : sit[s].status = "OPEN" /\ s \in Detections
        /\ intake[d].chosen \notin intake[d].targets
    BY <1>0, <2>1 DEF Fresh, BeforePlace, Intake
  <2>3. /\ sit' = IF chosen = d THEN [sit EXCEPT ![d] = [NoRow EXCEPT !.status = "OPEN",
                        !.first_seen = det[d].detected_at, !.last_seen = det[d].detected_at]]
                  ELSE sit
        /\ det' = [det EXCEPT ![d].home = chosen]
        /\ intake' = [intake EXCEPT ![d] = [@ EXCEPT !.chosen = chosen,
                  !.pc = IF intake[d].targets = {} THEN "measure" ELSE "load"]]
    BY <1>4 DEF Place
  <2>4. chosen \notin intake[d].targets
    BY <2>2
  <2>5. sit'[chosen].status = "OPEN" /\ \A s \in Detections : s # d => sit'[s] = sit[s]
    <3>1. CASE chosen = d
      BY <1>0, <2>3, <3>1 DEF TypeInv, NoRow
    <3>2. CASE chosen # d
      BY <2>2, <2>3, <3>2
    <3>3. QED
      BY <3>1, <3>2
  <2>6. \A s \in Detections : sit[s].status = "OPEN" => sit'[s].status = "OPEN"
    BY <2>2, <2>5
  <2> HIDE DEF chosen
  <2>7. /\ intake'[d].chosen = chosen /\ intake'[d].targets = intake[d].targets
        /\ intake'[d].pc \in {"measure", "load"}
        /\ \A e \in Detections : e # d => intake'[e] = intake[e]
        /\ det'[d].home = chosen
        /\ \A e \in Detections : e # d => det'[e] = det[e]
    <3>1. /\ intake'[d] = [intake[d] EXCEPT !.chosen = chosen,
                  !.pc = IF intake[d].targets = {} THEN "measure" ELSE "load"]
          /\ \A e \in Detections : e # d => intake'[e] = intake[e]
      BY <1>0, <2>3 DEF TypeInv
    <3>2. /\ intake'[d].chosen = chosen /\ intake'[d].targets = intake[d].targets
          /\ intake'[d].pc \in {"measure", "load"}
      BY <2>1, <3>1 DEF Intake
    <3>3. /\ det'[d].home = chosen
          /\ \A e \in Detections : e # d => det'[e] = det[e]
      BY <1>0, <2>3 DEF TypeInv, Detection
    <3>4. QED
      BY <3>1, <3>2, <3>3
  <2>8. Fresh(d)'
    BY <2>1, <2>2, <2>4, <2>5, <2>6, <2>7 DEF Fresh, BeforePlace
  <2>9. NothingStrays'
    <3>1. \A e \in Placed : det[e].home \in Detections
      BY <1>0 DEF TypeInv, Detection, Placed
    <3>2. QED
      BY <1>0, <2>5, <2>6, <2>7, <3>1 DEF NothingStrays, Placed
  <2>10. intake[d].pc \notin Ended
    BY <2>1 DEF Ended
  <2>11. QED
    BY <1>0, <2>5, <2>7, <2>8, <2>9, <2>10, OthersRest, OthersStay
<1>5. ASSUME NEW d \in Detections, Load(d) PROVE SerialInv'
  <2>1. intake[d] \in Intake /\ intake[d].pc = "load" /\ sit' = sit /\ det' = det
    BY <1>0, <1>5 DEF TypeInv, Load
  <2>2. /\ intake'[d].chosen = intake[d].chosen /\ intake'[d].pc = "absorb"
        /\ intake'[d].targets =
               {s \in intake[d].targets \ {intake[d].chosen} : sit[s].status = "OPEN"}
        /\ \A e \in Detections : e # d => intake'[e] = intake[e]
    BY <1>0, <1>5, <2>1 DEF TypeInv, Load, Intake
  <2>3. Fresh(d)'
    BY <1>0, <2>1, <2>2 DEF Fresh, BeforePlace
  <2>4. NothingStrays'
    BY <1>0, <2>1 DEF NothingStrays, Placed
  <2>5. intake[d].pc \notin Ended
    BY <2>1 DEF Ended
  <2>6. QED
    BY <1>0, <2>1, <2>2, <2>3, <2>4, <2>5, OthersRest, OthersStay
<1>6. ASSUME NEW d \in Detections, Absorb(d) PROVE SerialInv'
  <2>1. /\ intake[d] \in Intake /\ intake[d].pc = "absorb"
        /\ intake[d].chosen \in Detections /\ sit[intake[d].chosen].status = "OPEN"
        /\ intake[d].chosen \notin intake[d].targets
        /\ \A s \in intake[d].targets : sit[s].status = "OPEN"
    BY <1>0, <1>6 DEF TypeInv, Absorb, Fresh
  <2>2. \A s \in Detections :
            /\ s \in intake[d].targets => sit'[s].status = "MERGED"
            /\ s \notin intake[d].targets => sit'[s] = sit[s]
    BY <1>0, <1>6 DEF TypeInv, Absorb, MarkedMerged, Row
  <2>3. \A e \in Detections :
            det'[e].home = IF det[e].home \in intake[d].targets THEN intake[d].chosen
                                                                ELSE det[e].home
    BY <1>0, <1>6 DEF TypeInv, Absorb, Moved, Detection
  <2>4. /\ intake'[d].chosen = intake[d].chosen /\ intake'[d].pc = "measure"
        /\ \A e \in Detections : e # d => intake'[e] = intake[e]
    BY <1>0, <1>6, <2>1 DEF TypeInv, Absorb, Intake
  <2>5. Fresh(d)'
    BY <2>1, <2>2, <2>4 DEF Fresh, BeforePlace
  <2>6. NothingStrays'
    <3>1. \A e \in Placed : det[e].home \in Detections
      BY <1>0 DEF TypeInv, Detection, Placed
    <3>2. ASSUME NEW e \in Placed' PROVE sit'[det'[e].home].status = "OPEN"
      <4>1. e \in Detections /\ det'[e].home # NoSituation
        BY <3>2 DEF Placed
      <4>2. CASE det[e].home \in intake[d].targets
        BY <2>1, <2>2, <2>3, <4>1, <4>2
      <4>3. CASE det[e].home \notin intake[d].targets
        <5>1. det'[e].home = det[e].home /\ e \in Placed
          BY <2>3, <4>1, <4>3 DEF Placed
        <5>2. QED
          BY <1>0, <2>2, <3>1, <4>3, <5>1 DEF NothingStrays
      <4>4. QED
        BY <4>2, <4>3
    <3>3. QED
      BY <3>2 DEF NothingStrays
  <2>7. intake[d].pc \notin Ended
    BY <2>1 DEF Ended
  <2>8. \A e \in Detections : sit[e].status = "NONE" => sit'[e].status = "NONE"
    BY <2>1, <2>2
  <2>9. QED
    BY <1>0, <2>4, <2>5, <2>6, <2>7, <2>8, OthersRest, OthersStay
<1>7. ASSUME NEW d \in Detections, Measure(d) PROVE SerialInv'
  <2>1. intake[d] \in Intake /\ intake[d].pc = "measure" /\ sit' = sit /\ det' = det
    BY <1>0, <1>7 DEF TypeInv, Measure
  <2>2. /\ intake'[d].chosen = intake[d].chosen /\ intake'[d].pc \in {"done", "update"}
        /\ \A e \in Detections : e # d => intake'[e] = intake[e]
    BY <1>0, <1>7, <2>1 DEF TypeInv, Measure, Intake
  <2>3. Fresh(d)'
    BY <1>0, <2>1, <2>2 DEF Fresh, BeforePlace
  <2>4. NothingStrays'
    BY <1>0, <2>1 DEF NothingStrays, Placed
  <2>5. intake[d].pc \notin Ended
    BY <2>1 DEF Ended
  <2>6. QED
    BY <1>0, <2>1, <2>2, <2>3, <2>4, <2>5, OthersRest, OthersStay
<1>8. ASSUME NEW d \in Detections, Update(d) PROVE SerialInv'
  <2>1. intake[d] \in Intake /\ intake[d].pc = "update" /\ det' = det
    BY <1>0, <1>8 DEF TypeInv, Update
  <2>2. /\ intake'[d].pc = "done"
        /\ \A e \in Detections : e # d => intake'[e] = intake[e]
    BY <1>0, <1>8, <2>1 DEF TypeInv, Update, Intake
  <2>3. \A s \in Detections : sit'[s].status = sit[s].status
    <3>1. PICK span \in Spans(intake[d].members) :
              sit' = [sit EXCEPT ![intake[d].chosen] =
                         Derived(sit[intake[d].chosen], intake[d].members, span)]
      BY <1>8 DEF Update
    <3>2. intake[d].members \in SUBSET Detections
      BY <2>1 DEF Intake
    <3>3. \A row \in Row : Derived(row, intake[d].members, span).status = row.status
      BY <1>0, <3>2, DerivedRow
    <3>4. QED
      BY <1>0, <3>1, <3>3 DEF TypeInv
  <2>4. Fresh(d)'
    BY <2>2 DEF Fresh, BeforePlace
  <2>5. NothingStrays'
    <3>1. \A e \in Placed : det[e].home \in Detections
      BY <1>0 DEF TypeInv, Detection, Placed
    <3>2. QED
      BY <1>0, <2>1, <2>3, <3>1 DEF NothingStrays, Placed
  <2>6. intake[d].pc \notin Ended
    BY <2>1 DEF Ended
  <2>7. QED
    BY <1>0, <2>2, <2>3, <2>4, <2>5, <2>6, OthersRest, OthersStay
<1>9. ASSUME NEW d \in Detections, Fail(d) PROVE SerialInv'
  <2>1. /\ sit' = sit /\ det' = det /\ intake[d].pc \notin Ended
        /\ intake'[d].pc = "dead"
        /\ \A e \in Detections : e # d => intake'[e] = intake[e]
    BY <1>0, <1>9 DEF TypeInv, Fail, InProgress, NotStarted
  <2>2. Fresh(d)'
    BY <2>1 DEF Fresh, BeforePlace
  <2>3. NothingStrays'
    BY <1>0, <2>1 DEF NothingStrays, Placed
  <2>4. QED
    BY <1>0, <2>1, <2>2, <2>3, OthersRest, OthersStay
<1>10. CASE UNCHANGED <<det, sit, intake>>
  <2>1. NothingStrays' /\ Alone'
    BY <1>0, <1>10 DEF SerialInv, NothingStrays, Placed, Alone, InProgress
  <2>2. \A d \in Detections : Fresh(d)'
    BY <1>0, <1>10 DEF Fresh
  <2>3. QED
    BY <1>0, <2>1, <2>2 DEF SerialInv
<1>11. QED
  BY <1>1, <1>2, <1>3, <1>4, <1>5, <1>6, <1>7, <1>8, <1>9, <1>10
     DEF Next, Correlate, Propose, Revise, Settle, vars

\* One intake at a time, with failures at any point: no detection is left in
\* a situation that was merged away (merge_situations, situation_metrics).
THEOREM SerialStrays == ASSUME MaxIntakes = 1 PROVE Spec => []NothingStrays
<1>1. Init => SerialInv
  BY SerialInit
<1>2. SerialInv /\ [Next]_vars => SerialInv'
  BY SerialStep
<1>3. SerialInv => NothingStrays
  BY DEF SerialInv
<1>4. QED
  BY <1>1, <1>2, <1>3, PTL DEF Spec

\* One intake at a time, with failures at any point: the row of a merged
\* situation keeps saying where its detections went (schema.py:256).
THEOREM SerialHistory == ASSUME MaxIntakes = 1 PROVE Spec => MergedIsHistory
<1>1. Init => SerialInv
  BY SerialInit
<1>2. SerialInv /\ [Next]_vars => SerialInv'
  BY SerialStep
<1>3. ASSUME SerialInv, [Next]_vars
      PROVE  [\A s \in Detections : sit[s].status = "MERGED" => sit'[s] = sit[s]]_vars
  <2> SUFFICES ASSUME NEW s \in Detections, sit[s].status = "MERGED"
               PROVE  sit'[s] = sit[s]
    OBVIOUS
  <2>0. TypeInv /\ \A d \in Detections : Fresh(d)
    BY <1>3 DEF SerialInv
  <2>1. ASSUME NEW d \in Detections, Place(d) PROVE sit'[s] = sit[s]
    <3>1. sit[d].status = "NONE"
      BY <2>0, <2>1 DEF Place, Fresh, BeforePlace
    <3>2. s # d
      BY <3>1
    <3>3. QED
      BY <2>0, <2>1, <3>2 DEF Place, TypeInv
  <2>2. ASSUME NEW d \in Detections, Absorb(d) PROVE sit'[s] = sit[s]
    <3>1. s \notin intake[d].targets
      BY <2>0, <2>2 DEF Absorb, Fresh
    <3>2. QED
      BY <2>2, <3>1 DEF Absorb, MarkedMerged
  <2>3. ASSUME NEW d \in Detections, Update(d) PROVE sit'[s] = sit[s]
    <3>1. s # intake[d].chosen
      BY <2>0, <2>3 DEF Update, Fresh
    <3>2. QED
      BY <2>0, <2>3, <3>1 DEF Update, TypeInv
  <2>4. QED
    BY <1>3, <2>1, <2>2, <2>3 DEF Next, Correlate, Receive, ReadCandidates, Choose, Load,
       Measure, Fail, Propose, Revise, Settle, vars
<1>4. QED
  BY <1>1, <1>2, <1>3, PTL DEF Spec, MergedIsHistory

-----------------------------------------------------------------------------
(* What a situation is made of, one intake at a time *)

\* Whatever the moment, detections on both sides of it are near each other.
Steady(E) ==
    \A t \in Times : \A a, b \in E :
        det[a].detected_at <= t /\ t < det[b].detected_at =>
            \E x, y \in E : /\ det[x].detected_at <= t /\ t < det[y].detected_at
                            /\ det[y].detected_at <= det[x].detected_at
                                                       + CORRELATION_WINDOW_MINUTES
Sound(E) == Tied(E) /\ Steady(E)

\* d belongs with the detections E: it shares an entity with one of them, and
\* some were seen late enough and some early enough.
Joins(d, E) ==
    /\ \E e \in E : Alike(d, e)
    /\ \E e \in E : det[e].detected_at <= det[d].detected_at + CORRELATION_WINDOW_MINUTES
    /\ \E e \in E : det[d].detected_at <= det[e].detected_at + CORRELATION_WINDOW_MINUTES

LEMMA TimeOf ==
    ASSUME TypeInv, NEW d \in Detections
    PROVE  det[d].detected_at \in Times /\ det[d].detected_at \in Nat
  BY TimesType DEF TypeInv, Detection

\* Detections that each belong, with some of the others, to a set around d.
LEMMA Around ==
    ASSUME TypeInv, NEW U \in SUBSET Detections, NEW d \in U,
           \A u \in U : \E C \in SUBSET U : u \in C /\ d \in C /\ Sound(C)
    PROVE  Sound(U)
<1>1. Tied(U)
  <2> SUFFICES ASSUME NEW A \in SUBSET U, A # {}, A # U
               PROVE  \E x \in A, y \in U \ A : Alike(x, y)
    BY DEF Tied
  <2>1. PICK a \in A, b \in U : b \notin A
    OBVIOUS
  <2>2. PICK C \in SUBSET U : d \in C /\ Sound(C) /\ C \cap A # {} /\ C \ A # {}
    <3>1. CASE d \in A
      <4>1. PICK C \in SUBSET U : b \in C /\ d \in C /\ Sound(C)
        OBVIOUS
      <4>2. QED
        BY <2>1, <3>1, <4>1
    <3>2. CASE d \notin A
      <4>1. PICK C \in SUBSET U : a \in C /\ d \in C /\ Sound(C)
        OBVIOUS
      <4>2. QED
        BY <2>1, <3>2, <4>1
    <3>3. QED
      BY <3>1, <3>2
  <2>3. C \cap A \in SUBSET C /\ C \cap A # C
    BY <2>2
  <2>4. PICK x \in C \cap A, y \in C \ (C \cap A) : Alike(x, y)
    BY <2>2, <2>3 DEF Sound, Tied
  <2>5. QED
    BY <2>4
<1>2. Steady(U)
  <2> SUFFICES ASSUME NEW t \in Times, NEW a \in U, NEW b \in U,
                      det[a].detected_at <= t, t < det[b].detected_at
               PROVE  \E x, y \in U :
                        /\ det[x].detected_at <= t /\ t < det[y].detected_at
                        /\ det[y].detected_at <= det[x].detected_at
                                                    + CORRELATION_WINDOW_MINUTES
    BY DEF Steady
  <2>1. det[d].detected_at <= t \/ t < det[d].detected_at
    BY TimeOf, TimesType
  <2>2. PICK C \in SUBSET U : \E p, q \in C : /\ det[p].detected_at <= t
                                              /\ t < det[q].detected_at /\ Sound(C)
    BY <2>1
  <2>3. QED
    BY <2>2 DEF Sound, Steady
<1>3. QED
  BY <1>1, <1>2 DEF Sound

\* A detection that belongs with the members of a situation may join them.
LEMMA JoinsSoundly ==
    ASSUME TypeInv, NEW E \in SUBSET Detections, Sound(E), NEW d \in Detections, Joins(d, E)
    PROVE  Sound(E \cup {d})
<1>1. Tied(E \cup {d})
  <2>1. PICK e \in E : Alike(d, e)
    BY DEF Joins
  <2>2. Alike(e, d)
    BY <2>1 DEF Alike
  <2> SUFFICES ASSUME NEW A \in SUBSET (E \cup {d}), A # {}, A # E \cup {d}
               PROVE  \E x \in A, y \in (E \cup {d}) \ A : Alike(x, y)
    BY DEF Tied
  <2>3. CASE A \cap E = {}
    BY <2>1, <2>3
  <2>4. CASE E \subseteq A
    BY <2>2, <2>4
  <2>5. CASE A \cap E # {} /\ ~(E \subseteq A)
    <3>1. A \cap E \in SUBSET E /\ A \cap E # E
      BY <2>5
    <3>2. PICK x \in A \cap E, y \in E \ (A \cap E) : Alike(x, y)
      BY <2>5, <3>1 DEF Sound, Tied
    <3>3. QED
      BY <3>2
  <2>6. QED
    BY <2>3, <2>4, <2>5
<1>2. Steady(E \cup {d})
  <2> SUFFICES ASSUME NEW t \in Times, NEW a \in E \cup {d}, NEW b \in E \cup {d},
                      det[a].detected_at <= t, t < det[b].detected_at
               PROVE  \E x, y \in E \cup {d} :
                        /\ det[x].detected_at <= t /\ t < det[y].detected_at
                        /\ det[y].detected_at <= det[x].detected_at
                                                    + CORRELATION_WINDOW_MINUTES
    BY DEF Steady
  <2>0. /\ t \in Nat /\ CORRELATION_WINDOW_MINUTES \in Nat
        /\ \A e \in Detections : det[e].detected_at \in Nat
    BY TimesType, TimeOf, CorrelationAssumption
  <2>1. PICK first \in E : det[first].detected_at <= det[d].detected_at + CORRELATION_WINDOW_MINUTES
    BY DEF Joins
  <2>2. PICK last \in E : det[d].detected_at <= det[last].detected_at + CORRELATION_WINDOW_MINUTES
    BY DEF Joins
  <2>3. CASE \E p, q \in E : det[p].detected_at <= t /\ t < det[q].detected_at
    BY <2>3 DEF Sound, Steady
  <2>4. CASE \A e \in E : det[e].detected_at <= t
    <3>1. det[last].detected_at <= t /\ t < det[d].detected_at
      BY <2>0, <2>4
    <3>2. QED
      BY <2>2, <3>1
  <2>5. CASE \A e \in E : t < det[e].detected_at
    <3>1. det[d].detected_at <= t /\ t < det[first].detected_at
      BY <2>0, <2>5
    <3>2. QED
      BY <2>1, <3>1
  <2>6. QED
    BY <2>0, <2>3, <2>4, <2>5
<1>3. QED
  BY <1>1, <1>2 DEF Sound

\* The row of an open situation speaks of detections that are in it, if not of
\* all of them: an intake that was cut short leaves it behind.
RowTrue(s) ==
    sit[s].status = "OPEN" =>
        /\ \A k \in sit[s].entities : \E e \in Members(s) : k \in det[e].entities
        /\ \E e \in Members(s) : det[e].detected_at = sit[s].first_seen
        /\ \E e \in Members(s) : det[e].detected_at = sit[s].last_seen

\* What an intake knows: the rows it has read, why it joins what it has chosen,
\* and the members it has measured.
Knows(d) ==
    /\ intake[d].pc = "choose" =>
           intake[d].seen = [s \in {c \in Detections : IsCandidate(d, c)} |-> sit[s]]
    /\ intake[d].pc = "place" /\ intake[d].chosen # NoSituation =>
           Joins(d, Members(intake[d].chosen))
    /\ intake[d].pc \in {"place", "load", "absorb"} =>
           \A s \in intake[d].targets : Joins(d, Members(s))
    /\ intake[d].pc \in {"load", "absorb", "measure", "update"} =>
           det[d].home = intake[d].chosen
    /\ intake[d].pc = "update" =>
           intake[d].members = Members(intake[d].chosen) /\ intake[d].members # {}

SoundInv ==
    /\ SerialInv /\ HomeInv
    /\ \A s \in Detections : Sound(Members(s)) /\ RowTrue(s)
    /\ \A d \in Detections : Knows(d)

\* What detections are does not change once they are placed.
SameData(E) ==
    \A e \in E : /\ det'[e].entities = det[e].entities
                 /\ det'[e].detected_at = det[e].detected_at

LEMMA SoundNext ==
    ASSUME NEW s \in Detections, NEW E, E = Members(s)', Sound(E), SameData(E)
    PROVE  Sound(Members(s))'
<1>1. Tied(Members(s))'
  BY DEF Sound, Tied, Alike, SameData
<1>2. Steady(Members(s))'
  BY DEF Sound, Steady, SameData, Times
<1>3. QED
  BY <1>1, <1>2 DEF Sound

LEMMA JoinsNext ==
    ASSUME NEW d \in Detections, NEW s \in Detections, Joins(d, Members(s)),
           Members(s)' = Members(s), SameData(Members(s) \cup {d})
    PROVE  Joins(d, Members(s))'
  BY DEF Joins, Alike, SameData

LEMMA RowTrueNext ==
    ASSUME NEW s \in Detections, RowTrue(s), sit'[s] = sit[s],
           SameData(Members(s)), Members(s) \subseteq Members(s)'
    PROVE  RowTrue(s)'
  BY DEF RowTrue, SameData

\* Nobody else knows anything while d is at work.
LEMMA OthersKnowNothing ==
    ASSUME NEW d \in Detections, Knows(d)',
           \A e \in Detections : e # d => intake'[e] = intake[e] /\ intake[e].pc \in Ended
    PROVE  \A e \in Detections : Knows(e)'
  BY DEF Knows, Ended

\* A step that leaves detections and situations alone.
LEMMA Untouched ==
    ASSUME SoundInv, det' = det, sit' = sit
    PROVE  \A s \in Detections : (Sound(Members(s)) /\ RowTrue(s))'
  BY DEF SoundInv, Sound, Tied, Steady, Alike, RowTrue, Members

\* A match is a situation that the detection belongs with.
LEMMA MatchJoins ==
    ASSUME TypeInv, NEW d \in Detections, NEW s \in Detections,
           IsCandidate(d, s), RowTrue(s), det[d].entities \cap sit[s].entities # {}
    PROVE  Joins(d, Members(s))
<1>1. /\ det[d].detected_at \in Nat /\ CORRELATION_WINDOW_MINUTES \in Nat
      /\ sit[s].first_seen \in Nat /\ sit[s].last_seen \in Nat
  BY TimeOf, TimesType, CorrelationAssumption DEF TypeInv, Row
<1>2. PICK k : k \in det[d].entities /\ k \in sit[s].entities
  OBVIOUS
<1>3. sit[s].status = "OPEN"
  BY DEF IsCandidate
<1>4. \E e \in Members(s) : Alike(d, e)
  BY <1>2, <1>3 DEF RowTrue, Alike
<1>5. \E e \in Members(s) : det[e].detected_at <= det[d].detected_at + CORRELATION_WINDOW_MINUTES
  BY <1>3 DEF RowTrue, IsCandidate
<1>6. \E e \in Members(s) : det[d].detected_at <= det[e].detected_at + CORRELATION_WINDOW_MINUTES
  BY <1>1, <1>3 DEF RowTrue, IsCandidate
<1>7. QED
  BY <1>4, <1>5, <1>6 DEF Joins

LEMMA SoundStep ==
    ASSUME SoundInv, MaxIntakes = 1, [Next]_vars
    PROVE  SoundInv'
<1>0. /\ TypeInv /\ TypeInv' /\ SerialInv /\ SerialInv' /\ HomeInv /\ HomeInv'
      /\ \A s \in Detections : Sound(Members(s)) /\ RowTrue(s)
      /\ \A d \in Detections : Knows(d) /\ Fresh(d) /\ intake[d] \in Intake
  BY SerialStep, HomeStep, TypeStep DEF SoundInv, SerialInv, TypeInv
<1>1. ASSUME NEW d \in Detections, Receive(d) PROVE SoundInv'
  <2>1. /\ intake[d].pc = "none" /\ sit' = sit
        /\ intake'[d].chosen = NoSituation /\ intake'[d].targets = {}
        /\ intake'[d].pc \in {"place", "look"}
        /\ \A e \in Detections : e # d => intake'[e] = intake[e] /\ det'[e] = det[e]
        /\ det'[d].home = NoSituation /\ det[d].home = NoSituation
    BY <1>0, <1>1 DEF Receive, TypeInv, Intake, Fresh, HomeInv, BeforePlace
  <2>2. Knows(d)'
    BY <2>1 DEF Knows
  <2>3. ASSUME NEW s \in Detections PROVE (Sound(Members(s)) /\ RowTrue(s))'
    <3>1. Members(s)' = Members(s) /\ d \notin Members(s)
      BY <2>1, CorrelationAssumption DEF Members
    <3>2. SameData(Members(s))
      BY <2>1, <3>1 DEF SameData, Members
    <3>3. QED
      BY <1>0, <2>1, <3>1, <3>2, SoundNext, RowTrueNext
  <2>4. QED
    BY <1>0, <1>1, <2>1, <2>2, <2>3, OthersRest, OthersKnowNothing DEF SoundInv
<1>2. ASSUME NEW d \in Detections, ReadCandidates(d) PROVE SoundInv'
  <2> DEFINE seen == [s \in {c \in Detections : IsCandidate(d, c)} |-> sit[s]]
  <2>1. /\ intake[d].pc = "look" /\ sit' = sit /\ det' = det
        /\ intake' = [intake EXCEPT ![d] = [intake[d] EXCEPT !.seen = seen, !.pc = "choose"]]
    BY <1>2 DEF ReadCandidates
  <2>2. seen' = seen
    BY <2>1 DEF IsCandidate
  <2>3. Knows(d)'
    <3> HIDE DEF seen
    <3>1. intake'[d].seen = seen /\ intake'[d].pc = "choose"
      BY <1>0, <2>1 DEF Intake, TypeInv
    <3>2. intake'[d].seen = seen'
      BY <2>2, <3>1
    <3>3. QED
      BY <3>1, <3>2 DEF Knows, seen
  <2>4. /\ \A e \in Detections : e # d => intake'[e] = intake[e]
        /\ intake[d].pc \notin Ended
    BY <2>1 DEF Ended
  <2>5. QED
    BY <1>0, <2>1, <2>3, <2>4, OthersRest, OthersKnowNothing, Untouched DEF SoundInv
<1>3. ASSUME NEW d \in Detections, Choose(d) PROVE SoundInv'
  <2> DEFINE matches == {s \in DOMAIN intake[d].seen : Shared(d, s) # {} /\ ~Frozen(s)}
  <2>1. intake[d].pc = "choose" /\ sit' = sit /\ det' = det
    BY <1>3 DEF Choose
  <2>2. ASSUME NEW s \in matches PROVE s \in Detections /\ Joins(d, Members(s))
    <3>1. s \in Detections /\ IsCandidate(d, s) /\ intake[d].seen[s] = sit[s]
      BY <1>0, <2>1 DEF Knows
    <3>2. det[d].entities \cap sit[s].entities # {}
      BY <3>1 DEF Shared
    <3>3. QED
      BY <1>0, <3>1, <3>2, MatchJoins
  <2>3. PICK r \in Rankings(d, matches) :
            intake' = [intake EXCEPT ![d] = [@ EXCEPT
                   !.chosen = IF matches = {} THEN NoSituation ELSE r[1],
                   !.targets = IF matches = {} THEN {} ELSE Absorbed(d, r),
                   !.seen = <<>>,
                   !.pc = "place"]]
    BY <1>3 DEF Choose
  <2>4. matches \in SUBSET Detections
    BY <2>2
  <2> HIDE DEF matches
  <2>5. matches # {} => r[1] \in matches /\ Absorbed(d, r) \subseteq matches
    BY <2>3, <2>4, RankingOf
  <2>6. /\ intake'[d].chosen = IF matches = {} THEN NoSituation ELSE r[1]
        /\ intake'[d].targets = IF matches = {} THEN {} ELSE Absorbed(d, r)
        /\ intake'[d].pc = "place"
        /\ \A e \in Detections : e # d => intake'[e] = intake[e]
    BY <1>0, <2>3 DEF TypeInv, Intake
  <2>7. \A s \in matches : Joins(d, Members(s))'
    <3>1. \A s \in Detections : Members(s)' = Members(s) /\ SameData(Members(s) \cup {d})
      BY <2>1 DEF Members, SameData
    <3>2. QED
      BY <2>2, <3>1, JoinsNext
  <2>8. Knows(d)'
    <3>1. intake'[d].chosen # NoSituation => intake'[d].chosen \in matches
      BY <2>5, <2>6
    <3>2. intake'[d].targets \subseteq matches
      BY <2>5, <2>6
    <3>3. QED
      BY <2>6, <2>7, <3>1, <3>2 DEF Knows
  <2>9. intake[d].pc \notin Ended
    BY <2>1 DEF Ended
  <2>10. QED
    BY <1>0, <2>1, <2>6, <2>8, <2>9, OthersRest, OthersKnowNothing, Untouched DEF SoundInv
<1>4. ASSUME NEW d \in Detections, Place(d) PROVE SoundInv'
  <2> DEFINE chosen == IF intake[d].chosen = NoSituation THEN d ELSE intake[d].chosen
  <2>1. /\ intake[d].pc = "place" /\ chosen \in Detections /\ det[d].home = NoSituation
        /\ intake[d].chosen # NoSituation => Joins(d, Members(intake[d].chosen))
        /\ \A s \in intake[d].targets :
               s \in Detections /\ Joins(d, Members(s)) /\ s # intake[d].chosen
                                /\ sit[s].status = "OPEN"
        /\ sit[d].status = "NONE"
        /\ intake[d].chosen # NoSituation => sit[intake[d].chosen].status = "OPEN"
    <3>1. intake[d].pc = "place" /\ chosen \in Detections /\ intake[d].targets \subseteq Detections
      BY <1>0, <1>4 DEF Place, Intake
    <3>2. det[d].home = NoSituation
      BY <1>0, <3>1 DEF HomeInv, BeforePlace
    <3>3. /\ intake[d].chosen # NoSituation => Joins(d, Members(intake[d].chosen))
          /\ \A s \in intake[d].targets : Joins(d, Members(s))
      BY <1>0, <3>1 DEF Knows
    <3>4. /\ \A s \in intake[d].targets : s # intake[d].chosen /\ sit[s].status = "OPEN"
          /\ sit[d].status = "NONE"
          /\ intake[d].chosen # NoSituation => sit[intake[d].chosen].status = "OPEN"
      BY <1>0, <3>1 DEF Fresh, BeforePlace
    <3>5. QED
      BY <3>1, <3>2, <3>3, <3>4
  <2>2. /\ sit' = IF chosen = d THEN [sit EXCEPT ![d] = [NoRow EXCEPT !.status = "OPEN",
                        !.first_seen = det[d].detected_at, !.last_seen = det[d].detected_at]]
                  ELSE sit
        /\ det' = [det EXCEPT ![d].home = chosen]
        /\ intake' = [intake EXCEPT ![d] = [@ EXCEPT !.chosen = chosen,
                  !.pc = IF intake[d].targets = {} THEN "measure" ELSE "load"]]
    BY <1>4 DEF Place
  <2>3. chosen \notin intake[d].targets /\ (chosen = d => intake[d].chosen = NoSituation)
    BY <2>1
  <2>4. chosen # d => Joins(d, Members(chosen))
    BY <2>1
  <2>5. Members(d) = {} \/ chosen # d
    <3>1. \A e \in Placed : sit[det[e].home].status = "OPEN"
      BY <1>0 DEF SerialInv, NothingStrays
    <3>2. ASSUME NEW e \in Members(d) PROVE FALSE
      <4>1. e \in Placed /\ det[e].home = d
        BY CorrelationAssumption DEF Members, Placed
      <4>2. QED
        BY <2>1, <3>1, <4>1
    <3>3. QED
      BY <3>2
  <2> HIDE DEF chosen
  <2>6. /\ intake'[d].chosen = chosen /\ intake'[d].targets = intake[d].targets
        /\ intake'[d].pc \in {"measure", "load"}
        /\ \A e \in Detections : e # d => intake'[e] = intake[e]
    <3>1. /\ intake'[d] = [intake[d] EXCEPT !.chosen = chosen,
                  !.pc = IF intake[d].targets = {} THEN "measure" ELSE "load"]
          /\ \A e \in Detections : e # d => intake'[e] = intake[e]
      BY <1>0, <2>2 DEF TypeInv
    <3>2. QED
      BY <1>0, <3>1 DEF Intake
  <2>7. /\ det'[d].home = chosen /\ SameData(Detections)
        /\ \A e \in Detections : e # d => det'[e] = det[e]
    BY <1>0, <2>2 DEF TypeInv, Detection, SameData
  <2>8. \A s \in Detections :
            Members(s)' = IF s = chosen THEN Members(s) \cup {d} ELSE Members(s)
    BY <2>1, <2>7, CorrelationAssumption DEF Members
  <2>9. ASSUME NEW s \in Detections PROVE Sound(Members(s))'
    <3>1. CASE s # chosen
      BY <1>0, <2>7, <2>8, <3>1, SoundNext DEF SameData, Members
    <3>2. CASE s = chosen /\ chosen # d
      <4>1. Sound(Members(s) \cup {d})
        BY <1>0, <2>4, <3>2, JoinsSoundly DEF Members
      <4>2. SameData(Members(s) \cup {d})
        BY <2>7 DEF SameData, Members
      <4>3. QED
        BY <2>8, <3>2, <4>1, <4>2, SoundNext
    <3>3. CASE s = chosen /\ chosen = d
      <4>1. Members(s)' = {d}
        BY <2>5, <2>8, <3>3
      <4>2. Sound({d})
        <5>1. det[d].detected_at \in Nat /\ \A t \in Times : t \in Nat
          BY <1>0, TimeOf, TimesType
        <5>2. QED
          BY <5>1 DEF Sound, Tied, Steady
      <4>3. QED
        BY <2>7, <4>1, <4>2, SoundNext DEF SameData
    <3>4. QED
      BY <3>1, <3>2, <3>3
  <2>10. ASSUME NEW s \in Detections PROVE RowTrue(s)'
    <3>1. CASE sit'[s] = sit[s]
      <4>1. Members(s) \subseteq Members(s)' /\ SameData(Members(s))
        BY <2>7, <2>8 DEF SameData, Members
      <4>2. QED
        BY <1>0, <3>1, <4>1, RowTrueNext
    <3>2. CASE s = d /\ chosen = d
      <4>1. /\ sit'[d].entities = {} /\ sit'[d].first_seen = det[d].detected_at
            /\ sit'[d].last_seen = det[d].detected_at
        BY <1>0, <2>2, <3>2 DEF NoRow, TypeInv
      <4>2. d \in Members(d)' /\ det'[d].detected_at = det[d].detected_at
        BY <2>7, <2>8, <3>2 DEF SameData
      <4>3. QED
        BY <3>2, <4>1, <4>2 DEF RowTrue
    <3>3. QED
      BY <1>0, <2>2, <3>1, <3>2 DEF TypeInv
  <2>11. Knows(d)'
    <3>1. ASSUME NEW s \in intake[d].targets PROVE Joins(d, Members(s))'
      <4>1. s \in Detections /\ s # chosen /\ Joins(d, Members(s))
        BY <2>1, <2>3
      <4>2. Members(s)' = Members(s) /\ SameData(Members(s) \cup {d})
        BY <2>7, <2>8, <4>1 DEF SameData, Members
      <4>3. QED
        BY <4>1, <4>2, JoinsNext
    <3>2. QED
      BY <2>6, <2>7, <3>1 DEF Knows
  <2>12. intake[d].pc \notin Ended
    BY <2>1 DEF Ended
  <2>13. QED
    BY <1>0, <2>6, <2>9, <2>10, <2>11, <2>12, OthersRest, OthersKnowNothing DEF SoundInv
<1>5. ASSUME NEW d \in Detections, Load(d) PROVE SoundInv'
  <2>1. intake[d].pc = "load" /\ sit' = sit /\ det' = det
    BY <1>5 DEF Load
  <2>2. /\ intake'[d].chosen = intake[d].chosen /\ intake'[d].pc = "absorb"
        /\ intake'[d].targets \subseteq intake[d].targets
        /\ \A e \in Detections : e # d => intake'[e] = intake[e]
    <3> DEFINE open == {s \in intake[d].targets \ {intake[d].chosen} : sit[s].status = "OPEN"}
    <3>1. intake' = [intake EXCEPT ![d] = [intake[d] EXCEPT
              !.targets = open, !.alerted = {s \in open : decision[s] # "none"},
              !.pc = "absorb"]]
      BY <1>5 DEF Load
    <3>2. open \subseteq intake[d].targets
      OBVIOUS
    <3> DEFINE alerted == {s \in open : decision[s] # "none"}
    <3> HIDE DEF open, alerted
    <3>3. /\ intake'[d] = [intake[d] EXCEPT
              !.targets = open, !.alerted = alerted, !.pc = "absorb"]
          /\ \A e \in Detections : e # d => intake'[e] = intake[e]
      BY <1>0, <3>1 DEF TypeInv, alerted
    <3>4. QED
      BY <1>0, <3>2, <3>3 DEF Intake
  <2>3. \A s \in intake[d].targets : Joins(d, Members(s))'
    <3>1. \A s \in Detections : Members(s)' = Members(s) /\ SameData(Members(s) \cup {d})
      BY <2>1 DEF Members, SameData
    <3>2. \A s \in intake[d].targets : s \in Detections /\ Joins(d, Members(s))
      BY <1>0, <2>1 DEF Knows, Intake
    <3>3. QED
      BY <3>1, <3>2, JoinsNext
  <2>4. Knows(d)'
    BY <1>0, <2>1, <2>2, <2>3 DEF Knows
  <2>5. intake[d].pc \notin Ended
    BY <2>1 DEF Ended
  <2>6. QED
    BY <1>0, <2>1, <2>2, <2>4, <2>5, OthersRest, OthersKnowNothing, Untouched DEF SoundInv
<1>6. ASSUME NEW d \in Detections, Absorb(d) PROVE SoundInv'
  <2> DEFINE chosen == intake[d].chosen
             targets == intake[d].targets
  <2>1. /\ intake[d].pc = "absorb" /\ chosen \in Detections /\ chosen \notin targets
        /\ targets \subseteq Detections /\ det[d].home = chosen
        /\ \A s \in targets : Joins(d, Members(s))
    BY <1>0, <1>6 DEF Absorb, Knows, Fresh, Intake
  <2>2. \A s \in Detections :
            /\ s \in targets => sit'[s].status = "MERGED"
            /\ s \notin targets => sit'[s] = sit[s]
    BY <1>0, <1>6 DEF TypeInv, Absorb, MarkedMerged, Row
  <2>3. /\ \A e \in Detections :
               det'[e].home = IF det[e].home \in targets THEN chosen ELSE det[e].home
        /\ SameData(Detections)
    BY <1>0, <1>6 DEF TypeInv, Absorb, Moved, Detection, SameData
  <2>4. /\ intake'[d].pc = "measure"
        /\ \A e \in Detections : e # d => intake'[e] = intake[e]
    BY <1>0, <1>6, <2>1 DEF TypeInv, Absorb, Intake
  <2> HIDE DEF chosen, targets
  <2>5. ASSUME NEW s \in Detections PROVE Sound(Members(s))'
    <3>1. CASE s \in targets
      <4>1. Members(s)' = {}
        BY <2>1, <2>3, <3>1 DEF Members
      <4>2. Sound({})
        BY DEF Sound, Tied, Steady
      <4>3. QED
        BY <4>1, <4>2, SoundNext DEF SameData
    <3>2. CASE s \notin targets /\ s # chosen
      <4>1. Members(s)' = Members(s)
        BY <2>3, <3>2 DEF Members
      <4>2. QED
        BY <1>0, <2>3, <4>1, SoundNext DEF SameData, Members
    <3>3. CASE s = chosen
      <4>1. PICK U \in SUBSET Detections : U = Members(s)'
        BY <2>3 DEF Members
      <4>2. d \in Members(chosen) /\ Members(chosen) \subseteq U
        BY <2>1, <2>3, <3>3, <4>1 DEF Members
      <4>3. ASSUME NEW u \in U PROVE \E C \in SUBSET U : u \in C /\ d \in C /\ Sound(C)
        <5>1. CASE u \in Members(chosen)
          BY <1>0, <2>1, <4>2, <5>1
        <5>2. CASE det[u].home \in targets
          <6> DEFINE C == Members(det[u].home) \cup {d}
          <6>1. det[u].home \in Detections /\ Joins(d, Members(det[u].home))
            BY <2>1, <5>2
          <6>2. Sound(C)
            BY <1>0, <6>1, JoinsSoundly DEF Members
          <6>3. C \in SUBSET U /\ u \in C
            BY <2>3, <3>3, <4>1, <4>2, <5>2 DEF Members
          <6>4. QED
            BY <6>2, <6>3
        <5>3. QED
          BY <2>3, <3>3, <4>1, <5>1, <5>2 DEF Members
      <4>4. Sound(U)
        BY <1>0, <4>2, <4>3, Around
      <4>5. QED
        BY <2>3, <4>1, <4>4, SoundNext DEF SameData
    <3>4. QED
      BY <3>1, <3>2, <3>3
  <2>6. ASSUME NEW s \in Detections PROVE RowTrue(s)'
    <3>1. CASE s \in targets
      BY <2>2, <3>1 DEF RowTrue
    <3>2. CASE s \notin targets
      <4>1. Members(s) \subseteq Members(s)' /\ SameData(Members(s))
        BY <2>3, <3>2 DEF Members, SameData
      <4>2. QED
        BY <1>0, <2>2, <3>2, <4>1, RowTrueNext
    <3>3. QED
      BY <3>1, <3>2
  <2>7. Knows(d)'
    <3>1. intake'[d].chosen = chosen
      BY <1>0, <1>6 DEF TypeInv, Absorb, Intake, chosen
    <3>2. det'[d].home = chosen
      BY <2>1, <2>3
    <3>3. QED
      BY <2>4, <3>1, <3>2 DEF Knows
  <2>8. intake[d].pc \notin Ended
    BY <2>1 DEF Ended
  <2>9. QED
    BY <1>0, <2>4, <2>5, <2>6, <2>7, <2>8, OthersRest, OthersKnowNothing DEF SoundInv
<1>7. ASSUME NEW d \in Detections, Measure(d) PROVE SoundInv'
  <2>1. intake[d].pc = "measure" /\ sit' = sit /\ det' = det
    BY <1>7 DEF Measure
  <2>2. /\ intake'[d].chosen = intake[d].chosen
        /\ intake'[d].members = Members(intake[d].chosen)
        /\ intake'[d].pc = IF Members(intake[d].chosen) = {} THEN "done" ELSE "update"
        /\ \A e \in Detections : e # d => intake'[e] = intake[e]
    <3> DEFINE members == Members(intake[d].chosen)
    <3>1. intake' = [intake EXCEPT ![d] = [intake[d] EXCEPT
              !.members = members, !.pc = IF members = {} THEN "done" ELSE "update"]]
      BY <1>7 DEF Measure
    <3> HIDE DEF members
    <3>2. /\ intake'[d] = [intake[d] EXCEPT
                 !.members = members, !.pc = IF members = {} THEN "done" ELSE "update"]
          /\ \A e \in Detections : e # d => intake'[e] = intake[e]
      BY <1>0, <3>1 DEF TypeInv
    <3>3. /\ intake'[d].chosen = intake[d].chosen /\ intake'[d].members = members
          /\ intake'[d].pc = IF members = {} THEN "done" ELSE "update"
      BY <1>0, <3>2 DEF Intake
    <3>4. QED
      BY <3>2, <3>3 DEF members
  <2>3. Knows(d)'
    <3>1. det'[d].home = intake'[d].chosen
      BY <1>0, <2>1, <2>2 DEF Knows
    <3>2. QED
      BY <2>1, <2>2, <3>1 DEF Knows, Members
  <2>4. intake[d].pc \notin Ended
    BY <2>1 DEF Ended
  <2>5. QED
    BY <1>0, <2>1, <2>2, <2>3, <2>4, OthersRest, OthersKnowNothing, Untouched DEF SoundInv
<1>8. ASSUME NEW d \in Detections, Update(d) PROVE SoundInv'
  <2> DEFINE chosen == intake[d].chosen
  <2>1. /\ intake[d].pc = "update" /\ det' = det /\ chosen \in Detections
        /\ intake[d].members = Members(chosen)
    BY <1>0, <1>8 DEF Update, Knows, Fresh
  <2>2. /\ intake'[d].pc = "done"
        /\ \A e \in Detections : e # d => intake'[e] = intake[e]
    BY <1>0, <1>8, <2>1 DEF TypeInv, Update, Intake
  <2>3. PICK span \in Spans(intake[d].members) :
            sit' = [sit EXCEPT ![chosen] = Derived(@, intake[d].members, span)]
    BY <1>8 DEF Update
  <2> HIDE DEF chosen
  <2>4. /\ sit'[chosen].entities = UNION {det[e].entities : e \in Members(chosen)}
        /\ sit'[chosen].first_seen = det[span[1]].detected_at
        /\ sit'[chosen].last_seen = det[span[2]].detected_at
        /\ span[1] \in Members(chosen) /\ span[2] \in Members(chosen)
    BY <1>0, <2>1, <2>3 DEF TypeInv, Row, Derived, Spans
  <2>5. \A s \in Detections : Members(s)' = Members(s) /\ SameData(Members(s))
    BY <2>1 DEF Members, SameData
  <2>6. ASSUME NEW s \in Detections PROVE Sound(Members(s))'
    BY <1>0, <2>5, SoundNext
  <2>7. ASSUME NEW s \in Detections PROVE RowTrue(s)'
    <3>1. CASE s # chosen
      BY <1>0, <2>3, <2>5, <3>1, RowTrueNext DEF TypeInv
    <3>2. CASE s = chosen
      BY <2>1, <2>4, <2>5, <3>2 DEF RowTrue
    <3>3. QED
      BY <3>1, <3>2
  <2>8. Knows(d)'
    BY <2>2 DEF Knows
  <2>9. intake[d].pc \notin Ended
    BY <2>1 DEF Ended
  <2>10. QED
    BY <1>0, <2>2, <2>6, <2>7, <2>8, <2>9, OthersRest, OthersKnowNothing DEF SoundInv
<1>9. ASSUME NEW d \in Detections, Fail(d) PROVE SoundInv'
  <2>1. /\ sit' = sit /\ det' = det /\ intake[d].pc \notin Ended
        /\ intake'[d].pc = "dead"
        /\ \A e \in Detections : e # d => intake'[e] = intake[e]
    BY <1>0, <1>9 DEF TypeInv, Fail, InProgress, NotStarted
  <2>2. Knows(d)'
    BY <2>1 DEF Knows
  <2>3. QED
    BY <1>0, <2>1, <2>2, OthersRest, OthersKnowNothing, Untouched DEF SoundInv
<1>10. CASE UNCHANGED <<det, sit, intake>>
  <2>1. ASSUME NEW d \in Detections PROVE Knows(d)'
    <3>1. Knows(d)
      BY <1>0
    <3>2. [s \in {c \in Detections : IsCandidate(d, c)} |-> sit[s]]'
            = [s \in {c \in Detections : IsCandidate(d, c)} |-> sit[s]]
      BY <1>10 DEF IsCandidate
    <3>3. \A s : Members(s)' = Members(s) /\ (Joins(d, Members(s)) => Joins(d, Members(s))')
      BY <1>10 DEF Members, Joins, Alike
    <3>4. intake' = intake /\ det' = det
      BY <1>10
    <3>5. QED
      BY <3>1, <3>2, <3>3, <3>4 DEF Knows
  <2>2. QED
    BY <1>0, <1>10, <2>1, Untouched DEF SoundInv
<1>11. QED
  BY <1>1, <1>2, <1>3, <1>4, <1>5, <1>6, <1>7, <1>8, <1>9, <1>10
     DEF Next, Correlate, Propose, Revise, Settle, vars

LEMMA SoundInit == ASSUME Init PROVE SoundInv
<1>1. SerialInv
  BY SerialInit
<1>2. HomeInv /\ \A d \in Detections : Knows(d)
  BY DEF Init, HomeInv, Knows, NotStarted
<1>3. ASSUME NEW s \in Detections PROVE Sound(Members(s)) /\ RowTrue(s)
  <2>1. Members(s) = {}
    BY CorrelationAssumption DEF Init, Members
  <2>2. sit[s].status = "NONE"
    BY DEF Init, NoRow
  <2>3. QED
    BY <2>1, <2>2 DEF Sound, Tied, Steady, RowTrue
<1>4. QED
  BY <1>1, <1>2, <1>3 DEF SoundInv

\* One intake at a time, with failures at any point: no situation is built out
\* of coincidence (_partition_candidates, correlate).
THEOREM SerialTies == ASSUME MaxIntakes = 1 PROVE Spec => []MembersAreTied
<1>1. SoundInv /\ [Next]_vars => SoundInv'
  BY SoundStep
<1>2. SoundInv => MembersAreTied
  BY DEF SoundInv, Sound, MembersAreTied
<1>3. QED
  BY <1>1, <1>2, SoundInit, PTL DEF Spec

\* One intake at a time, with failures at any point: no situation spans a
\* silence longer than the window (correlate's window on candidates).
THEOREM SerialNoSilence == ASSUME MaxIntakes = 1 PROVE Spec => []NoLongSilence
<1>1. SoundInv /\ [Next]_vars => SoundInv'
  BY SoundStep
<1>2. ASSUME SoundInv PROVE NoLongSilence
  <2> SUFFICES ASSUME NEW d \in Placed, NEW e \in Placed, det[d].home = det[e].home,
                      det[d].detected_at < det[e].detected_at
               PROVE  \E f \in Members(det[d].home) :
                        /\ det[d].detected_at < det[f].detected_at
                        /\ det[f].detected_at <= det[d].detected_at + CORRELATION_WINDOW_MINUTES
    BY DEF NoLongSilence
  <2> DEFINE E == Members(det[d].home)
  <2>1. TypeInv /\ det[d].home \in Detections /\ d \in E /\ e \in E
    BY <1>2 DEF SoundInv, SerialInv, TypeInv, Detection, Placed, Members
  <2>2. Steady(E)
    BY <1>2, <2>1 DEF SoundInv, Sound
  <2>3. /\ det[d].detected_at \in Times /\ CORRELATION_WINDOW_MINUTES \in Nat
        /\ \A f \in E : det[f].detected_at \in Nat
    BY <2>1, TimeOf, CorrelationAssumption DEF Members
  <2> HIDE DEF E
  <2>4. PICK x, y \in E : /\ det[x].detected_at <= det[d].detected_at
                          /\ det[d].detected_at < det[y].detected_at
                          /\ det[y].detected_at <= det[x].detected_at
                                                      + CORRELATION_WINDOW_MINUTES
    BY <2>1, <2>2, <2>3, TimesType DEF Steady
  <2>5. det[y].detected_at <= det[d].detected_at + CORRELATION_WINDOW_MINUTES
    BY <2>1, <2>3, <2>4
  <2>6. QED
    BY <2>4, <2>5 DEF E
<1>3. QED
  BY <1>1, <1>2, SoundInit, PTL DEF Spec

-----------------------------------------------------------------------------
(* The room under the cap *)

\* The least element of a set of naturals, on which the inductions rest.
LEMMA LeastElement ==
    ASSUME NEW S \in SUBSET Nat, S # {}
    PROVE  \E n \in S : \A m \in S : n <= m
<1> DEFINE R == OpToRel(<, Nat)
<1>1. IsWellFoundedOn(R, Nat)
  BY NatLessThanWellFounded
<1>2. \A x \in S, y \in S : y < x => <<y, x>> \in R
  BY DEF OpToRel
<1> HIDE DEF R
<1>3. PICK n \in S : \A m \in S : ~(<<m, n>> \in R)
  BY <1>1, WFMin
<1>4. \A m \in S : ~(m < n)
  BY <1>2, <1>3, Zenon
<1>5. QED
  BY <1>4

Budgeted(f, n, base, c) ==
    f = [i \in 1..n |-> IF i = 1 THEN base
                        ELSE f[i - 1] - (IF c[i] <= f[i - 1] THEN c[i] ELSE 0)]

LEMMA BudgetExists ==
    ASSUME NEW base, NEW c, NEW k \in Nat
    PROVE  \E f : Budgeted(f, k, base, c)
<1> DEFINE Bad == {n \in Nat : ~\E f : Budgeted(f, n, base, c)}
<1> SUFFICES ASSUME Bad # {} PROVE FALSE
  OBVIOUS
<1>1. PICK n \in Bad : \A m \in Bad : n <= m
  BY LeastElement
<1>2. n # 0
  <2>1. Budgeted([i \in {} |-> base], 0, base, c)
    BY DEF Budgeted
  <2>2. QED
    BY <1>1, <2>1
<1>3. n - 1 \in Nat /\ n - 1 \notin Bad
  BY <1>1, <1>2
<1>4. PICK f : Budgeted(f, n - 1, base, c)
  BY <1>3
<1> DEFINE g == [i \in 1..n |-> IF i = 1 THEN base
                        ELSE f[i - 1] - (IF c[i] <= f[i - 1] THEN c[i] ELSE 0)]
<1>5. \A i \in 1..(n - 1) : g[i] = f[i]
  BY <1>3, <1>4 DEF Budgeted
<1>6. \A i \in 1..n : i # 1 => g[i - 1] = f[i - 1]
  BY <1>3, <1>5
<1>7. g = [i \in 1..n |-> IF i = 1 THEN base
                        ELSE g[i - 1] - (IF c[i] <= g[i - 1] THEN c[i] ELSE 0)]
  BY <1>6
<1>8. Budgeted(g, n, base, c)
  BY <1>7 DEF Budgeted
<1>9. QED
  BY <1>1, <1>8

\* What Room computes satisfies the equation it is written with.
LEMMA RoomIs ==
    ASSUME NEW d, NEW r, NEW n \in Nat, Len(r) = n, NEW c,
           \A i \in 1..n : c[i] = intake[d].seen[r[i]].detection_count
    PROVE  Budgeted(Room(d, r), n,
                    SITUATION_MAX_MEMBERS - intake[d].seen[r[1]].detection_count - 1, c)
<1> DEFINE count(i) == intake[d].seen[r[i]].detection_count
           base == SITUATION_MAX_MEMBERS - count(1) - 1
           P(f) == f = [i \in 1..Len(r) |->
                           IF i = 1 THEN base
                           ELSE f[i - 1] - (IF count(i) <= f[i - 1] THEN count(i) ELSE 0)]
<1>1. \A f : P(f) <=> Budgeted(f, n, base, c)
  <2> SUFFICES ASSUME NEW f PROVE P(f) <=> Budgeted(f, n, base, c)
    OBVIOUS
  <2>1. [i \in 1..Len(r) |->
                           IF i = 1 THEN base
                           ELSE f[i - 1] - (IF count(i) <= f[i - 1] THEN count(i) ELSE 0)]
        = [i \in 1..n |-> IF i = 1 THEN base
                        ELSE f[i - 1] - (IF c[i] <= f[i - 1] THEN c[i] ELSE 0)]
    OBVIOUS
  <2>2. QED
    BY <2>1 DEF Budgeted
<1>2. \E f : P(f)
  <2> HIDE DEF P, base
  <2>1. QED
    BY <1>1, BudgetExists
<1>3. Room(d, r) = CHOOSE f : P(f)
  BY DEF Room
<1> HIDE DEF P, base
<1>4. P(CHOOSE f : P(f))
  BY <1>2, Zenon
<1>5. QED
  BY <1>1, <1>3, <1>4 DEF base

\* If all that is to be taken in fits under the cap together, each of it fits
\* into what is left when its turn comes.
LEMMA RoomSuffices ==
    ASSUME NEW P, IsFiniteSet(P), NEW cap \in Nat, Cardinality(P) < cap,
           NEW n \in Nat \ {0}, NEW M \in [1..n -> SUBSET P],
           \A i, j \in 1..n : i < j => M[i] \cap M[j] = {},
           NEW c, \A i \in 1..n : c[i] = Cardinality(M[i]),
           NEW f, Budgeted(f, n, cap - c[1] - 1, c)
    PROVE  \A k \in 2..n : c[k] <= f[k - 1]
<1> DEFINE U(i) == UNION {M[j] : j \in 1..i}
<1>1. ASSUME NEW i \in 1..n
      PROVE  /\ IsFiniteSet(M[i]) /\ c[i] \in Nat
             /\ IsFiniteSet(U(i)) /\ Cardinality(U(i)) \in Nat
  <2>1. M[i] \in SUBSET P /\ U(i) \in SUBSET P
    OBVIOUS
  <2>2. QED
    BY <2>1, FS_Subset, FS_CardinalityType
<1>2. ASSUME NEW i \in 2..n
      PROVE  /\ U(i) = U(i - 1) \cup M[i] /\ U(i - 1) \cap M[i] = {}
             /\ Cardinality(U(i)) = Cardinality(U(i - 1)) + c[i]
             /\ Cardinality(U(i)) < cap
  <2>1. i \in 1..n /\ i - 1 \in 1..n /\ 1..i = 1..(i - 1) \cup {i}
    OBVIOUS
  <2>2. U(i) = U(i - 1) \cup M[i] /\ U(i - 1) \cap M[i] = {}
    <3>1. \A j \in 1..(i - 1) : j \in 1..n /\ j < i
      BY <2>1
    <3>2. QED
      BY <2>1, <3>1
  <2>3. Cardinality(U(i)) = Cardinality(U(i - 1)) + c[i]
    <3> HIDE DEF U
    <3>1. /\ IsFiniteSet(M[i]) /\ IsFiniteSet(U(i - 1)) /\ c[i] \in Nat
          /\ Cardinality(U(i - 1)) \in Nat
      BY <1>1, <2>1
    <3>2. Cardinality(U(i - 1) \cup M[i])
             = Cardinality(U(i - 1)) + Cardinality(M[i]) - Cardinality(U(i - 1) \cap M[i])
      BY <3>1, FS_Union
    <3>3. QED
      <4>1. Cardinality(U(i - 1) \cap M[i]) = 0
        BY <2>2, FS_EmptySet
      <4>2. Cardinality(M[i]) = c[i]
        BY <2>1
      <4>3. QED
        BY <2>2, <3>1, <3>2, <4>1, <4>2
  <2>4. Cardinality(U(i)) < cap
    <3>1. U(i) \in SUBSET P
      BY <2>1
    <3> HIDE DEF U
    <3>2. Cardinality(U(i)) <= Cardinality(P) /\ Cardinality(P) \in Nat
      BY <3>1, FS_Subset, FS_CardinalityType
    <3>3. QED
      BY <1>1, <2>1, <3>2
  <2>5. QED
    BY <2>2, <2>3, <2>4
<1>3. Cardinality(U(1)) = c[1]
  <2>1. U(1) = M[1] /\ 1 \in 1..n
    <3>1. 1..1 = {1}
      OBVIOUS
    <3>2. QED
      BY <3>1
  <2>2. QED
    BY <2>1
<1> HIDE DEF U
<1>4. /\ f[1] = cap - c[1] - 1
      /\ \A i \in 2..n : f[i] = f[i - 1] - (IF c[i] <= f[i - 1] THEN c[i] ELSE 0)
  BY DEF Budgeted
<1>5. \A i \in 1..n : f[i] \in Int /\ f[i] + Cardinality(U(i)) = cap - 1
  <2> DEFINE Bad == {i \in 1..n : ~(f[i] \in Int /\ f[i] + Cardinality(U(i)) = cap - 1)}
  <2> SUFFICES ASSUME Bad # {} PROVE FALSE
    OBVIOUS
  <2>1. PICK i \in Bad : \A m \in Bad : i <= m
    <3>1. Bad \in SUBSET Nat
      OBVIOUS
    <3> HIDE DEF Bad
    <3>2. QED
      BY <3>1, LeastElement
  <2>2. i # 1
    BY <1>1, <1>3, <1>4
  <2>3. i \in 2..n /\ i - 1 \in 1..n /\ i - 1 \notin Bad
    BY <2>1, <2>2
  <2>4. f[i - 1] \in Int /\ f[i - 1] + Cardinality(U(i - 1)) = cap - 1
    BY <2>3
  <2>5. c[i] \in Nat /\ Cardinality(U(i - 1)) \in Nat /\ Cardinality(U(i)) \in Nat
    BY <1>1, <2>3
  <2>6. Cardinality(U(i)) = Cardinality(U(i - 1)) + c[i] /\ Cardinality(U(i)) < cap
    BY <1>2, <2>3
  <2>7. f[i] = f[i - 1] - c[i]
    BY <1>4, <2>3, <2>4, <2>5, <2>6
  <2>8. QED
    BY <2>1, <2>4, <2>5, <2>6, <2>7
<1>6. ASSUME NEW k \in 2..n PROVE c[k] <= f[k - 1]
  <2>1. k - 1 \in 1..n /\ k \in 1..n
    OBVIOUS
  <2>2. f[k - 1] \in Int /\ f[k - 1] + Cardinality(U(k - 1)) = cap - 1
    BY <1>5, <2>1
  <2>3. c[k] \in Nat /\ Cardinality(U(k - 1)) \in Nat /\ Cardinality(U(k)) \in Nat
    BY <1>1, <2>1
  <2>4. QED
    BY <1>2, <2>2, <2>3
<1>7. QED
  BY <1>6

-----------------------------------------------------------------------------
(* What entities tie together ends up in one situation *)

Stored == {d \in Detections : det[d].stored}
AtWork == {"load", "absorb", "measure", "update"}

\* Nothing went wrong, nobody settled anything (a correction of a proposal that
\* is just being overtaken aside), and all that is known fits together.
Undisturbed ==
    /\ failures = 0
    /\ \A s \in Detections : decision[s] # "settled"
    /\ \A s \in Detections : decision[s] = "corrected" =>
           \E d \in Detections : /\ intake[d].pc \in {"place", "load", "absorb"}
                                 /\ s \in intake[d].targets
Fits ==
    /\ \A d, e \in Stored :
           det[d].detected_at - det[e].detected_at <= CORRELATION_WINDOW_MINUTES
    /\ Cardinality(Stored) <= SITUATION_MAX_MEMBERS
Calm == Undisturbed /\ Fits

\* The row of an open situation that nobody is changing says all there is.
Accurate(s) ==
    /\ sit[s].status = "OPEN"
    /\ \A d \in Detections : intake[d].pc \in AtWork => intake[d].chosen # s
    => /\ \A e \in Members(s) : /\ det[e].entities \subseteq sit[s].entities
                                /\ sit[s].first_seen <= det[e].detected_at
                                /\ det[e].detected_at <= sit[s].last_seen
       /\ sit[s].detection_count = Cardinality(Members(s))

\* Where a detection is, and what a merge may overtake.
OnItsWay(d) ==
    /\ intake[d].pc = "none" <=> ~det[d].stored
    /\ det[d].home # NoSituation => det[d].stored
    /\ failures = 0 /\ det[d].stored /\ det[d].home = NoSituation =>
           intake[d].pc \in {"look", "choose", "place"}
    /\ intake[d].pc = "absorb" => intake[d].alerted \subseteq intake[d].targets

Overtaken == \A s \in Detections : decision[s] = "SUPERSEDED" => sit[s].status = "MERGED"

\* Two that share an entity are in one situation, or in some that an intake is
\* folding into one; a detection about to be placed has found all like it.
Gathered ==
    /\ \A a, b \in Placed : Alike(a, b) =>
           \/ det[a].home = det[b].home
           \/ \E d \in Detections :
                 /\ intake[d].pc \in {"load", "absorb"}
                 /\ {det[a].home, det[b].home} \subseteq intake[d].targets \cup {intake[d].chosen}
    /\ \A d \in Detections : intake[d].pc = "place" =>
           \A e \in Placed : Alike(d, e) =>
               det[e].home \in intake[d].targets \cup {intake[d].chosen}

GatherInv ==
    /\ SoundInv /\ Overtaken
    /\ \A d \in Detections : OnItsWay(d)
    /\ failures = 0 => \A s \in Detections : Accurate(s)
    /\ Calm => Gathered

\* What the steps of an intake do, for the proofs below.
Others(d) == \A e \in Detections \ {d} : intake'[e] = intake[e] /\ det'[e] = det[e]

LEMMA ReceiveDoes ==
    ASSUME SoundInv, NEW d \in Detections, Receive(d)
    PROVE  /\ intake[d].pc = "none" /\ det'[d].stored /\ det'[d].home = NoSituation
           /\ intake'[d].pc \in {"place", "look"} /\ intake'[d].targets = {}
           /\ intake'[d].chosen = NoSituation
           /\ intake'[d].pc = "place" => det'[d].entities = {}
           /\ Others(d) /\ sit' = sit /\ decision' = decision /\ failures' = failures
<1>1. TypeInv /\ intake[d] \in Intake /\ Fresh(d)
  BY DEF SoundInv, SerialInv, TypeInv
<1>2. PICK keys \in SUBSET Entities, at \in Times :
           /\ det' = [det EXCEPT ![d] = [stored |-> TRUE, entities |-> keys,
                                         detected_at |-> at, home |-> NoSituation]]
           /\ intake' = [intake EXCEPT ![d].pc = IF keys = {} THEN "place" ELSE "look"]
  BY DEF Receive
<1>3. det'[d].stored /\ det'[d].home = NoSituation /\ det'[d].entities = keys
  BY <1>1, <1>2 DEF TypeInv
<1>4. /\ intake'[d].pc = IF keys = {} THEN "place" ELSE "look"
      /\ intake'[d].targets = intake[d].targets /\ intake'[d].chosen = intake[d].chosen
  BY <1>1, <1>2 DEF TypeInv, Intake
<1>5. Others(d)
  BY <1>1, <1>2 DEF TypeInv, Others
<1>6. intake[d].pc = "none" /\ intake[d].targets = {} /\ intake[d].chosen = NoSituation
  BY <1>1 DEF Receive, Fresh
<1>7. QED
  BY <1>3, <1>4, <1>5, <1>6 DEF Receive

LEMMA ReadDoes ==
    ASSUME SoundInv, NEW d \in Detections, ReadCandidates(d)
    PROVE  /\ intake[d].pc = "look" /\ intake'[d].pc = "choose"
           /\ Others(d) /\ det' = det /\ sit' = sit /\ decision' = decision
           /\ failures' = failures
<1>1. TypeInv /\ intake[d] \in Intake
  BY DEF SoundInv, SerialInv, TypeInv
<1> DEFINE seen == [s \in {c \in Detections : IsCandidate(d, c)} |-> sit[s]]
<1>2. intake' = [intake EXCEPT ![d] = [intake[d] EXCEPT !.seen = seen, !.pc = "choose"]]
  BY DEF ReadCandidates
<1> HIDE DEF seen
<1>3. intake'[d].pc = "choose" /\ \A e \in Detections \ {d} : intake'[e] = intake[e]
  BY <1>1, <1>2 DEF TypeInv, Intake
<1>4. QED
  BY <1>3 DEF ReadCandidates, Others

Matches(d) == {s \in DOMAIN intake[d].seen : Shared(d, s) # {} /\ ~Frozen(s)}

LEMMA ChooseDoes ==
    ASSUME SoundInv, NEW d \in Detections, Choose(d)
    PROVE  /\ intake[d].pc = "choose" /\ intake'[d].pc = "place"
           /\ Matches(d) \in SUBSET Detections /\ intake'[d].targets \subseteq Matches(d)
           /\ Matches(d) = {} => intake'[d].targets = {} /\ intake'[d].chosen = NoSituation
           /\ Matches(d) # {} => \E r \in Rankings(d, Matches(d)) :
                  intake'[d].chosen = r[1] /\ intake'[d].targets = Absorbed(d, r)
           /\ Others(d) /\ det' = det /\ sit' = sit /\ decision' = decision
           /\ failures' = failures
<1>1. TypeInv /\ intake[d] \in Intake
  BY DEF SoundInv, SerialInv, TypeInv
<1>2. Matches(d) \in SUBSET Detections
  BY <1>1 DEF Matches, Intake, Seen
<1>3. PICK r \in Rankings(d, Matches(d)) :
            intake' = [intake EXCEPT ![d] = [@ EXCEPT
                   !.chosen = IF Matches(d) = {} THEN NoSituation ELSE r[1],
                   !.targets = IF Matches(d) = {} THEN {} ELSE Absorbed(d, r),
                   !.seen = <<>>,
                   !.pc = "place"]]
  BY DEF Choose, Matches
<1>4. /\ intake'[d].chosen = IF Matches(d) = {} THEN NoSituation ELSE r[1]
      /\ intake'[d].targets = IF Matches(d) = {} THEN {} ELSE Absorbed(d, r)
      /\ intake'[d].pc = "place"
      /\ \A e \in Detections \ {d} : intake'[e] = intake[e]
  BY <1>1, <1>3 DEF TypeInv, Intake
<1>5. Matches(d) # {} => Absorbed(d, r) \subseteq Matches(d)
  BY <1>2, <1>3, RankingOf
<1>6. QED
  BY <1>2, <1>4, <1>5 DEF Choose, Others

LEMMA PlaceDoes ==
    ASSUME SoundInv, NEW d \in Detections, Place(d)
    PROVE  /\ intake[d].pc = "place" /\ det[d].home = NoSituation
           /\ intake'[d].pc = IF intake[d].targets = {} THEN "measure" ELSE "load"
           /\ intake'[d].targets = intake[d].targets
           /\ intake'[d].chosen
                = IF intake[d].chosen = NoSituation THEN d ELSE intake[d].chosen
           /\ det'[d].home = intake'[d].chosen /\ det'[d].stored = det[d].stored
           /\ det'[d].entities = det[d].entities
           /\ det'[d].detected_at = det[d].detected_at
           /\ intake'[d].chosen \in Detections
           /\ \A s \in Detections : s # intake'[d].chosen => sit'[s] = sit[s]
           /\ Others(d) /\ decision' = decision /\ failures' = failures
<1>1. TypeInv /\ intake[d] \in Intake /\ HomeInv
  BY DEF SoundInv, SerialInv, TypeInv
<1> DEFINE chosen == IF intake[d].chosen = NoSituation THEN d ELSE intake[d].chosen
<1>2. /\ intake' = [intake EXCEPT ![d] = [@ EXCEPT !.chosen = chosen,
                  !.pc = IF intake[d].targets = {} THEN "measure" ELSE "load"]]
      /\ det' = [det EXCEPT ![d].home = chosen] /\ intake[d].pc = "place"
      /\ chosen # d => sit' = sit
      /\ chosen = d => \A s \in Detections : s # d => sit'[s] = sit[s]
  BY <1>1 DEF Place, TypeInv
<1>3. chosen \in Detections
  BY <1>1 DEF Intake
<1> HIDE DEF chosen
<1>4. /\ intake'[d] = [intake[d] EXCEPT !.chosen = chosen,
                  !.pc = IF intake[d].targets = {} THEN "measure" ELSE "load"]
      /\ det'[d] = [det[d] EXCEPT !.home = chosen]
      /\ Others(d)
  BY <1>1, <1>2 DEF TypeInv, Others
<1>5. /\ intake'[d].chosen = chosen /\ intake'[d].targets = intake[d].targets
      /\ intake'[d].pc = IF intake[d].targets = {} THEN "measure" ELSE "load"
  BY <1>1, <1>4 DEF Intake
<1>6. /\ det'[d].home = chosen /\ det'[d].stored = det[d].stored
      /\ det'[d].entities = det[d].entities /\ det'[d].detected_at = det[d].detected_at
  BY <1>1, <1>4 DEF TypeInv, Detection
<1>7. det[d].home = NoSituation
  BY <1>1, <1>2 DEF HomeInv, BeforePlace
<1>8. QED
  BY <1>2, <1>3, <1>4, <1>5, <1>6, <1>7 DEF Place, chosen

LEMMA LoadDoes ==
    ASSUME SoundInv, NEW d \in Detections, Load(d)
    PROVE  /\ intake[d].pc = "load" /\ intake'[d].pc = "absorb"
           /\ intake'[d].chosen = intake[d].chosen /\ intake'[d].targets = intake[d].targets
           /\ intake'[d].alerted \subseteq intake'[d].targets
           /\ Others(d) /\ det' = det /\ sit' = sit /\ decision' = decision
           /\ failures' = failures
<1>1. TypeInv /\ intake[d] \in Intake /\ Fresh(d)
  BY DEF SoundInv, SerialInv, TypeInv
<1> DEFINE open == {s \in intake[d].targets \ {intake[d].chosen} : sit[s].status = "OPEN"}
           alerted == {s \in open : decision[s] # "none"}
<1>2. intake' = [intake EXCEPT ![d] = [intake[d] EXCEPT
              !.targets = open, !.alerted = alerted, !.pc = "absorb"]]
  BY DEF Load
<1>3. open = intake[d].targets /\ alerted \subseteq open
  BY <1>1 DEF Load, Fresh
<1> HIDE DEF open, alerted
<1>4. /\ intake'[d] = [intake[d] EXCEPT
              !.targets = open, !.alerted = alerted, !.pc = "absorb"]
      /\ \A e \in Detections \ {d} : intake'[e] = intake[e]
  BY <1>1, <1>2 DEF TypeInv
<1>5. /\ intake'[d].chosen = intake[d].chosen /\ intake'[d].targets = open
      /\ intake'[d].alerted = alerted /\ intake'[d].pc = "absorb"
  BY <1>1, <1>4 DEF Intake
<1>6. QED
  BY <1>3, <1>4, <1>5 DEF Load, Others

LEMMA AbsorbDoes ==
    ASSUME SoundInv, NEW d \in Detections, Absorb(d)
    PROVE  /\ intake[d].pc = "absorb" /\ intake'[d].pc = "measure"
           /\ intake'[d].chosen = intake[d].chosen /\ intake'[d].targets = {}
           /\ \A e \in Detections \ {d} : intake'[e] = intake[e]
           /\ \A e \in Detections :
                 /\ det'[e].home = IF det[e].home \in intake[d].targets THEN intake[d].chosen
                                                                        ELSE det[e].home
                 /\ det'[e].stored = det[e].stored /\ det'[e].entities = det[e].entities
                 /\ det'[e].detected_at = det[e].detected_at
           /\ \A s \in Detections :
                 /\ s \in intake[d].targets => sit'[s].status = "MERGED"
                 /\ s \notin intake[d].targets => sit'[s] = sit[s]
                 /\ decision'[s] = IF s \in intake[d].alerted /\ decision[s] \in Pending
                                   THEN "SUPERSEDED" ELSE decision[s]
           /\ intake[d].chosen \in Detections /\ intake[d].chosen \notin intake[d].targets
           /\ failures' = failures
<1>1. TypeInv /\ intake[d] \in Intake /\ Fresh(d)
  BY DEF SoundInv, SerialInv, TypeInv
<1>2. /\ intake'[d] = [intake[d] EXCEPT !.targets = {}, !.alerted = {}, !.pc = "measure"]
      /\ \A e \in Detections \ {d} : intake'[e] = intake[e]
  BY <1>1 DEF Absorb, TypeInv
<1>3. /\ intake'[d].chosen = intake[d].chosen /\ intake'[d].targets = {}
      /\ intake'[d].pc = "measure"
  BY <1>1, <1>2 DEF Intake
<1>4. \A e \in Detections :
         /\ det'[e].home = IF det[e].home \in intake[d].targets THEN intake[d].chosen
                                                                ELSE det[e].home
         /\ det'[e].stored = det[e].stored /\ det'[e].entities = det[e].entities
         /\ det'[e].detected_at = det[e].detected_at
  BY <1>1 DEF Absorb, Moved, TypeInv, Detection
<1>5. \A s \in Detections :
         /\ s \in intake[d].targets => sit'[s].status = "MERGED"
         /\ s \notin intake[d].targets => sit'[s] = sit[s]
         /\ decision'[s] = IF s \in intake[d].alerted /\ decision[s] \in Pending
                           THEN "SUPERSEDED" ELSE decision[s]
  BY <1>1 DEF Absorb, MarkedMerged, TypeInv, Row
<1>6. intake[d].chosen \in Detections /\ intake[d].chosen \notin intake[d].targets
  BY <1>1 DEF Absorb, Fresh
<1>7. QED
  BY <1>2, <1>3, <1>4, <1>5, <1>6 DEF Absorb

\* recompute: the situation has members, d for one.
LEMMA MeasureDoes ==
    ASSUME SoundInv, NEW d \in Detections, Measure(d)
    PROVE  /\ intake[d].pc = "measure" /\ intake'[d].pc = "update"
           /\ intake'[d].chosen = intake[d].chosen
           /\ Others(d) /\ det' = det /\ sit' = sit /\ decision' = decision
           /\ failures' = failures
<1>1. TypeInv /\ intake[d] \in Intake /\ Knows(d) /\ intake[d].pc = "measure"
  BY DEF SoundInv, SerialInv, TypeInv, Measure
<1> DEFINE members == Members(intake[d].chosen)
<1>2. members # {}
  BY <1>1 DEF Knows, Members
<1>3. intake' = [intake EXCEPT ![d] = [intake[d] EXCEPT
              !.members = members, !.pc = IF members = {} THEN "done" ELSE "update"]]
  BY DEF Measure
<1> HIDE DEF members
<1>4. /\ intake'[d] = [intake[d] EXCEPT !.members = members, !.pc = "update"]
      /\ \A e \in Detections \ {d} : intake'[e] = intake[e]
  BY <1>1, <1>2, <1>3 DEF TypeInv
<1>5. intake'[d].pc = "update" /\ intake'[d].chosen = intake[d].chosen
  BY <1>1, <1>4 DEF Intake
<1>6. QED
  BY <1>1, <1>4, <1>5 DEF Measure, Others

LEMMA UpdateDoes ==
    ASSUME SoundInv, NEW d \in Detections, Update(d)
    PROVE  /\ intake[d].pc = "update" /\ intake'[d].pc = "done"
           /\ intake[d].chosen \in Detections
           /\ \A s \in Detections : /\ s # intake[d].chosen => sit'[s] = sit[s]
                                    /\ sit'[s].status = sit[s].status
           /\ \A e \in Members(intake[d].chosen) :
                 /\ det[e].entities \subseteq sit'[intake[d].chosen].entities
                 /\ sit'[intake[d].chosen].first_seen <= det[e].detected_at
                 /\ det[e].detected_at <= sit'[intake[d].chosen].last_seen
           /\ sit'[intake[d].chosen].detection_count = Cardinality(Members(intake[d].chosen))
           /\ Others(d) /\ det' = det /\ decision' = decision /\ failures' = failures
<1> DEFINE chosen == intake[d].chosen
           members == intake[d].members
<1>1. /\ TypeInv /\ intake[d] \in Intake /\ Knows(d) /\ Fresh(d) /\ intake[d].pc = "update"
      /\ members = Members(chosen) /\ chosen \in Detections
  BY DEF SoundInv, SerialInv, TypeInv, Update, Knows, Fresh
<1>2. PICK span \in Spans(members) :
            sit' = [sit EXCEPT ![chosen] = Derived(@, members, span)]
  BY DEF Update
<1>3. /\ intake'[d].pc = "done" /\ \A e \in Detections \ {d} : intake'[e] = intake[e]
  BY <1>1 DEF Update, TypeInv, Intake
<1> HIDE DEF chosen, members
<1>4. /\ sit'[chosen] = Derived(sit[chosen], members, span) /\ sit[chosen] \in Row
      /\ \A s \in Detections : s # chosen => sit'[s] = sit[s]
  BY <1>1, <1>2 DEF TypeInv
<1>5. /\ sit'[chosen].entities = UNION {det[e].entities : e \in members}
      /\ sit'[chosen].first_seen = det[span[1]].detected_at
      /\ sit'[chosen].last_seen = det[span[2]].detected_at
      /\ sit'[chosen].detection_count = Cardinality(members)
      /\ sit'[chosen].status = sit[chosen].status
  BY <1>4 DEF Derived, Row
<1>6. \A e \in members : /\ det[span[1]].detected_at <= det[e].detected_at
                         /\ det[e].detected_at <= det[span[2]].detected_at
                         /\ det[e].entities \subseteq UNION {det[x].entities : x \in members}
  BY DEF Spans
<1>7. QED
  BY <1>1, <1>3, <1>4, <1>5, <1>6 DEF Update, Others, chosen

LEMMA FailDoes ==
    ASSUME SoundInv, NEW d \in Detections, Fail(d)
    PROVE  /\ intake[d].pc \notin Ended /\ intake'[d].pc = "dead" /\ failures' # 0
           /\ Others(d) /\ det' = det /\ sit' = sit /\ decision' = decision
<1>1. TypeInv /\ failures \in Nat
  BY CorrelationAssumption DEF SoundInv, SerialInv, TypeInv
<1>2. intake'[d].pc = "dead" /\ \A e \in Detections \ {d} : intake'[e] = intake[e]
  BY <1>1 DEF Fail, TypeInv, NotStarted
<1>3. QED
  BY <1>1, <1>2 DEF Fail, InProgress, Others

LEMMA OvertakenStep ==
    ASSUME SoundInv, Overtaken, \A d \in Detections : OnItsWay(d), [Next]_vars
    PROVE  Overtaken'
<1>1. ASSUME NEW d \in Detections, Receive(d) \/ ReadCandidates(d) \/ Choose(d) \/ Load(d)
                                   \/ Measure(d) \/ Fail(d)
      PROVE  Overtaken'
  BY <1>1, ReceiveDoes, ReadDoes, ChooseDoes, LoadDoes, MeasureDoes, FailDoes DEF Overtaken
<1>2. ASSUME NEW d \in Detections, Place(d) PROVE Overtaken'
  <2>1. Fresh(d)
    BY DEF SoundInv, SerialInv
  <2>2. sit[intake'[d].chosen].status # "MERGED"
    BY <1>2, <2>1, PlaceDoes DEF Fresh, BeforePlace
  <2>3. QED
    BY <1>2, <2>2, PlaceDoes DEF Overtaken
<1>3. ASSUME NEW d \in Detections, Absorb(d) PROVE Overtaken'
  <2>1. intake[d].alerted \subseteq intake[d].targets
    BY <1>3, AbsorbDoes DEF OnItsWay
  <2>2. QED
    BY <1>3, <2>1, AbsorbDoes DEF Overtaken
<1>4. ASSUME NEW d \in Detections, Update(d) PROVE Overtaken'
  BY <1>4, UpdateDoes DEF Overtaken
<1>5. ASSUME NEW s \in Detections, Propose(s) \/ Revise(s) \/ Settle(s) PROVE Overtaken'
  BY <1>5 DEF SoundInv, SerialInv, TypeInv, Propose, Revise, Settle, Overtaken
<1>6. CASE UNCHANGED vars
  BY <1>6 DEF vars, Overtaken
<1>7. QED
  BY <1>1, <1>2, <1>3, <1>4, <1>5, <1>6 DEF Next, Correlate

LEMMA OnItsWayStep ==
    ASSUME SoundInv, \A d \in Detections : OnItsWay(d), [Next]_vars
    PROVE  \A e \in Detections : OnItsWay(e)'
<1>0. /\ \A d \in Detections : HomeInv /\ (intake[d].pc = "none" => det[d].home = NoSituation)
      /\ \A d \in Detections : det[d].home \in Detections \cup {NoSituation}
      /\ NoSituation \notin Detections
  BY CorrelationAssumption
     DEF SoundInv, SerialInv, TypeInv, Detection, HomeInv, BeforePlace
<1>1. ASSUME NEW d \in Detections, OnItsWay(d)', Others(d),
             failures' = 0 => failures = 0
      PROVE  \A e \in Detections : OnItsWay(e)'
  BY <1>1 DEF OnItsWay, Others
<1>2. ASSUME NEW d \in Detections, Receive(d) PROVE \A e \in Detections : OnItsWay(e)'
  <2>1. OnItsWay(d)'
    BY <1>2, ReceiveDoes DEF OnItsWay
  <2>2. QED
    BY <1>1, <1>2, <2>1, ReceiveDoes
<1>3. ASSUME NEW d \in Detections, ReadCandidates(d) PROVE \A e \in Detections : OnItsWay(e)'
  <2>1. OnItsWay(d)'
    BY <1>3, ReadDoes DEF OnItsWay
  <2>2. QED
    BY <1>1, <1>3, <2>1, ReadDoes
<1>4. ASSUME NEW d \in Detections, Choose(d) PROVE \A e \in Detections : OnItsWay(e)'
  <2>1. OnItsWay(d)'
    BY <1>4, ChooseDoes DEF OnItsWay
  <2>2. QED
    BY <1>1, <1>4, <2>1, ChooseDoes
<1>5. ASSUME NEW d \in Detections, Place(d) PROVE \A e \in Detections : OnItsWay(e)'
  <2>1. det'[d].stored = det[d].stored /\ det'[d].home # NoSituation
    BY <1>0, <1>5, PlaceDoes
  <2>2. OnItsWay(d)'
    BY <1>5, <2>1, PlaceDoes DEF OnItsWay
  <2>3. QED
    BY <1>1, <1>5, <2>2, PlaceDoes
<1>6. ASSUME NEW d \in Detections, Load(d) PROVE \A e \in Detections : OnItsWay(e)'
  <2>1. OnItsWay(d)'
    BY <1>6, LoadDoes DEF OnItsWay
  <2>2. QED
    BY <1>1, <1>6, <2>1, LoadDoes
<1>7. ASSUME NEW d \in Detections, Absorb(d) PROVE \A e \in Detections : OnItsWay(e)'
  <2>1. intake[d].targets \subseteq Detections
    BY DEF SoundInv, SerialInv, TypeInv, Intake
  <2>2. \A e \in Detections : det'[e].home = NoSituation <=> det[e].home = NoSituation
    BY <1>0, <1>7, <2>1, AbsorbDoes
  <2>3. intake[d].pc = "absorb" /\ intake'[d].pc = "measure" /\ failures' = failures
    BY <1>7, AbsorbDoes
  <2>4. /\ \A e \in Detections \ {d} : intake'[e] = intake[e]
        /\ \A e \in Detections : det'[e].stored = det[e].stored
    BY <1>7, AbsorbDoes
  <2>5. OnItsWay(d)'
    BY <2>2, <2>3, <2>4 DEF OnItsWay
  <2>6. ASSUME NEW e \in Detections \ {d} PROVE OnItsWay(e)'
    BY <2>2, <2>3, <2>4 DEF OnItsWay
  <2>7. QED
    BY <2>5, <2>6
<1>8. ASSUME NEW d \in Detections, Measure(d) PROVE \A e \in Detections : OnItsWay(e)'
  <2>1. OnItsWay(d)'
    BY <1>8, MeasureDoes DEF OnItsWay
  <2>2. QED
    BY <1>1, <1>8, <2>1, MeasureDoes
<1>9. ASSUME NEW d \in Detections, Update(d) PROVE \A e \in Detections : OnItsWay(e)'
  <2>1. OnItsWay(d)'
    BY <1>9, UpdateDoes DEF OnItsWay
  <2>2. QED
    BY <1>1, <1>9, <2>1, UpdateDoes
<1>10. ASSUME NEW d \in Detections, Fail(d) PROVE \A e \in Detections : OnItsWay(e)'
  <2>1. OnItsWay(d)'
    BY <1>10, FailDoes DEF OnItsWay, Ended
  <2>2. QED
    BY <1>1, <1>10, <2>1, FailDoes
<1>11. CASE UNCHANGED <<det, sit, intake, failures>>
  BY <1>11 DEF OnItsWay
<1>12. QED
  BY <1>2, <1>3, <1>4, <1>5, <1>6, <1>7, <1>8, <1>9, <1>10, <1>11
     DEF Next, Correlate, Propose, Revise, Settle, vars

\* A row stays accurate while neither it nor its members change, and whoever
\* is at work on the situation still is.
LEMMA AccurateNext ==
    ASSUME NEW s \in Detections, Accurate(s), sit'[s] = sit[s],
           Members(s)' = Members(s), SameData(Members(s)),
           \A e \in Detections : intake[e].pc \in AtWork /\ intake[e].chosen = s =>
                                 intake'[e].pc \in AtWork /\ intake'[e].chosen = s
    PROVE  Accurate(s)'
<1>1. SUFFICES ASSUME sit'[s].status = "OPEN",
                      \A e \in Detections : intake'[e].pc \in AtWork => intake'[e].chosen # s
               PROVE  /\ \A e \in Members(s)' : /\ det'[e].entities \subseteq sit'[s].entities
                                                /\ sit'[s].first_seen <= det'[e].detected_at
                                                /\ det'[e].detected_at <= sit'[s].last_seen
                      /\ sit'[s].detection_count = Cardinality(Members(s)')
  BY DEF Accurate, AtWork
<1>2. \A e \in Detections : intake[e].pc \in AtWork => intake[e].chosen # s
  BY <1>1
<1>3. QED
  BY <1>1, <1>2 DEF Accurate, SameData

LEMMA AccurateStep ==
    ASSUME SoundInv, \A s \in Detections : Accurate(s), [Next]_vars, failures' = 0
    PROVE  \A s \in Detections : Accurate(s)'
<1> SUFFICES ASSUME NEW s \in Detections PROVE Accurate(s)'
  OBVIOUS
<1>0. NoSituation \notin Detections
  BY CorrelationAssumption
<1>1. ASSUME NEW d \in Detections, Receive(d) PROVE Accurate(s)'
  <2>1. det[d].home = NoSituation
    BY <1>1, ReceiveDoes DEF SoundInv, HomeInv, BeforePlace
  <2>2. Members(s)' = Members(s) /\ SameData(Members(s))
    BY <1>0, <1>1, <2>1, ReceiveDoes DEF Members, SameData, Others
  <2>3. QED
    BY <1>1, <2>2, ReceiveDoes, AccurateNext DEF Others, AtWork
<1>2. ASSUME NEW d \in Detections, ReadCandidates(d) \/ Choose(d) \/ Load(d) \/ Measure(d)
      PROVE  Accurate(s)'
  <2>1. Members(s)' = Members(s) /\ SameData(Members(s)) /\ sit' = sit
    BY <1>2, ReadDoes, ChooseDoes, LoadDoes, MeasureDoes DEF Members, SameData
  <2>2. \A e \in Detections : intake[e].pc \in AtWork /\ intake[e].chosen = s =>
                              intake'[e].pc \in AtWork /\ intake'[e].chosen = s
    BY <1>2, ReadDoes, ChooseDoes, LoadDoes, MeasureDoes DEF Others, AtWork
  <2>3. QED
    BY <2>1, <2>2, AccurateNext
<1>3. ASSUME NEW d \in Detections, Place(d) PROVE Accurate(s)'
  <2>1. CASE s = intake'[d].chosen
    BY <1>3, <2>1, PlaceDoes DEF Accurate, AtWork
  <2>2. CASE s # intake'[d].chosen
    <3>1. /\ sit'[s] = sit[s] /\ Others(d) /\ intake[d].pc = "place"
          /\ det[d].home # s /\ det'[d].home # s
      BY <1>0, <1>3, <2>2, PlaceDoes
    <3>2. Members(s)' = Members(s) /\ SameData(Members(s))
      BY <3>1 DEF Others, Members, SameData
    <3>3. QED
      BY <3>1, <3>2, AccurateNext DEF Others, AtWork
  <2>3. QED
    BY <2>1, <2>2
<1>4. ASSUME NEW d \in Detections, Absorb(d) PROVE Accurate(s)'
  <2>1. CASE s = intake[d].chosen
    BY <1>4, <2>1, AbsorbDoes DEF Accurate, AtWork
  <2>2. CASE s \in intake[d].targets
    BY <1>4, <2>2, AbsorbDoes DEF Accurate
  <2>3. CASE s # intake[d].chosen /\ s \notin intake[d].targets
    <3>1. sit'[s] = sit[s] /\ Members(s)' = Members(s) /\ SameData(Members(s))
      BY <1>4, <2>3, AbsorbDoes DEF Members, SameData
    <3>2. QED
      BY <1>4, <2>3, <3>1, AbsorbDoes, AccurateNext
  <2>4. QED
    BY <2>1, <2>2, <2>3
<1>5. ASSUME NEW d \in Detections, Update(d) PROVE Accurate(s)'
  <2>0. det' = det
    BY <1>5, UpdateDoes
  <2>1. Members(s)' = Members(s) /\ SameData(Members(s)) /\ det' = det
    BY <2>0 DEF Members, SameData
  <2>2. CASE s = intake[d].chosen
    <3>1. /\ \A e \in Members(s) : /\ det[e].entities \subseteq sit'[s].entities
                                   /\ sit'[s].first_seen <= det[e].detected_at
                                   /\ det[e].detected_at <= sit'[s].last_seen
          /\ sit'[s].detection_count = Cardinality(Members(s))
      BY <1>5, <2>2, UpdateDoes
    <3>2. QED
      BY <2>1, <3>1 DEF Accurate
  <2>3. CASE s # intake[d].chosen
    BY <1>5, <2>1, <2>3, UpdateDoes, AccurateNext DEF Others
  <2>4. QED
    BY <2>2, <2>3
<1>6. ASSUME NEW d \in Detections, Fail(d) PROVE FALSE
  BY <1>6, FailDoes
<1>7. CASE UNCHANGED <<det, sit, intake>>
  BY <1>7 DEF Accurate, Members
<1>8. QED
  BY <1>1, <1>2, <1>3, <1>4, <1>5, <1>6, <1>7
     DEF Next, Correlate, Propose, Revise, Settle, vars

\* What is known only grows: if it all fits after a step, it did before.
LEMMA FitsBefore ==
    ASSUME Fits', \A e \in Stored : det'[e].stored /\ det'[e].detected_at = det[e].detected_at
    PROVE  Fits
<1>1. Stored \subseteq Stored' /\ Stored' \in SUBSET Detections
  BY DEF Stored
<1>2. \A a, b \in Stored :
          det[a].detected_at - det[b].detected_at <= CORRELATION_WINDOW_MINUTES
  BY <1>1 DEF Fits
<1>3. IsFiniteSet(Stored') /\ Cardinality(Stored') \in Nat /\ Cardinality(Stored) \in Nat
  BY <1>1, Counts
<1>4. Cardinality(Stored) <= Cardinality(Stored')
  BY <1>1, <1>3, FS_Subset
<1>5. Cardinality(Stored') <= SITUATION_MAX_MEMBERS
  BY DEF Fits
<1>6. Cardinality(Stored) <= SITUATION_MAX_MEMBERS
  BY <1>3, <1>4, <1>5, CorrelationAssumption
<1>7. QED
  BY <1>2, <1>6 DEF Fits

\* While d is at work, a correction that a merge is about to overtake is of a
\* situation that d merges.
LEMMA OnlyItsTargets ==
    ASSUME SoundInv, MaxIntakes = 1, Undisturbed', NEW d \in Detections,
           intake[d].pc \notin Ended \/ Receive(d),
           \A e \in Detections \ {d} : intake'[e] = intake[e]
    PROVE  \A s \in Detections : decision'[s] = "corrected" =>
               intake'[d].pc \in {"place", "load", "absorb"} /\ s \in intake'[d].targets
<1>1. \A e \in Detections : e # d => intake[e].pc \in Ended
  BY OthersRest DEF SoundInv
<1>2. \A e \in Detections \ {d} : intake'[e].pc \notin {"place", "load", "absorb"}
  BY <1>1 DEF Ended
<1>3. QED
  BY <1>2 DEF Undisturbed

LEMMA NoneToOvertake ==
    ASSUME SoundInv, MaxIntakes = 1, Undisturbed', NEW d \in Detections, Choose(d)
    PROVE  \A s \in Detections : decision[s] # "corrected"
<1>1. /\ decision' = decision /\ intake[d].pc \notin Ended
      /\ intake'[d].targets \subseteq Matches(d)
      /\ \A e \in Detections \ {d} : intake'[e] = intake[e]
  BY ChooseDoes DEF Others, Ended
<1>2. \A s \in Detections : decision'[s] = "corrected" => s \in intake'[d].targets
  BY <1>1, OnlyItsTargets
<1>3. QED
  BY <1>1, <1>2 DEF Matches, Frozen

LEMMA CalmBefore ==
    ASSUME SoundInv, MaxIntakes = 1, \A d \in Detections : OnItsWay(d), [Next]_vars, Calm'
    PROVE  Calm
<1>0. /\ Undisturbed' /\ Fits' /\ failures' = 0
      /\ \A s \in Detections : decision'[s] # "settled"
  BY DEF Calm, Undisturbed
<1>1. ASSUME NEW d \in Detections, Receive(d) PROVE Calm
  <2>1. \A e \in Stored : det'[e].stored /\ det'[e].detected_at = det[e].detected_at
    BY <1>1, ReceiveDoes DEF Stored, Others, OnItsWay
  <2>2. \A s \in Detections : decision'[s] # "corrected"
    BY <1>0, <1>1, OnlyItsTargets, ReceiveDoes DEF Others
  <2>3. Undisturbed
    BY <1>0, <1>1, <2>2, ReceiveDoes DEF Undisturbed
  <2>4. QED
    BY <1>0, <2>1, <2>3, FitsBefore DEF Calm
<1>2. ASSUME NEW d \in Detections, ReadCandidates(d) \/ Measure(d) \/ Update(d) PROVE Calm
  <2>1. /\ det' = det /\ decision' = decision /\ failures' = failures
        /\ intake[d].pc \notin Ended
        /\ intake'[d].pc \notin {"place", "load", "absorb"}
        /\ \A e \in Detections \ {d} : intake'[e] = intake[e]
    BY <1>2, ReadDoes, MeasureDoes, UpdateDoes DEF Others, Ended
  <2>2. \A s \in Detections : decision'[s] # "corrected"
    BY <1>0, <2>1, OnlyItsTargets
  <2>3. Undisturbed
    BY <1>0, <2>1, <2>2 DEF Undisturbed
  <2>4. Fits
    BY <1>0, <2>1, FitsBefore DEF Stored
  <2>5. QED
    BY <2>3, <2>4 DEF Calm
<1>3. ASSUME NEW d \in Detections, Choose(d) PROVE Calm
  <2>1. det' = det /\ decision' = decision /\ failures' = failures
    BY <1>3, ChooseDoes
  <2>2. \A s \in Detections : decision[s] # "corrected"
    BY <1>0, <1>3, NoneToOvertake
  <2>3. Undisturbed
    BY <1>0, <2>1, <2>2 DEF Undisturbed
  <2>4. Fits
    BY <1>0, <2>1, FitsBefore DEF Stored
  <2>5. QED
    BY <2>3, <2>4 DEF Calm
<1>4. ASSUME NEW d \in Detections, Place(d) \/ Load(d) PROVE Calm
  <2>1. /\ decision' = decision /\ failures' = failures
        /\ intake[d].pc \in {"place", "load", "absorb"}
        /\ intake'[d].targets = intake[d].targets
        /\ \A e \in Detections \ {d} : intake'[e] = intake[e]
    BY <1>4, PlaceDoes, LoadDoes DEF Others
  <2>2. intake[d].pc \notin Ended
    BY <2>1 DEF Ended
  <2>3. \A s \in Detections : decision'[s] = "corrected" => s \in intake'[d].targets
    BY <1>0, <2>1, <2>2, OnlyItsTargets
  <2>4. Undisturbed
    BY <1>0, <2>1, <2>3 DEF Undisturbed
  <2>5. \A e \in Stored : det'[e].stored /\ det'[e].detected_at = det[e].detected_at
    BY <1>4, PlaceDoes, LoadDoes DEF Stored, Others
  <2>6. QED
    BY <1>0, <2>4, <2>5, FitsBefore DEF Calm
<1>5. ASSUME NEW d \in Detections, Absorb(d) PROVE Calm
  <2>1. /\ failures' = failures /\ intake[d].pc = "absorb" /\ intake'[d].pc = "measure"
        /\ \A e \in Detections \ {d} : intake'[e] = intake[e]
        /\ intake[d].alerted \subseteq intake[d].targets
    BY <1>5, AbsorbDoes DEF OnItsWay
  <2>2. intake[d].pc \notin Ended
    BY <2>1 DEF Ended
  <2>3. \A s \in Detections : decision'[s] # "corrected"
    BY <1>0, <2>1, <2>2, OnlyItsTargets
  <2>4. \A s \in Detections : decision[s] = "corrected" => s \in intake[d].targets
    BY <1>5, <2>1, <2>3, AbsorbDoes
  <2>5. \A s \in Detections : decision[s] # "settled"
    BY <1>0, <1>5, AbsorbDoes DEF Pending
  <2>6. Undisturbed
    BY <1>0, <2>1, <2>4, <2>5 DEF Undisturbed
  <2>7. \A e \in Stored : det'[e].stored /\ det'[e].detected_at = det[e].detected_at
    BY <1>5, AbsorbDoes DEF Stored
  <2>8. QED
    BY <1>0, <2>6, <2>7, FitsBefore DEF Calm
<1>6. ASSUME NEW d \in Detections, Fail(d) PROVE FALSE
  BY <1>0, <1>6, FailDoes
<1>7. ASSUME NEW s \in Detections, Propose(s) \/ Revise(s) \/ Settle(s) PROVE Calm
  <2>1. /\ det' = det /\ intake' = intake /\ failures' = failures
        /\ decision[s] \notin {"settled", "corrected"} \/ decision'[s] = "settled"
        /\ \A t \in Detections : t # s => decision'[t] = decision[t]
    BY <1>7 DEF Propose, Revise, Settle, SoundInv, SerialInv, TypeInv
  <2>2. Undisturbed
    BY <1>0, <2>1 DEF Undisturbed
  <2>3. Fits
    BY <1>0, <2>1, FitsBefore DEF Stored
  <2>4. QED
    BY <2>2, <2>3 DEF Calm
<1>8. CASE UNCHANGED vars
  <2>1. Undisturbed
    BY <1>0, <1>8 DEF vars, Undisturbed
  <2>2. Fits
    BY <1>0, <1>8, FitsBefore DEF vars, Stored
  <2>3. QED
    BY <2>1, <2>2 DEF Calm
<1>9. QED
  BY <1>1, <1>2, <1>3, <1>4, <1>5, <1>6, <1>7, <1>8 DEF Next, Correlate

\* In the calm, an intake that chooses finds every detection like its own: each
\* is in a situation that is a candidate, and all of them fit under the cap.
LEMMA ChooseGathers ==
    ASSUME SoundInv, MaxIntakes = 1, Overtaken, \A e \in Detections : OnItsWay(e),
           \A s \in Detections : Accurate(s), Calm,
           \A s \in Detections : decision[s] # "corrected",
           NEW d \in Detections, Choose(d), NEW e \in Placed, Alike(d, e)
    PROVE  det[e].home \in intake'[d].targets \cup {intake'[d].chosen}
<1> DEFINE s == det[e].home
<1>0. /\ TypeInv /\ intake[d].pc = "choose" /\ Knows(d) /\ NothingStrays /\ HomeInv
      /\ e \in Detections /\ s \in Detections /\ SITUATION_MAX_MEMBERS \in Nat
  BY ChooseDoes, CorrelationAssumption
     DEF SoundInv, SerialInv, TypeInv, Detection, Placed
<1>1. \A x \in Detections : intake[x].pc \notin AtWork
  <2>1. \A x \in Detections : x # d => intake[x].pc \in Ended
    BY <1>0, OthersRest DEF SoundInv, Ended
  <2>2. QED
    BY <1>0, <2>1 DEF AtWork, Ended
<1>2. Placed \subseteq Stored \ {d} /\ d \in Stored /\ e \in Stored
  BY <1>0 DEF Placed, Stored, OnItsWay, HomeInv, BeforePlace
<1>3. /\ IsFiniteSet(Placed) /\ Cardinality(Placed) \in Nat
      /\ Cardinality(Placed) < SITUATION_MAX_MEMBERS
  <2>1. Placed \in SUBSET Detections /\ Stored \in SUBSET Detections
    BY DEF Placed, Stored
  <2>2. /\ IsFiniteSet(Placed) /\ Cardinality(Placed) \in Nat
        /\ IsFiniteSet(Stored) /\ Cardinality(Stored) \in Nat
    BY <2>1, Counts
  <2>3. Cardinality(Placed) <= Cardinality(Stored) /\ Cardinality(Placed) # Cardinality(Stored)
    BY <1>2, <2>2, FS_Subset
  <2>4. Cardinality(Stored) <= SITUATION_MAX_MEMBERS
    BY DEF Calm, Fits
  <2>5. QED
    BY <1>0, <2>2, <2>3, <2>4
<1>4. ASSUME NEW t \in Detections
      PROVE  /\ Members(t) \in SUBSET Placed
             /\ Cardinality(Members(t)) \in Nat
             /\ Cardinality(Members(t)) < SITUATION_MAX_MEMBERS
  <2>1. Members(t) \in SUBSET Placed /\ Members(t) \in SUBSET Detections
    BY CorrelationAssumption DEF Members, Placed
  <2>2. Cardinality(Members(t)) <= Cardinality(Placed) /\ Cardinality(Members(t)) \in Nat
    BY <1>3, <2>1, FS_Subset, Counts
  <2>3. QED
    BY <1>0, <1>3, <2>1, <2>2
<1>5. ASSUME NEW t \in Detections, sit[t].status = "OPEN"
      PROVE  /\ \A x \in Members(t) : /\ det[x].entities \subseteq sit[t].entities
                                      /\ sit[t].first_seen <= det[x].detected_at
                                      /\ det[x].detected_at <= sit[t].last_seen
             /\ sit[t].detection_count = Cardinality(Members(t))
  BY <1>1, <1>5 DEF Accurate
<1>6. sit[s].status = "OPEN" /\ e \in Members(s)
  BY <1>0 DEF NothingStrays, Members
<1>7. IsCandidate(d, s)
  <2>1. sit[s].detection_count < SITUATION_MAX_MEMBERS
    BY <1>0, <1>4, <1>5, <1>6
  <2>2. /\ det[d].detected_at \in Nat /\ det[e].detected_at \in Nat
        /\ CORRELATION_WINDOW_MINUTES \in Nat
        /\ sit[s].first_seen \in Nat /\ sit[s].last_seen \in Nat
    BY <1>0, TimeOf, TimesType, CorrelationAssumption DEF TypeInv, Row
  <2>3. /\ det[d].detected_at - det[e].detected_at <= CORRELATION_WINDOW_MINUTES
        /\ det[e].detected_at - det[d].detected_at <= CORRELATION_WINDOW_MINUTES
    BY <1>2 DEF Calm, Fits
  <2>4. sit[s].first_seen <= det[e].detected_at /\ det[e].detected_at <= sit[s].last_seen
    BY <1>0, <1>5, <1>6
  <2>5. QED
    BY <1>6, <2>1, <2>2, <2>3, <2>4 DEF IsCandidate
<1>8. ASSUME NEW t \in Matches(d)
      PROVE  /\ t \in Detections
             /\ intake[d].seen[t].detection_count = Cardinality(Members(t))
  <2>1. t \in Detections /\ IsCandidate(d, t) /\ intake[d].seen[t] = sit[t]
    BY <1>0 DEF Matches, Knows
  <2>2. QED
    BY <1>5, <2>1 DEF IsCandidate
<1>9. s \in Matches(d)
  <2>1. s \in DOMAIN intake[d].seen /\ intake[d].seen[s] = sit[s]
    BY <1>0, <1>7 DEF Knows
  <2>2. Shared(d, s) # {}
    <3>1. det[e].entities \subseteq sit[s].entities
      BY <1>0, <1>5, <1>6
    <3>2. QED
      BY <2>1, <3>1 DEF Shared, Alike
  <2>3. ~Frozen(s)
    BY <1>0, <1>6 DEF Frozen, Overtaken, Calm, Undisturbed
  <2>4. QED
    BY <2>1, <2>2, <2>3 DEF Matches
<1> HIDE DEF s
<1>10. PICK r \in Rankings(d, Matches(d)) :
            intake'[d].chosen = r[1] /\ intake'[d].targets = Absorbed(d, r)
  BY <1>9, ChooseDoes
<1> DEFINE n == Cardinality(Matches(d))
<1>11. /\ n \in Nat \ {0} /\ IsFiniteSet(Matches(d))
       /\ r \in [1..n -> Matches(d)] /\ \A i, j \in 1..n : i < j => r[i] # r[j]
  <2>1. Matches(d) \in SUBSET Detections
    BY <1>8
  <2>2. n \in Nat \ {0} /\ IsFiniteSet(Matches(d))
    BY <1>9, <2>1, Counts
  <2> HIDE DEF n
  <2>3. r \in [1..n -> Matches(d)] /\ \A i, j \in DOMAIN r : i < j => r[i] # r[j]
    BY <1>10 DEF Rankings, n
  <2>4. QED
    BY <2>2, <2>3
<1>12. PICK k \in 1..n : r[k] = s
  <2>1. IsFiniteSet(1..n) /\ Cardinality(1..n) = n
    <3> HIDE DEF n
    <3>1. QED
      BY <1>11, FS_Interval
  <2>2. r \in Injection(1..n, Matches(d))
    <3> HIDE DEF n
    <3>1. \A i, j \in 1..n : i # j => r[i] # r[j]
      BY <1>11
    <3>2. QED
      BY <1>11, <3>1 DEF Injection, IsInjective
  <2>3. r \in Surjection(1..n, Matches(d))
    BY <1>11, <2>1, <2>2, FS_Injection
  <2>4. QED
    BY <1>9, <2>3 DEF Surjection
<1>13. CASE k = 1
  BY <1>10, <1>12, <1>13 DEF s
<1>14. CASE k # 1
  <2> HIDE DEF n
  <2> DEFINE M == [i \in 1..n |-> Members(r[i])]
             c == [i \in 1..n |-> Cardinality(Members(r[i]))]
  <2>1. \A i \in 1..n : r[i] \in Matches(d) /\ r[i] \in Detections
    BY <1>8, <1>11
  <2>2. M \in [1..n -> SUBSET Placed]
    BY <1>4, <2>1
  <2>3. \A i, j \in 1..n : i < j => M[i] \cap M[j] = {}
    BY <1>11 DEF Members
  <2>4. /\ \A i \in 1..n : c[i] = Cardinality(M[i])
        /\ \A i \in 1..n : c[i] = intake[d].seen[r[i]].detection_count
    BY <1>8, <2>1
  <2>5. Len(r) = n
    <3>1. r \in Seq(Matches(d)) /\ DOMAIN r = 1..n
      BY <1>11
    <3>2. QED
      BY <1>11, <3>1
  <2>6. c[1] = intake[d].seen[r[1]].detection_count
    <3>1. 1 \in 1..n
      BY <1>11
    <3>2. QED
      BY <2>4, <3>1
  <2> HIDE DEF M, c
  <2>7. Budgeted(Room(d, r), n, SITUATION_MAX_MEMBERS - c[1] - 1, c)
    BY <1>11, <2>4, <2>5, <2>6, RoomIs
  <2>8. \A i \in 2..n : c[i] <= Room(d, r)[i - 1]
    BY <1>0, <1>3, <1>11, <2>2, <2>3, <2>4, <2>7, RoomSuffices
  <2>9. k \in 2..n
    BY <1>11, <1>12, <1>14
  <2>10. intake[d].seen[r[k]].detection_count <= Room(d, r)[k - 1]
    BY <1>12, <2>4, <2>8, <2>9
  <2>11. r[k] \in Absorbed(d, r)
    BY <2>5, <2>9, <2>10 DEF Absorbed
  <2>12. QED
    BY <1>10, <1>12, <2>11 DEF s
<1>15. QED
  BY <1>13, <1>14

\* Two that share an entity are still gathered when the intakes that fold
\* situations have not changed.
LEMMA StillGathered ==
    ASSUME Gathered, Placed' = Placed, NEW d \in Detections,
           \A e \in Detections \ {d} : intake'[e] = intake[e] /\ SameData({e}),
           \A e \in Placed : det'[e].home = det[e].home /\ SameData({e}),
           intake[d].pc \notin {"load", "absorb"},
           intake'[d].pc = "place" => \A e \in Placed : Alike(d, e)' =>
                              det[e].home \in intake'[d].targets \cup {intake'[d].chosen}
    PROVE  Gathered'
<1>1. \A a, b \in Placed : Alike(a, b)' <=> Alike(a, b)
  BY DEF Alike, SameData
<1>2. \A a \in Detections \ {d}, b \in Placed : Alike(a, b)' <=> Alike(a, b)
  BY DEF Alike, SameData
<1>3. ASSUME NEW a \in Placed, NEW b \in Placed, Alike(a, b)'
      PROVE  \/ det'[a].home = det'[b].home
             \/ \E x \in Detections :
                   /\ intake'[x].pc \in {"load", "absorb"}
                   /\ {det'[a].home, det'[b].home}
                         \subseteq intake'[x].targets \cup {intake'[x].chosen}
  <2>1. \/ det[a].home = det[b].home
        \/ \E x \in Detections :
              /\ intake[x].pc \in {"load", "absorb"}
              /\ {det[a].home, det[b].home} \subseteq intake[x].targets \cup {intake[x].chosen}
    BY <1>1, <1>3 DEF Gathered
  <2>2. det'[a].home = det[a].home /\ det'[b].home = det[b].home
    OBVIOUS
  <2>3. CASE det[a].home = det[b].home
    BY <2>2, <2>3
  <2>4. ASSUME NEW x \in Detections, intake[x].pc \in {"load", "absorb"},
               {det[a].home, det[b].home} \subseteq intake[x].targets \cup {intake[x].chosen}
        PROVE  /\ intake'[x].pc \in {"load", "absorb"}
               /\ {det'[a].home, det'[b].home}
                     \subseteq intake'[x].targets \cup {intake'[x].chosen}
    <3>1. intake'[x] = intake[x]
      BY <2>4
    <3>2. QED
      BY <2>2, <2>4, <3>1
  <2>5. QED
    BY <2>1, <2>3, <2>4
<1>4. ASSUME NEW x \in Detections, intake'[x].pc = "place", NEW e \in Placed, Alike(x, e)'
      PROVE  det'[e].home \in intake'[x].targets \cup {intake'[x].chosen}
  <2>1. CASE x = d
    BY <1>4, <2>1
  <2>2. CASE x # d
    <3>1. intake'[x] = intake[x] /\ Alike(x, e)
      BY <1>2, <1>4, <2>2
    <3>2. det[e].home \in intake[x].targets \cup {intake[x].chosen}
      BY <1>4, <3>1 DEF Gathered
    <3>3. QED
      BY <3>1, <3>2
  <2>3. QED
    BY <2>1, <2>2
<1>5. QED
  BY <1>3, <1>4 DEF Gathered

\* The detection that is placed is with all like it, or its intake is about to
\* fold their situations into the one it is in.
LEMMA PlaceGathers ==
    ASSUME SoundInv, MaxIntakes = 1, Gathered, NEW d \in Detections, Place(d)
    PROVE  Gathered'
<1>0. /\ intake[d].pc = "place" /\ intake[d].pc \notin Ended /\ det[d].home = NoSituation
      /\ NoSituation \notin Detections
      /\ \A e \in Detections : det[e].home \in Detections \cup {NoSituation}
  BY PlaceDoes, CorrelationAssumption DEF Ended, SoundInv, SerialInv, TypeInv, Detection
<1>1. \A e \in Detections \ {d} : /\ intake[e].pc \in Ended /\ intake'[e] = intake[e]
                                  /\ det'[e] = det[e]
  BY <1>0, OthersRest, PlaceDoes DEF SoundInv, Others
<1> DEFINE chosen == intake'[d].chosen
           targets == intake[d].targets
<1>2. /\ det'[d].home = chosen /\ det'[d].entities = det[d].entities
      /\ intake'[d].targets = targets /\ intake'[d].pc \in {"load", "measure"}
      /\ targets # {} => intake'[d].pc = "load"
      /\ chosen \in Detections
      /\ intake[d].chosen # NoSituation => chosen = intake[d].chosen
  BY PlaceDoes
<1> HIDE DEF chosen, targets
<1>3. Placed' = Placed \cup {d} /\ d \notin Placed
  BY <1>0, <1>1, <1>2 DEF Placed
<1>4. \A a, b \in Detections : Alike(a, b)' <=> Alike(a, b)
  <2>1. \A a \in Detections : det'[a].entities = det[a].entities
    BY <1>1, <1>2
  <2>2. QED
    BY <2>1 DEF Alike
<1>5. ASSUME NEW e \in Placed, Alike(d, e)
      PROVE  det'[e].home = chosen \/ det'[e].home \in targets
  <2>1. det[e].home \in intake[d].targets \cup {intake[d].chosen}
    BY <1>0, <1>5 DEF Gathered
  <2>2. e # d /\ e \in Detections /\ det[e].home # NoSituation
    BY <1>3 DEF Placed
  <2>3. QED
    BY <1>1, <1>2, <2>1, <2>2 DEF targets
<1>6. ASSUME NEW a \in Placed', NEW b \in Placed', Alike(a, b)'
      PROVE  \/ det'[a].home = det'[b].home
             \/ /\ intake'[d].pc \in {"load", "absorb"}
                /\ {det'[a].home, det'[b].home}
                       \subseteq intake'[d].targets \cup {intake'[d].chosen}
  <2>0. Alike(a, b) /\ Alike(b, a) /\ a \in Detections /\ b \in Detections
    BY <1>4, <1>6 DEF Placed, Alike
  <2>1. CASE a # d /\ b # d
    <3>1. a \in Placed /\ b \in Placed
      BY <1>3, <2>1
    <3>2. \A x \in Detections : intake[x].pc \notin {"load", "absorb"}
      BY <1>0, <1>1 DEF Ended
    <3>3. det[a].home = det[b].home
      BY <2>0, <3>1, <3>2 DEF Gathered
    <3>4. QED
      BY <1>1, <2>0, <2>1, <3>3
  <2>2. ASSUME NEW e \in Placed, Alike(d, e)
        PROVE  \/ det'[e].home = det'[d].home
               \/ /\ intake'[d].pc \in {"load", "absorb"}
                  /\ {det'[d].home, det'[e].home}
                         \subseteq intake'[d].targets \cup {intake'[d].chosen}
    BY <1>2, <1>5, <2>2 DEF chosen
  <2>3. CASE a = d /\ b # d
    <3>1. b \in Placed /\ Alike(d, b)
      BY <1>3, <2>0, <2>3
    <3>2. QED
      BY <2>2, <2>3, <3>1
  <2>4. CASE a # d /\ b = d
    <3>1. a \in Placed /\ Alike(d, a)
      BY <1>3, <2>0, <2>4
    <3>2. QED
      BY <2>2, <2>4, <3>1
  <2>5. QED
    BY <2>1, <2>3, <2>4
<1>7. \A x \in Detections : intake'[x].pc # "place"
  BY <1>1, <1>2 DEF Ended
<1>8. QED
  BY <1>6, <1>7 DEF Gathered

LEMMA GatheredStep ==
    ASSUME SoundInv, MaxIntakes = 1, Overtaken, \A e \in Detections : OnItsWay(e),
           failures = 0 => \A s \in Detections : Accurate(s), Calm => Gathered,
           [Next]_vars, Calm'
    PROVE  Gathered'
<1>0. Calm /\ Gathered /\ Undisturbed' /\ failures = 0 /\ failures' = 0
  BY CalmBefore DEF Calm, Undisturbed
<1>1. ASSUME NEW d \in Detections, Receive(d) PROVE Gathered'
  <2>1. /\ det[d].home = NoSituation /\ det'[d].home = NoSituation
        /\ intake[d].pc = "none"
        /\ \A e \in Detections \ {d} : intake'[e] = intake[e] /\ det'[e] = det[e]
    BY <1>1, ReceiveDoes DEF SoundInv, HomeInv, BeforePlace, Others
  <2>2. Placed' = Placed /\ d \notin Placed /\ Placed \subseteq Detections
    BY <2>1 DEF Placed
  <2>3. /\ \A e \in Detections \ {d} : SameData({e})
        /\ \A e \in Placed : det'[e].home = det[e].home /\ SameData({e})
    BY <2>1, <2>2 DEF SameData
  <2>4. intake'[d].pc = "place" => \A e \in Placed : ~Alike(d, e)'
    BY <1>1, ReceiveDoes DEF Alike
  <2>5. intake[d].pc \notin {"load", "absorb"}
    BY <1>1, ReceiveDoes
  <2>6. QED
    BY <1>0, <2>1, <2>2, <2>3, <2>4, <2>5, StillGathered
<1>2. ASSUME NEW d \in Detections,
             det' = det, Others(d), intake[d].pc \notin {"load", "absorb"},
             intake'[d].pc # "place"
      PROVE  Gathered'
  <2>1. /\ \A e \in Detections : det'[e].home = det[e].home /\ SameData({e})
        /\ Placed' = Placed /\ Placed \subseteq Detections
    BY <1>2 DEF SameData, Placed
  <2>2. QED
    BY <1>0, <1>2, <2>1, StillGathered DEF Others
<1>3. ASSUME NEW d \in Detections, ReadCandidates(d) \/ Measure(d) \/ Update(d) PROVE Gathered'
  <2>1. /\ det' = det /\ Others(d) /\ intake[d].pc \notin {"load", "absorb"}
        /\ intake'[d].pc # "place"
    BY <1>3, ReadDoes, MeasureDoes, UpdateDoes
  <2>2. QED
    BY <1>2, <2>1
<1>4. ASSUME NEW d \in Detections, Choose(d) PROVE Gathered'
  <2>1. det' = det /\ Others(d) /\ intake[d].pc = "choose"
    BY <1>4, ChooseDoes
  <2>2. /\ \A e \in Detections : det'[e].home = det[e].home /\ SameData({e})
        /\ Placed' = Placed /\ Placed \subseteq Detections
        /\ \A e \in Placed : Alike(d, e)' <=> Alike(d, e)
    BY <2>1 DEF SameData, Placed, Alike
  <2>3. \A e \in Placed : Alike(d, e) =>
            det[e].home \in intake'[d].targets \cup {intake'[d].chosen}
    BY <1>0, <1>4, NoneToOvertake, ChooseGathers
  <2>4. QED
    BY <1>0, <2>1, <2>2, <2>3, StillGathered DEF Others
<1>5. ASSUME NEW d \in Detections, Place(d) PROVE Gathered'
  BY <1>0, <1>5, PlaceGathers
<1>6. ASSUME NEW d \in Detections, Load(d) PROVE Gathered'
  <2>1. /\ det' = det /\ Others(d) /\ intake[d].pc = "load" /\ intake'[d].pc = "absorb"
        /\ intake'[d].chosen = intake[d].chosen /\ intake'[d].targets = intake[d].targets
    BY <1>6, LoadDoes
  <2>2. QED
    BY <1>0, <2>1 DEF Gathered, Placed, Alike, Others
<1>7. ASSUME NEW d \in Detections, Absorb(d) PROVE Gathered'
  <2>1. /\ intake[d].pc = "absorb" /\ intake'[d].pc = "measure"
        /\ \A e \in Detections \ {d} : intake'[e] = intake[e]
        /\ intake[d].chosen \in Detections /\ intake[d].targets \subseteq Detections
    BY <1>7, AbsorbDoes DEF SoundInv, SerialInv, TypeInv, Intake
  <2>2. \A e \in Detections :
           /\ det'[e].home = IF det[e].home \in intake[d].targets THEN intake[d].chosen
                                                                  ELSE det[e].home
           /\ det'[e].entities = det[e].entities
    BY <1>7, AbsorbDoes
  <2>3. \A e \in Detections : e # d => intake[e].pc \in Ended
    BY <2>1, OthersRest DEF SoundInv, Ended
  <2>4. \A e \in Detections : intake'[e].pc \notin {"place", "load", "absorb"}
    BY <2>1, <2>3 DEF Ended
  <2>5. Placed' = Placed /\ Placed \subseteq Detections
    BY <2>1, <2>2, CorrelationAssumption DEF Placed
  <2>6. ASSUME NEW a \in Placed, NEW b \in Placed, Alike(a, b)'
        PROVE  det'[a].home = det'[b].home
    <3>1. Alike(a, b)
      BY <2>2, <2>5, <2>6 DEF Alike
    <3>2. \/ det[a].home = det[b].home
          \/ {det[a].home, det[b].home} \subseteq intake[d].targets \cup {intake[d].chosen}
      <4>1. \A x \in Detections : intake[x].pc \in {"load", "absorb"} => x = d
        BY <2>3 DEF Ended
      <4>2. QED
        BY <1>0, <3>1, <4>1 DEF Gathered
    <3>3. QED
      BY <2>2, <2>5, <3>2
  <2>7. QED
    BY <2>4, <2>5, <2>6 DEF Gathered
<1>8. ASSUME NEW d \in Detections, Fail(d) PROVE FALSE
  BY <1>0, <1>8, FailDoes
<1>9. CASE UNCHANGED <<det, intake>>
  BY <1>0, <1>9 DEF Gathered, Placed, Alike
<1>10. QED
  BY <1>1, <1>3, <1>4, <1>5, <1>6, <1>7, <1>8, <1>9
     DEF Next, Correlate, Propose, Revise, Settle, vars

LEMMA GatherStep ==
    ASSUME GatherInv, MaxIntakes = 1, [Next]_vars
    PROVE  GatherInv'
<1>1. /\ SoundInv /\ Overtaken /\ \A d \in Detections : OnItsWay(d)
      /\ failures = 0 => \A s \in Detections : Accurate(s)
      /\ Calm => Gathered
  BY DEF GatherInv
<1>2. SoundInv'
  BY <1>1, SoundStep
<1>3. Overtaken' /\ \A d \in Detections : OnItsWay(d)'
  BY <1>1, OvertakenStep, OnItsWayStep
<1>4. failures' = 0 => \A s \in Detections : Accurate(s)'
  <2>1. failures' = 0 => failures = 0
    <3>1. failures \in Nat
      BY <1>1, CorrelationAssumption DEF SoundInv, SerialInv, TypeInv
    <3>2. failures' = failures \/ failures' = failures + 1
      BY DEF Next, Correlate, Receive, ReadCandidates, Choose, Place, Load, Absorb,
             Measure, Update, Fail, Propose, Revise, Settle, vars
    <3>3. QED
      BY <3>1, <3>2
  <2>2. QED
    BY <1>1, <2>1, AccurateStep
<1>5. Calm' => Gathered'
  BY <1>1, GatheredStep
<1>6. QED
  BY <1>2, <1>3, <1>4, <1>5 DEF GatherInv

LEMMA GatherInit == ASSUME Init PROVE GatherInv
<1>1. SoundInv
  BY SoundInit
<1>2. Placed = {} /\ \A s \in Detections : Members(s) = {}
  BY CorrelationAssumption DEF Init, Placed, Members
<1>3. Overtaken /\ \A d \in Detections : OnItsWay(d)
  BY DEF Init, Overtaken, OnItsWay, NotStarted
<1>4. \A s \in Detections : Accurate(s)
  BY DEF Init, Accurate, NoRow
<1>5. Gathered
  BY <1>2 DEF Gathered, Init, NotStarted
<1>6. QED
  BY <1>1, <1>3, <1>4, <1>5 DEF GatherInv

\* One intake at a time: when everything known fits into one window and one
\* situation, two detections that share an entity are in one situation.
THEOREM SerialIntrusions == ASSUME MaxIntakes = 1 PROVE Spec => []SituationsAreIntrusions
<1>1. GatherInv /\ [Next]_vars => GatherInv'
  BY GatherStep
<1>2. ASSUME GatherInv PROVE SituationsAreIntrusions
  <2> SUFFICES ASSUME OneIntrusion, NEW d \in Placed, NEW e \in Placed, Alike(d, e)
               PROVE  det[d].home = det[e].home
    BY DEF SituationsAreIntrusions
  <2>1. \A x \in Detections : OnItsWay(x) /\ intake[x].pc \in Ended
    BY <1>2 DEF GatherInv, OneIntrusion, Quiet, InProgress
  <2>2. Stored = Placed
    BY <2>1 DEF OnItsWay, OneIntrusion, Ended, Stored, Placed
  <2>3. Undisturbed /\ Fits
    BY <2>2 DEF OneIntrusion, Undisturbed, Fits
  <2>4. Gathered
    BY <1>2, <2>3 DEF GatherInv, Calm
  <2>5. \A x \in Detections : intake[x].pc \notin {"load", "absorb"}
    BY <2>1 DEF Ended
  <2>6. QED
    BY <2>4, <2>5 DEF Gathered
<1>3. QED
  BY <1>1, <1>2, GatherInit, PTL DEF Spec

=============================================================================
