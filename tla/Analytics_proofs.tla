--------------------------- MODULE Analytics_proofs ---------------------------
(***************************************************************************)
(* What holds of the analyst's workspace for every number of users, items  *)
(* of content, jobs, rows, writes and restarts.                            *)
(***************************************************************************)
EXTENDS Analytics, FiniteSetTheorems, WellFoundedInduction, TLAPS

-----------------------------------------------------------------------------
(* What a search returns *)

\* No set maps onto a larger one.
LEMMA ImageIsNoLarger ==
    ASSUME NEW S, IsFiniteSet(S), NEW f, DOMAIN f = S
    PROVE  LET image == {f[x] : x \in S} IN
           IsFiniteSet(image) /\ Cardinality(image) \in Nat /\ Cardinality(image) <= Cardinality(S)
<1> DEFINE image == {f[x] : x \in S}
           g == [x \in S |-> f[x]]
<1>1. g \in Surjection(S, image)
  BY DEF Surjection
<1>2. IsFiniteSet(image) /\ Cardinality(image) <= Cardinality(S)
  <2> HIDE DEF image, g
  <2> QED
    BY <1>1, FS_Surjection
<1> QED
  BY <1>2, FS_CardinalityType

\* A set of natural numbers has a least one: the inductions below rest on it.
LEMMA SomeLeast ==
    ASSUME NEW S \in SUBSET Nat, S # {}
    PROVE  \E n \in S : \A m \in S : n <= m
<1> DEFINE Below == OpToRel(<, Nat)
<1>1. IsWellFoundedOn(Below, Nat)
  BY NatLessThanWellFounded
<1>2. \A m \in S, n \in S : m < n => <<m, n>> \in Below
  BY DEF OpToRel
<1> HIDE DEF Below
<1>3. PICK n \in S : \A m \in S : ~(<<m, n>> \in Below)
  BY <1>1, WFMin
<1>4. \A m \in S : ~(m < n)
  BY <1>2, <1>3, Zenon
<1> QED
  BY <1>4

\* Of rows that have a time, any number can be pulled before the others.
LEMMA OldestExist ==
    ASSUME NEW rows, IsFiniteSet(rows), \A r \in rows : r.time \in Nat,
           NEW k \in Nat, k <= Cardinality(rows)
    PROVE  \E p \in SUBSET rows : /\ Cardinality(p) = k
                                  /\ \A r \in p, q \in rows \ p : r.time <= q.time
<1> DEFINE Oldest(p, n) == /\ Cardinality(p) = n
                           /\ \A r \in p, q \in rows \ p : r.time <= q.time
           Short == {n \in Nat : n <= Cardinality(rows) /\ ~\E p \in SUBSET rows : Oldest(p, n)}
<1>1. SUFFICES ASSUME Short # {} PROVE FALSE
  OBVIOUS
<1>2. PICK n \in Short : \A m \in Short : n <= m
  <2>1. Short \subseteq Nat
    OBVIOUS
  <2> HIDE DEF Short
  <2> QED
    BY <1>1, <2>1, SomeLeast
<1>3. n # 0
  BY <1>2, FS_EmptySet
<1>4. n - 1 \in Nat /\ n - 1 <= Cardinality(rows) /\ n - 1 \notin Short
  BY <1>2, <1>3, FS_CardinalityType
<1>5. PICK p \in SUBSET rows : Oldest(p, n - 1)
  BY <1>4
<1>6. IsFiniteSet(p)
  BY FS_Subset
<1>7. rows \ p # {}
  BY <1>2, <1>4, <1>5
<1>8. PICK r \in rows \ p : \A q \in rows \ p : r.time <= q.time
  <2> DEFINE times == {q.time : q \in rows \ p}
  <2>1. times \subseteq Nat /\ times # {}
    BY <1>7
  <2>2. PICK t \in times : \A m \in times : t <= m
    <3> HIDE DEF times
    <3> QED
      BY <2>1, SomeLeast
  <2> QED
    BY <2>2
<1>9. Cardinality(p \cup {r}) = n
  <2>1. n \in Nat /\ Cardinality(p) = n - 1
    BY <1>2, <1>5
  <2>2. Cardinality(p \cup {r}) = Cardinality(p) + 1
    <3> HIDE DEF Short
    <3> QED
      BY <1>6, <1>8, FS_AddElement
  <2> QED
    BY <2>1, <2>2
<1>10. Oldest(p \cup {r}, n)
  BY <1>5, <1>8, <1>9
<1> QED
  BY <1>2, <1>8, <1>10

Counted(n) == [num |-> n, den |-> 1]

\* A count is the number of the rows it is of.
LEMMA CountOfRows ==
    ASSUME NEW stage, stage.agg = "count", NEW rows
    PROVE  /\ StatsNumber(stage, rows) = Counted(Cardinality(rows))
           /\ ChartNumber(stage, rows) = Counted(Cardinality(rows))
<1>1. \A value : Aggregate("count", value) = Counted(Cardinality(DOMAIN value))
  BY DEF Aggregate, Counted
<1> QED
  BY <1>1 DEF StatsNumber, ChartNumber

\* No more rows come back than there are, and a number that is none of them
\* comes from counting some of them.
Modest(result, n) ==
    /\ result.rows \in Nat /\ result.rows <= n
    /\ result.kind = "aggregation" =>
         result.first = Null \/ \E c \in Nat : c <= n /\ result.first = Counted(c)

LEMMA ModestMeasure ==
    ASSUME NEW result, NEW n \in Nat, Modest(result, n)
    PROVE  Measure(result) \in Nat /\ Measure(result) <= n
<1>1. CASE result.kind = "aggregation" /\ result.rows > 0 /\ result.first.num # 0
  <2>1. PICK c \in Nat : c <= n /\ result.first = Counted(c)
    BY <1>1 DEF Modest, Null
  <2>2. Measure(result) = c \div 1
    BY <1>1, <2>1 DEF Measure, Counted
  <2> QED
    BY <2>1, <2>2
<1>2. CASE ~(result.kind = "aggregation" /\ result.rows > 0 /\ result.first.num # 0)
  BY <1>2 DEF Modest, Measure
<1> QED
  BY <1>1, <1>2

LEMMA LimitIsNat ==
    ASSUME NEW query \in Queries
    PROVE  Limit(query) \in Nat
  BY AnalyticsAssumption, SearchQueryAssumption DEF Limit, Few

LEMMA FewerAreFew ==
    ASSUME NEW n \in Nat, NEW limit \in Nat
    PROVE  Few(n, limit) \in Nat /\ Few(n, limit) <= n
  BY DEF Few

\* The groups are at most as many as the rows.
LEMMA StatsAreModest ==
    ASSUME NEW query \in Queries, NEW stage, stage.agg = "count", stage.by # Unspecified,
           NEW rows, IsFiniteSet(rows)
    PROVE  Modest(ExecuteStats(stage, query, rows), Cardinality(rows))
<1> DEFINE groups == {r[stage.by] : r \in rows}
<1>1. Cardinality(rows) \in Nat
  BY FS_CardinalityType
<1>2. Cardinality(groups) \in Nat /\ Cardinality(groups) <= Cardinality(rows)
  <2> DEFINE group == [r \in rows |-> r[stage.by]]
  <2>1. DOMAIN group = rows /\ groups = {group[r] : r \in rows}
    OBVIOUS
  <2> HIDE DEF group, groups
  <2> QED
    BY <2>1, ImageIsNoLarger
<1>3. FirstGroup(stage, query, rows) \in {Counted(Cardinality(part)) : part \in SUBSET rows}
  <2> DEFINE Group(g) == {r \in rows : r[stage.by] = g}
  <2>1. PICK g : FirstGroup(stage, query, rows) = StatsNumber(stage, Group(g))
    BY Zenon DEF FirstGroup
  <2>2. StatsNumber(stage, Group(g)) = Counted(Cardinality(Group(g)))
    BY CountOfRows
  <2> QED
    BY <2>1, <2>2
<1>4. \A part \in SUBSET rows : Cardinality(part) \in Nat /\ Cardinality(part) <= Cardinality(rows)
  BY FS_Subset, FS_CardinalityType
<1>5. Few(Cardinality(groups), Limit(query)) \in Nat
      /\ Few(Cardinality(groups), Limit(query)) <= Cardinality(rows)
  <2>1. Limit(query) \in Nat
    BY LimitIsNat
  <2> HIDE DEF groups
  <2>2. Few(Cardinality(groups), Limit(query)) \in Nat
        /\ Few(Cardinality(groups), Limit(query)) <= Cardinality(groups)
    BY <1>2, <2>1, FewerAreFew
  <2> QED
    BY <1>1, <1>2, <2>2
<1> QED
  BY <1>1, <1>3, <1>4, <1>5 DEF ExecuteStats, Numbers, Modest

\* The rows pulled for a chart are rows that were selected.
LEMMA PulledAreRows ==
    ASSUME NEW rows, IsFiniteSet(rows), \A r \in rows : r.time \in Nat
    PROVE  Pulled(rows) \in SUBSET rows
<1>1. Cardinality(rows) \in Nat /\ 4 * MAX_HEAD \in Nat
  BY FS_CardinalityType, SearchQueryAssumption
<1>2. Few(Cardinality(rows), 4 * MAX_HEAD) \in Nat
      /\ Few(Cardinality(rows), 4 * MAX_HEAD) <= Cardinality(rows)
  BY <1>1, FewerAreFew
<1>3. \E p \in SUBSET rows : /\ Cardinality(p) = Few(Cardinality(rows), 4 * MAX_HEAD)
                             /\ \A r \in p, q \in rows \ p : r.time <= q.time
  BY <1>2, OldestExist
<1> QED
  BY <1>3 DEF Pulled

\* The buckets are at most as many as the rows.
LEMMA ChartsAreModest ==
    ASSUME NEW query, NEW stage, stage.agg = "count",
           NEW rows, IsFiniteSet(rows), \A r \in rows : r.time \in Nat
    PROVE  Modest(ExecuteChart(stage, query, rows), Cardinality(rows))
<1> DEFINE pulled == Pulled(rows)
           buckets == {Bucket(stage, r) : r \in pulled}
           kept == Kept(stage, query, pulled)
           oldest == {r \in pulled : kept # {} /\ Bucket(stage, r) = Min(kept)}
<1>1. pulled \in SUBSET rows
  BY PulledAreRows
<1>2. \A part \in SUBSET rows : /\ IsFiniteSet(part) /\ Cardinality(part) \in Nat
                                /\ Cardinality(part) <= Cardinality(rows)
  BY FS_Subset, FS_CardinalityType
<1>3. IsFiniteSet(buckets) /\ Cardinality(buckets) \in Nat
      /\ Cardinality(buckets) <= Cardinality(rows)
  <2> DEFINE bucket == [r \in pulled |-> Bucket(stage, r)]
  <2>1. DOMAIN bucket = pulled /\ buckets = {bucket[r] : r \in pulled}
    OBVIOUS
  <2>2. IsFiniteSet(pulled) /\ Cardinality(pulled) \in Nat
        /\ Cardinality(pulled) <= Cardinality(rows) /\ Cardinality(rows) \in Nat
    BY <1>1, <1>2
  <2> HIDE DEF bucket, buckets, pulled
  <2>3. IsFiniteSet(buckets) /\ Cardinality(buckets) \in Nat
        /\ Cardinality(buckets) <= Cardinality(pulled)
    BY <2>1, <2>2, ImageIsNoLarger
  <2> QED
    BY <2>2, <2>3
<1>4. Cardinality(kept) \in Nat /\ Cardinality(kept) <= Cardinality(rows)
  <2>1. kept \in SUBSET buckets
    BY DEF Kept
  <2>2. Cardinality(rows) \in Nat
    BY FS_CardinalityType
  <2> HIDE DEF kept, buckets
  <2>3. Cardinality(kept) \in Nat /\ Cardinality(kept) <= Cardinality(buckets)
    BY <1>3, <2>1, FS_Subset, FS_CardinalityType
  <2> QED
    BY <1>3, <2>2, <2>3
<1>5. oldest \in SUBSET rows
  BY <1>1
<1>6. ExecuteChart(stage, query, rows)
        = Numbers(Cardinality(kept), IF kept = {} THEN Null ELSE ChartNumber(stage, oldest), FALSE)
  BY DEF ExecuteChart
<1>7. ChartNumber(stage, oldest) = Counted(Cardinality(oldest))
  BY CountOfRows
<1> HIDE DEF pulled, buckets, kept, oldest
<1> QED
  BY <1>2, <1>4, <1>5, <1>6, <1>7 DEF Numbers, Modest

\* A list of rows, groups of them or a chart of them measures at most as much
\* as there are rows.
OnlyCounts(query) == \A stage \in Latest(query, Aggregates) : stage.agg = "count"
LEMMA MeasuresAtMostTheMatches ==
    ASSUME NEW query \in Queries, OnlyCounts(query), ~Counts(query), NEW since,
           NEW rows, IsFiniteSet(rows), \A r \in rows : r.time \in Nat
    PROVE  LET selected == Selected(rows, query, since) IN
           /\ Cardinality(selected) \in Nat
           /\ Measure(Execute(query, rows, since)) \in Nat
           /\ Measure(Execute(query, rows, since)) <= Cardinality(selected)
<1> DEFINE selected == Selected(rows, query, since)
           result == Execute(query, rows, since)
           stage == CHOOSE s \in Latest(query, Aggregates) : TRUE
<1>1. selected \in SUBSET rows
  BY DEF Selected
<1>2. IsFiniteSet(selected) /\ Cardinality(selected) \in Nat /\ \A r \in selected : r.time \in Nat
  <2> HIDE DEF selected
  <2> QED
    BY <1>1, FS_Subset, FS_CardinalityType
<1>3. CASE Latest(query, Aggregates) = {}
  <2>1. result = Events(Few(Cardinality(selected), Limit(query)))
    BY <1>3 DEF Execute
  <2>2. Limit(query) \in Nat
    BY LimitIsNat
  <2> HIDE DEF result, selected
  <2>3. Few(Cardinality(selected), Limit(query)) \in Nat
        /\ Few(Cardinality(selected), Limit(query)) <= Cardinality(selected)
    BY <1>2, <2>2, FewerAreFew
  <2>4. Modest(result, Cardinality(selected))
    BY <2>1, <2>3 DEF Modest, Events
  <2> QED
    BY <1>2, <2>4, ModestMeasure DEF result, selected
<1>4. CASE Latest(query, Aggregates) # {}
  <2>1. stage \in Latest(query, Aggregates) /\ stage.agg = "count"
    BY <1>4 DEF OnlyCounts
  <2>2. result = IF stage.stage = "stats" THEN ExecuteStats(stage, query, selected)
                 ELSE ExecuteChart(stage, query, selected)
    BY <1>4 DEF Execute
  <2>3. stage.stage = "stats" => stage.by # Unspecified
    <3>1. stage.stage = "stats" => stage \in Latest(query, {"stats"})
      <4> HIDE DEF stage
      <4> QED
        BY <2>1 DEF Latest, StagesOf, Aggregates
    <3> QED
      BY <3>1 DEF Counts
  <2> HIDE DEF result, selected, stage
  <2>4. Modest(result, Cardinality(selected))
    BY <1>2, <2>1, <2>2, <2>3, StatsAreModest, ChartsAreModest
  <2> QED
    BY <1>2, <2>4, ModestMeasure DEF result, selected
<1> QED
  BY <1>3, <1>4

-----------------------------------------------------------------------------
(* The inductive invariant: the content is well formed, and so is what     *)
(* each request and the worker are about to do with it                     *)

\* What is there is well formed; so is what a request is about to write.
Sound(i, row) == "there" \in DOMAIN row /\ (row.there = "yes" => WellFormed(i, row))
Refits(i, row) ==
    /\ i \in Searches /\ "query" \in DOMAIN row => row.query \in Queries
    /\ i \in Rules => /\ "search" \notin DOMAIN row
                      /\ "threshold" \in DOMAIN row => row.threshold \in Thresholds
Fits(task) ==
    /\ task.at = "create" => "there" \in DOMAIN task.with /\ WellFormed(task.id, task.with)
    /\ task.at = "change" => Refits(task.id, task.with)
    /\ task.at = "copy" => task.id \in Dashboards
    /\ task.at = "weigh" => task.search.query \in Queries /\ task.threshold \in Nat

ContentInv == DOMAIN content = Ids /\ \A i \in Ids : Sound(i, content[i])
DoingInv == DOMAIN doing = Users \cup {Worker} /\ \A a \in Users \cup {Worker} : Fits(doing[a])
WorkerInv == /\ worker \in [at : {"asleep", "rules", "reports"}, todo : SUBSET (Rules \cup Reports)]
             /\ worker.at = "rules" => worker.todo \subseteq Rules
TimeInv == stored \in [Rows -> Nat] /\ clock \in Nat
AnalyticsInv == ContentInv /\ DoingInv /\ WorkerInv /\ TimeInv

\* What a request brings is well formed, and so is what it changes.
LEMMA NewIsWellFormed ==
    ASSUME ContentInv, NEW u, NEW i \in Ids, NEW new \in NewContent(u, i)
    PROVE  LET row == Over(new, [there |-> "yes", owner |-> u, shared |-> FALSE]) IN
           "there" \in DOMAIN row /\ WellFormed(i, row)
<1> DEFINE row == Over(new, [there |-> "yes", owner |-> u, shared |-> FALSE])
<1>1. "there" \in DOMAIN row
  BY DEF Over
<1>2. CASE i \in Searches
  <2>1. i \notin Rules /\ NewContent(u, i) = NewSearches
    BY <1>2, AnalyticsAssumption DEF NewContent
  <2>2. PICK q \in Queries, p \in Presets : new = [query |-> q, preset |-> p]
    BY <2>1 DEF NewSearches
  <2> QED
    BY <1>1, <2>1, <2>2 DEF Over, WellFormed
<1>3. CASE i \in Rules
  <2>1. i \notin Searches /\ NewContent(u, i) = NewRules(u)
    BY <1>3, AnalyticsAssumption DEF NewContent
  <2>2. PICK s \in Searches, n \in Thresholds :
          new = [search |-> s, threshold |-> n, enabled |-> TRUE]
    BY <2>1 DEF NewRules
  <2> QED
    BY <1>1, <2>1, <2>2 DEF Over, WellFormed
<1> QED
  BY <1>1, <1>2, <1>3 DEF WellFormed

LEMMA ChangesRefit ==
    ASSUME NEW i \in Ids, NEW change \in Changes(i)
    PROVE  Refits(i, change)
<1>1. CASE \E b : change = [shared |-> b]
  BY <1>1 DEF Refits
<1>2. CASE i \in Searches /\ \E q \in Queries : change = [query |-> q]
  BY <1>2, AnalyticsAssumption DEF Refits
<1>3. CASE i \in Reports
  BY <1>3, AnalyticsAssumption DEF Refits
<1>4. CASE i \in Rules /\ \/ \E b : change = [enabled |-> b]
                          \/ \E n \in Thresholds : change = [threshold |-> n]
  BY <1>4, AnalyticsAssumption DEF Refits
<1>5. \/ \E b : change = [shared |-> b]
      \/ i \in Searches /\ \E q \in Queries : change = [query |-> q]
      \/ i \in Reports
      \/ i \in Rules /\ \/ \E b : change = [enabled |-> b]
                        \/ \E n \in Thresholds : change = [threshold |-> n]
  BY DEF Changes
<1> QED
  BY <1>1, <1>2, <1>3, <1>4, <1>5

\* A change of one entry leaves the others.
LEMMA ChangedStaysSound ==
    ASSUME NEW i, NEW row, Sound(i, row), row.there = "yes", NEW new, Refits(i, new)
    PROVE  Sound(i, Over(new, row))
  BY DEF Sound, Refits, WellFormed, Over

LEMMA StampedStaysSound ==
    ASSUME NEW i, NEW row, Sound(i, row), NEW time
    PROVE  Sound(i, [row EXCEPT !.there = "gone"]) /\ Sound(i, [row EXCEPT !.last = time])
<1>1. Sound(i, [row EXCEPT !.there = "gone"])
  BY DEF Sound
<1>2. Sound(i, [row EXCEPT !.last = time])
  BY DEF Sound, WellFormed
<1> QED
  BY <1>1, <1>2

\* A rule is weighed with a query that a search had.
LEMMA ReadRuleFits ==
    ASSUME AnalyticsInv, NEW a \in Users \cup {Worker}, NEW r \in Rules, ReadRule(a, r)
    PROVE  DoingInv'
<1>1. PICK task : Becomes(a, task) /\ Fits(task)
  <2>1. CASE There(r) /\ content[r].enabled /\ There(content[r].search)
    <3>1. r \in Ids /\ content[r].search \in Searches /\ content[r].threshold \in Nat
      BY <2>1, AnalyticsAssumption
         DEF AnalyticsInv, ContentInv, Sound, WellFormed, There, Ids
    <3>2. content[content[r].search].query \in Queries
      BY <2>1, <3>1 DEF AnalyticsInv, ContentInv, Sound, WellFormed, There, Ids
    <3>3. Fits([at |-> "weigh", rule |-> r, threshold |-> content[r].threshold,
                search |-> content[content[r].search]])
      BY <3>1, <3>2 DEF Fits
    <3> QED
      BY <2>1, <3>3 DEF ReadRule
  <2>2. CASE ~(There(r) /\ content[r].enabled /\ There(content[r].search))
    BY <2>2 DEF ReadRule, Fits, Idle
  <2> QED
    BY <2>1, <2>2
<1> QED
  BY <1>1 DEF AnalyticsInv, DoingInv, Becomes

LEMMA AnalyticsInit == Init => AnalyticsInv
<1> SUFFICES ASSUME Init PROVE AnalyticsInv
  OBVIOUS
<1>1. ContentInv
  <2>1. DOMAIN content = Ids
    BY AnalyticsAssumption DEF Init, Over
  <2>2. ASSUME NEW i \in Ids PROVE Sound(i, content[i])
    <3>1. CASE i \in DOMAIN Begun
      BY <3>1, AnalyticsAssumption DEF Init, Over, Sound
    <3>2. CASE i \notin DOMAIN Begun
      BY <3>2 DEF Init, Over, Sound, Absent
    <3> QED
      BY <3>1, <3>2
  <2> QED
    BY <2>1, <2>2 DEF ContentInv
<1>2. DoingInv
  BY DEF Init, DoingInv, Fits, Idle
<1>3. WorkerInv
  BY DEF Init, WorkerInv, Asleep
<1>4. TimeInv
  BY DEF Init, TimeInv
<1> QED
  BY <1>1, <1>2, <1>3, <1>4 DEF AnalyticsInv

\* Whoever takes up a task that fits leaves the others at theirs.
LEMMA TakesUp ==
    ASSUME DoingInv, NEW a \in Users \cup {Worker}, NEW task, Fits(task), Becomes(a, task)
    PROVE  DoingInv'
  BY DEF DoingInv, Becomes

LEMMA IdleFits == Fits(Idle)
  BY DEF Fits, Idle

\* The requests that read and check.
LEMMA AskKeepsInv ==
    ASSUME AnalyticsInv, NEW u \in Users,
           \/ \E i \in Ids : AskCreate(u, i) \/ AskChange(u, i) \/ AskDelete(u, i)
           \/ \E d \in Dashboards : \/ AskPanels(u, d)
                                    \/ \E c \in Dashboards : AskDuplicate(u, d, c)
           \/ \E j \in Jobs : AskCancel(u, j)
    PROVE  AnalyticsInv'
<1>1. UNCHANGED <<content, worker, stored, clock>>
  BY DEF AskCreate, AskChange, AskDelete, AskPanels, AskDuplicate, AskCancel, Quiet, JobSteps
<1>2. DoingInv'
  <2>1. ASSUME NEW i \in Ids, AskCreate(u, i) PROVE \E task : Fits(task) /\ Becomes(u, task)
    <3>1. PICK new \in NewContent(u, i) :
            Becomes(u, [at |-> "create", id |-> i,
                        with |-> Over(new, [there |-> "yes", owner |-> u, shared |-> FALSE])])
      BY <2>1 DEF AskCreate
    <3> DEFINE row == Over(new, [there |-> "yes", owner |-> u, shared |-> FALSE])
    <3>2. "there" \in DOMAIN row /\ WellFormed(i, row)
      BY NewIsWellFormed DEF AnalyticsInv
    <3> HIDE DEF row
    <3>3. Fits([at |-> "create", id |-> i, with |-> row])
      BY <3>2 DEF Fits
    <3> QED
      BY <3>1, <3>3 DEF row
  <2>2. ASSUME NEW i \in Ids, AskChange(u, i) PROVE \E task : Fits(task) /\ Becomes(u, task)
    <3>1. PICK change \in Changes(i) : Becomes(u, [at |-> "change", id |-> i, with |-> change])
      BY <2>2 DEF AskChange
    <3>2. Fits([at |-> "change", id |-> i, with |-> change])
      BY ChangesRefit DEF Fits
    <3> QED
      BY <3>1, <3>2
  <2>3. ASSUME NEW i \in Ids, AskDelete(u, i) PROVE \E task : Fits(task) /\ Becomes(u, task)
    <3>1. Fits([at |-> "delete", id |-> i])
      BY DEF Fits
    <3> QED
      BY <2>3, <3>1 DEF AskDelete
  <2>4. ASSUME NEW d \in Dashboards, AskPanels(u, d) PROVE \E task : Fits(task) /\ Becomes(u, task)
    <3>1. \A shown : Fits([at |-> "panels", id |-> d, show |-> shown])
      BY DEF Fits
    <3> QED
      BY <2>4, <3>1 DEF AskPanels
  <2>5. ASSUME NEW d \in Dashboards, NEW c \in Dashboards, AskDuplicate(u, d, c)
        PROVE  \E task : Fits(task) /\ Becomes(u, task)
    <3>1. Fits([at |-> "copy", id |-> c, show |-> panels[d]])
      BY DEF Fits
    <3> QED
      BY <2>5, <3>1 DEF AskDuplicate
  <2>6. ASSUME NEW j \in Jobs, AskCancel(u, j) PROVE \E task : Fits(task) /\ Becomes(u, task)
    <3>1. Fits([at |-> "cancel", job |-> j])
      BY DEF Fits
    <3> QED
      BY <2>6, <3>1 DEF AskCancel
  <2> QED
    BY <2>1, <2>2, <2>3, <2>4, <2>5, <2>6, TakesUp DEF AnalyticsInv
<1> QED
  BY <1>1, <1>2 DEF AnalyticsInv, ContentInv, WorkerInv, TimeInv

\* The requests that write.
LEMMA WriteKeepsInv ==
    ASSUME AnalyticsInv, NEW u \in Users, Write(u)
    PROVE  AnalyticsInv'
<1>1. WorkerInv' /\ TimeInv'
  BY DEF Write, CreateContent, ChangeContent, DeleteContent, WritePanels, WriteCopy, CancelJob,
         AnalyticsInv, WorkerInv, TimeInv
<1>2. DoingInv'
  <2>1. \/ Becomes(u, Idle)
        \/ doing[u].at = "copy" /\ Becomes(u, [doing[u] EXCEPT !.at = "panels"])
    BY DEF Write, CreateContent, ChangeContent, DeleteContent, WritePanels, WriteCopy, CancelJob
  <2>2. doing[u].at = "copy" => Fits([doing[u] EXCEPT !.at = "panels"])
    BY DEF Fits
  <2> QED
    BY <2>1, <2>2, IdleFits, TakesUp DEF AnalyticsInv
<1>3. ContentInv'
  <2>1. ContentInv /\ Fits(doing[u])
    BY DEF AnalyticsInv, DoingInv
  <2>2. CASE CreateContent(u)
    BY <2>1, <2>2 DEF CreateContent, ContentInv, Fits, Sound
  <2>3. CASE ChangeContent(u)
    <3>1. CASE ~(doing[u].id \in Ids /\ There(doing[u].id))
      BY <2>1, <2>3, <3>1 DEF ChangeContent, ContentInv
    <3>2. CASE doing[u].id \in Ids /\ There(doing[u].id)
      <4> DEFINE i == doing[u].id
      <4>1. Sound(i, Over(doing[u].with, content[i]))
        BY <2>1, <2>3, <3>2, ChangedStaysSound DEF ChangeContent, ContentInv, Fits, There
      <4>2. content' = [content EXCEPT ![i] = Over(doing[u].with, content[i])]
        BY <2>3, <3>2 DEF ChangeContent
      <4> QED
        BY <2>1, <4>1, <4>2 DEF ContentInv
    <3> QED
      BY <3>1, <3>2
  <2>4. CASE DeleteContent(u)
    <3> DEFINE i == doing[u].id
    <3>1. content' = [content EXCEPT ![i] = [content[i] EXCEPT !.there = "gone"]]
      BY <2>4 DEF DeleteContent
    <3>2. i \in Ids => Sound(i, [content[i] EXCEPT !.there = "gone"])
      BY <2>1, StampedStaysSound DEF ContentInv
    <3> QED
      BY <2>1, <3>1, <3>2 DEF ContentInv
  <2>5. CASE WritePanels(u) \/ CancelJob(u)
    BY <2>1, <2>5 DEF WritePanels, CancelJob, ContentInv
  <2>6. CASE WriteCopy(u)
    <3> DEFINE i == doing[u].id
               copy == [there |-> "yes", owner |-> u, shared |-> FALSE]
    <3>1. content' = [content EXCEPT ![i] = copy] /\ i \in Dashboards
      BY <2>1, <2>6 DEF WriteCopy, Fits
    <3>2. Sound(i, copy)
      BY <3>1, AnalyticsAssumption DEF Sound, WellFormed
    <3> QED
      BY <2>1, <3>1, <3>2 DEF ContentInv
  <2> QED
    BY <2>2, <2>3, <2>4, <2>5, <2>6 DEF Write
<1> QED
  BY <1>1, <1>2, <1>3 DEF AnalyticsInv

\* Rules and reports that are run, by a user or by the worker.
LEMMA RunKeepsInv ==
    ASSUME AnalyticsInv, NEW a \in Users \cup {Worker}, WeighRule(a) \/ FireRule(a) \/ RunReport(a)
    PROVE  AnalyticsInv'
<1>1. WorkerInv' /\ TimeInv'
  BY DEF WeighRule, FireRule, RunReport, Others, AnalyticsInv, WorkerInv, TimeInv
<1>2. DoingInv'
  <2>1. \A r : Fits([at |-> "fire", rule |-> r])
    BY DEF Fits
  <2>2. Becomes(a, Idle) \/ \E r : Becomes(a, [at |-> "fire", rule |-> r])
    BY DEF WeighRule, FireRule, RunReport
  <2> QED
    BY <2>1, <2>2, IdleFits, TakesUp DEF AnalyticsInv
<1>3. ContentInv'
  <2>1. CASE content' = content
    BY <2>1 DEF AnalyticsInv, ContentInv
  <2>2. CASE RunReport(a) /\ content' # content
    <3> DEFINE i == doing[a].id
    <3>1. content' = [content EXCEPT ![i] = [content[i] EXCEPT !.last = clock]]
      BY <2>2 DEF RunReport
    <3>2. i \in Ids => Sound(i, [content[i] EXCEPT !.last = clock])
      BY StampedStaysSound DEF AnalyticsInv, ContentInv
    <3> QED
      BY <3>1, <3>2 DEF AnalyticsInv, ContentInv
  <2> QED
    BY <2>1, <2>2 DEF WeighRule, FireRule, Others
<1> QED
  BY <1>1, <1>2, <1>3 DEF AnalyticsInv

LEMMA ReadReportFits ==
    ASSUME AnalyticsInv, NEW a \in Users \cup {Worker}, NEW u, NEW i, ReadReport(a, u, i)
    PROVE  DoingInv'
<1>1. Fits([at |-> "run", id |-> i])
  BY DEF Fits
<1> QED
  BY <1>1, IdleFits, TakesUp DEF ReadReport, AnalyticsInv

\* The worker goes through rules that were enabled and reports that were due.
LEMMA WorkKeepsInv ==
    ASSUME AnalyticsInv, Work
    PROVE  AnalyticsInv'
<1>1. CASE WakeUp \/ ListReports \/ FallAsleep
  BY <1>1 DEF WakeUp, ListReports, FallAsleep, Asleep, WorkerSteps, Others,
              AnalyticsInv, ContentInv, DoingInv, WorkerInv, TimeInv
<1>2. CASE NextRule
  <2>1. PICK r \in worker.todo : worker' = [worker EXCEPT !.todo = @ \ {r}] /\ ReadRule(Worker, r)
    BY <1>2 DEF NextRule
  <2>2. r \in Rules
    BY <1>2, <2>1 DEF NextRule, AnalyticsInv, WorkerInv
  <2>3. DoingInv'
    BY <2>1, <2>2, ReadRuleFits
  <2>4. WorkerInv'
    BY <2>1 DEF AnalyticsInv, WorkerInv
  <2> QED
    BY <1>2, <2>3, <2>4 DEF NextRule, WorkerSteps, Others, AnalyticsInv, ContentInv, TimeInv
<1>3. CASE NextReport
  <2>1. PICK i \in worker.todo : /\ worker' = [worker EXCEPT !.todo = @ \ {i}]
                                 /\ ReadReport(Worker, content[i].owner, i)
    BY <1>3 DEF NextReport
  <2>2. DoingInv'
    BY <2>1, ReadReportFits
  <2>3. WorkerInv'
    BY <1>3, <2>1 DEF NextReport, AnalyticsInv, WorkerInv
  <2> QED
    BY <1>3, <2>2, <2>3 DEF NextReport, WorkerSteps, Others, AnalyticsInv, ContentInv, TimeInv
<1> QED
  BY <1>1, <1>2, <1>3, RunKeepsInv DEF Work

LEMMA AnalyticsStep == AnalyticsInv /\ [Next]_vars => AnalyticsInv'
<1> SUFFICES ASSUME AnalyticsInv, [Next]_vars PROVE AnalyticsInv'
  OBVIOUS
<1>1. ASSUME NEW u \in Users,
             \/ JobRequest(u) \/ SearchRequest(u) \/ DashboardRequest(u)
             \/ ReportRequest(u) \/ RuleRequest(u)
      PROVE  AnalyticsInv'
  <2>1. CASE \/ \E i \in Ids : AskCreate(u, i) \/ AskChange(u, i) \/ AskDelete(u, i)
             \/ \E d \in Dashboards : \/ AskPanels(u, d)
                                      \/ \E c \in Dashboards : AskDuplicate(u, d, c)
             \/ \E j \in Jobs : AskCancel(u, j)
    BY <2>1, AskKeepsInv
  <2>2. CASE \E j \in Jobs : CreateJob(u, j)
    BY <2>2 DEF CreateJob, AnalyticsInv, ContentInv, DoingInv, WorkerInv, TimeInv
  <2>3. CASE \E r \in Rules : AskEvaluate(u, r)
    <3>1. DoingInv'
      BY <2>3, ReadRuleFits DEF AskEvaluate
    <3> QED
      BY <2>3, <3>1 DEF AskEvaluate, AnalyticsInv, ContentInv, WorkerInv, TimeInv
  <2>4. CASE \E i \in Reports : AskRun(u, i)
    <3>1. DoingInv'
      BY <2>4, ReadReportFits DEF AskRun
    <3> QED
      BY <2>4, <3>1 DEF AskRun, AnalyticsInv, ContentInv, WorkerInv, TimeInv
  <2> QED
    BY <1>1, <2>1, <2>2, <2>3, <2>4
       DEF JobRequest, SearchRequest, DashboardRequest, ReportRequest, RuleRequest, Asks, Ids
<1>2. CASE \E j \in Jobs : RunJob(j) \/ SettleJob(j)
  BY <1>2 DEF RunJob, SettleJob, JobSteps, AnalyticsInv, ContentInv, DoingInv, WorkerInv, TimeInv
<1>3. CASE Tick \/ \E r \in Rows : Store(r)
  BY <1>3 DEF Tick, Store, AnalyticsInv, ContentInv, DoingInv, WorkerInv, TimeInv
<1>4. CASE Restart
  BY <1>4, IdleFits DEF Restart, Asleep, AnalyticsInv, ContentInv, DoingInv, WorkerInv, TimeInv
<1>5. CASE UNCHANGED vars
  BY <1>5 DEF vars, AnalyticsInv, ContentInv, DoingInv, WorkerInv, TimeInv
<1> QED
  BY <1>1, <1>2, <1>3, <1>4, <1>5, WriteKeepsInv, RunKeepsInv, WorkKeepsInv DEF Next

LEMMA AnalyticsInvCorrect == Spec => []AnalyticsInv
  BY AnalyticsInit, AnalyticsStep, PTL DEF Spec

-----------------------------------------------------------------------------
(* Rules fire on matches *)

\* Where a query does work, it lists rows or counts them.  A sum may reach a
\* threshold in a single row.
EveryNumberIsACount == \A query \in Queries : Works(query) => OnlyCounts(query)

LEMMA TableIsFinite ==
    ASSUME AnalyticsInv
    PROVE  IsFiniteSet(Table) /\ \A row \in Table : row.time \in Nat
<1> DEFINE Stored == {r \in Rows : stored[r] > 0}
           row == [r \in Stored |-> [x \in DOMAIN r \cup {"time"} |->
                                       IF x = "time" THEN stored[r] ELSE r[x]]]
<1>1. \A r \in Stored : row[r].time \in Nat
  BY DEF AnalyticsInv, TimeInv
<1>2. Table = {row[r] : r \in Stored} /\ DOMAIN row = Stored
  BY DEF Table
<1>3. IsFiniteSet(Stored)
  <2>1. Stored \in SUBSET Rows
    OBVIOUS
  <2> HIDE DEF Stored
  <2> QED
    BY <2>1, FS_Subset, AnalyticsAssumption
<1> HIDE DEF Stored, row
<1> QED
  BY <1>1, <1>2, <1>3, ImageIsNoLarger

\* Only what weighs a rule fires it.
LEMMA OnlyWeighingFires ==
    ASSUME DoingInv, [Next]_vars, NEW a \in Users \cup {Worker}, Fires(a)
    PROVE  WeighRule(a)
<1>1. doing[a].at = "weigh" /\ doing'[a].at = "fire" /\ doing'[a] # doing[a]
  BY DEF Fires
<1>2. \A b \in Users \cup {Worker} : \A task : Becomes(b, task) => b = a /\ task = doing'[a]
  BY <1>1 DEF Becomes, DoingInv
<1>3. ASSUME NEW u \in Users,
             \/ JobRequest(u) \/ SearchRequest(u) \/ DashboardRequest(u)
             \/ ReportRequest(u) \/ RuleRequest(u)
      PROVE  FALSE
  BY <1>1, <1>2, <1>3
     DEF JobRequest, SearchRequest, DashboardRequest, ReportRequest, RuleRequest, Asks, Asking,
         CreateJob, AskCancel, AskCreate, AskChange, AskDelete, AskPanels, AskDuplicate,
         AskEvaluate, AskRun, Runs, ReadRule, ReadReport, Idle
<1>4. ASSUME NEW u \in Users, Write(u) PROVE FALSE
  BY <1>1, <1>2, <1>4 DEF Write, CreateContent, ChangeContent, DeleteContent, WritePanels,
                          WriteCopy, CancelJob, Idle
<1>5. ASSUME NEW b \in Users \cup {Worker}, FireRule(b) \/ RunReport(b) PROVE FALSE
  BY <1>1, <1>2, <1>5 DEF FireRule, RunReport, Idle
<1>6. ASSUME WakeUp \/ NextRule \/ ListReports \/ NextReport \/ FallAsleep PROVE FALSE
  BY <1>1, <1>2, <1>6 DEF WakeUp, NextRule, ListReports, NextReport, FallAsleep,
                          ReadRule, ReadReport, Idle
<1>7. ASSUME \/ \E j \in Jobs : RunJob(j) \/ SettleJob(j)
             \/ \E r \in Rows : Store(r)
             \/ Tick \/ Restart \/ UNCHANGED vars
      PROVE  FALSE
  BY <1>1, <1>7 DEF RunJob, SettleJob, Store, Tick, Restart, vars, DoingInv, Idle
<1>8. ASSUME NEW b \in Users \cup {Worker}, WeighRule(b) PROVE WeighRule(a)
  BY <1>2, <1>8 DEF WeighRule
<1> QED
  BY <1>3, <1>4, <1>5, <1>6, <1>7, <1>8 DEF Next, Work

LEMMA FiringStep ==
    ASSUME EveryNumberIsACount, AnalyticsInv, [Next]_vars, NEW a \in Users \cup {Worker},
           Fires(a), ~Counts(doing[a].search.query)
    PROVE  Cardinality(Matched(doing[a])) >= doing[a].threshold
<1> DEFINE query == doing[a].search.query
           since == clock - doing[a].search.preset
<1>1. WeighRule(a) /\ doing'[a].at = "fire"
  BY OnlyWeighingFires DEF AnalyticsInv, Fires
<1>2. query \in Queries /\ doing[a].threshold \in Nat
  BY <1>1 DEF WeighRule, AnalyticsInv, DoingInv, Fits
<1>3. Works(query) /\ Measure(Execute(query, Table, since)) >= doing[a].threshold
  BY <1>1 DEF WeighRule, Weighed, Result, Becomes, Idle, AnalyticsInv, DoingInv
<1>4. Matched(doing[a]) = Selected(Table, query, since)
  BY DEF Matched, Selected, Selects
<1>5. OnlyCounts(query)
  BY <1>2, <1>3 DEF EveryNumberIsACount
<1>6. IsFiniteSet(Table) /\ \A row \in Table : row.time \in Nat
  BY TableIsFinite
<1> HIDE DEF query, since
<1>7. /\ Cardinality(Selected(Table, query, since)) \in Nat
      /\ Measure(Execute(query, Table, since)) \in Nat
      /\ Measure(Execute(query, Table, since)) <= Cardinality(Selected(Table, query, since))
  BY <1>2, <1>5, <1>6, MeasuresAtMostTheMatches DEF query
<1> QED
  BY <1>2, <1>3, <1>4, <1>7

\* A rule whose search lists, groups or charts rows fires only when at least as
\* many rows match as its threshold says, whatever was changed or deleted since
\* the rule was read: no cap on rows, groups or buckets and no order of them
\* makes the number that is compared larger than the matches
\* (evaluate_alert_rule).
THEOREM RulesFireOnMatches == ASSUME EveryNumberIsACount PROVE Spec => FiresOnMatches
<1>1. AnalyticsInv /\ [Next]_vars
        => [\A a \in DOMAIN doing : Fires(a) /\ ~Counts(doing[a].search.query)
              => Cardinality(Matched(doing[a])) >= doing[a].threshold]_vars
  BY FiringStep DEF AnalyticsInv, DoingInv
<1> QED
  BY <1>1, AnalyticsInvCorrect, PTL DEF Spec, FiresOnMatches

-----------------------------------------------------------------------------
(* Search jobs *)

JobInv == DOMAIN job = Jobs

LEMMA JobStep ==
    ASSUME JobInv, [Next]_vars
    PROVE  /\ JobInv'
           /\ \A j \in Jobs : job[j].status = "CANCELLED" => job'[j].status = "CANCELLED"
<1>1. CASE \E u \in Users, j \in Jobs : CreateJob(u, j)
  BY <1>1 DEF CreateJob, JobInv
<1>2. CASE \E j \in Jobs : SettleJob(j)
  BY <1>2 DEF SettleJob, StillRunning, JobInv
<1>3. CASE \E u \in Users : CancelJob(u)
  BY <1>3 DEF CancelJob, JobInv
<1>4. CASE job' = job
  BY <1>4 DEF JobInv
<1>5. ASSUME NEW u \in Users,
             \/ JobRequest(u) \/ SearchRequest(u) \/ DashboardRequest(u)
             \/ ReportRequest(u) \/ RuleRequest(u)
      PROVE  job' = job \/ \E j \in Jobs : CreateJob(u, j)
  BY <1>5 DEF JobRequest, SearchRequest, DashboardRequest, ReportRequest, RuleRequest, Asks,
              AskCancel, AskCreate, AskChange, AskDelete, AskPanels, AskDuplicate,
              AskEvaluate, AskRun, Quiet, JobSteps
<1>6. ASSUME NEW u \in Users, Write(u)
      PROVE  job' = job \/ CancelJob(u)
  BY <1>6 DEF Write, CreateContent, ChangeContent, DeleteContent, WritePanels, WriteCopy
<1>7. ASSUME NEW a \in Users \cup {Worker}, WeighRule(a) \/ FireRule(a) \/ RunReport(a)
      PROVE  job' = job
  BY <1>7 DEF WeighRule, FireRule, RunReport, Others
<1>8. ASSUME WakeUp \/ NextRule \/ ListReports \/ NextReport \/ FallAsleep
      PROVE  job' = job
  BY <1>8 DEF WakeUp, NextRule, ListReports, NextReport, FallAsleep, WorkerSteps, Others
<1>9. ASSUME \/ \E j \in Jobs : RunJob(j)
             \/ \E r \in Rows : Store(r)
             \/ Tick \/ Restart \/ UNCHANGED vars
      PROVE  job' = job
  BY <1>9 DEF RunJob, Store, Tick, Restart, vars
<1> QED
  BY <1>1, <1>2, <1>3, <1>4, <1>5, <1>6, <1>7, <1>8, <1>9 DEF Next, Work

\* A search that was cancelled stays cancelled: neither the task that finishes
\* after the cancellation, nor one that looked at the status before it, writes
\* what it found (_run_job), and no restart brings it back.
THEOREM CancelledForGood == Spec => CancelledStays
<1>1. Init => JobInv
  BY DEF Init, JobInv
<1>2. JobInv /\ [Next]_vars
        => /\ JobInv'
           /\ [\A j \in Jobs : job[j].status = "CANCELLED" => job'[j].status = "CANCELLED"]_vars
  BY JobStep
<1> QED
  BY <1>1, <1>2, PTL DEF Spec, CancelledStays
=============================================================================
