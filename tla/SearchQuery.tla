----------------------------- MODULE SearchQuery -----------------------------
(***************************************************************************)
(* The query language of the analyst's workspace (search_lang.py): which   *)
(* queries are accepted, which rows they select and what comes back.       *)
(*                                                                         *)
(* A query is the name of a dataset and a sequence of stages, as the text  *)
(* between its pipes.  A row is its dataset, its time and its values:      *)
(* numbers, None, or a set of numbers for the columns that hold a list.    *)
(***************************************************************************)
EXTENDS Integers, FiniteSets, FiniteSetsExt, Sequences

CONSTANTS
    DATASETS,     \* the fields of every dataset, [names -> sets of fields]
    ListFields,   \* fields that hold a list: source and entity of situations
    TextFields,   \* fields whose values are no numbers
    Contains,     \* pairs <<v, w>>: the text of v contains the text of w
    MAX_HEAD,     \* most rows that come back
    DefaultHead,  \* and as many as come back unasked
    Span          \* the length of a bucket, by name

ASSUME SearchQueryAssumption ==
    {MAX_HEAD, DefaultHead} \subseteq Nat \ {0} /\ DefaultHead <= MAX_HEAD

None == -1
Few(n, limit) == IF n <= limit THEN n ELSE limit

-----------------------------------------------------------------------------
(* Stages.  One that no pattern recognises is [stage |-> "other"].         *)

Where(clauses) == [stage |-> "where", clauses |-> clauses]
Is(field, op, value) == [field |-> field, op |-> op, value |-> value]
Stats(agg, field, by) == [stage |-> "stats", agg |-> agg, field |-> field, by |-> by]
Timechart(span, agg, field) == [stage |-> "timechart", span |-> span, agg |-> agg, field |-> field]
SortBy(field, direction) == [stage |-> "sort", field |-> field, direction |-> direction]
FieldList(names) == [stage |-> "fields", names |-> names]
TheFirst(n) == [stage |-> "head", n |-> n]
Unspecified == "no field"

Aggregates == {"stats", "timechart"}
\* After an aggregation a sort may name what it computes.
Computed == {"count", "value", "_time"}
Acceptable(stage, allowed) ==
    CASE stage.stage = "where" -> \A c \in stage.clauses : c.field \in allowed
      [] stage.stage = "stats" -> {stage.field, stage.by} \subseteq allowed \cup {Unspecified}
      [] stage.stage = "timechart" -> stage.span \in DOMAIN Span /\ stage.field \in allowed \cup {Unspecified}
      [] stage.stage = "sort" -> stage.field \in allowed \cup Computed
      [] stage.stage = "fields" -> stage.names \subseteq allowed
      [] stage.stage = "head" -> stage.n >= 1
      [] OTHER -> FALSE

StagesOf(query, kinds) == {i \in DOMAIN query.stages : query.stages[i].stage \in kinds}
\* parse_query refuses every other text.
Accepted(query) ==
    /\ query.dataset \in DOMAIN DATASETS
    /\ \A i \in DOMAIN query.stages : Acceptable(query.stages[i], DATASETS[query.dataset])
    /\ Cardinality(StagesOf(query, Aggregates)) <= 1

\* Of several stages of a kind the last one counts, but where clauses add up.
Latest(query, kinds) ==
    {query.stages[i] : i \in {j \in StagesOf(query, kinds) : \A k \in StagesOf(query, kinds) : k <= j}}
Clauses(query) == UNION {query.stages[i].clauses : i \in StagesOf(query, {"where"})}
Limit(query) == IF Latest(query, {"head"}) = {} THEN DefaultHead
                ELSE Few((CHOOSE h \in Latest(query, {"head"}) : TRUE).n, MAX_HEAD)

-----------------------------------------------------------------------------
(* Rows: all clauses hold, and a comparison with NULL never does           *)

Inside(value, word) == \E v \in value : <<v, word>> \in Contains
ListHolds(value, op, word) ==
    CASE op \in {"=", "like"} -> Inside(value, word)
      [] op = "in" -> word = {} \/ \E w \in word : Inside(value, w)
      [] op = "!=" -> ~Inside(value, word)
      [] OTHER -> FALSE
ScalarHolds(value, op, word) ==
    /\ value # None
    /\ CASE op = "=" -> value = word [] op = "!=" -> value # word
         [] op = ">" -> value > word [] op = ">=" -> value >= word
         [] op = "<" -> value < word [] op = "<=" -> value <= word
         [] op = "like" -> <<value, word>> \in Contains
         [] op = "in" -> value \in word
Holds(row, clause) ==
    IF clause.field \in ListFields THEN ListHolds(row[clause.field], clause.op, clause.value)
    ELSE ScalarHolds(row[clause.field], clause.op, clause.value)
Selects(row, query) == \A c \in Clauses(query) : Holds(row, c)
\* (mutant: the window is not looked at)
SelectedEver(rows, query, since) ==
    {r \in rows : r.dataset = query.dataset /\ Selects(r, query)}
Selected(rows, query, since) ==
    {r \in rows : r.dataset = query.dataset /\ r.time >= since /\ Selects(r, query)}

-----------------------------------------------------------------------------
(* Aggregation.  A number is a fraction; NULL is one without denominator.  *)

Null == [num |-> 0, den |-> 0]
Less(a, b) == IF a.den = 0 THEN b.den # 0 ELSE b.den # 0 /\ a.num * b.den < b.num * a.den
\* What the rows of a group give: value[r] for each row r.
Aggregate(agg, value) ==
    LET rows == DOMAIN value
        sum == SumFunction(value)
    IN CASE agg = "count" -> [num |-> Cardinality(rows), den |-> 1]
         [] agg = "sum" -> [num |-> sum, den |-> 1]
         [] agg = "avg" -> [num |-> sum, den |-> Cardinality(rows)]
         [] agg = "min" -> [num |-> Min({value[r] : r \in rows}), den |-> 1]
         [] agg = "max" -> [num |-> Max({value[r] : r \in rows}), den |-> 1]

\* The database leaves NULLs out of all but a count, and adds text up to 0.
StatsNumber(stage, rows) ==
    LET known == IF stage.agg = "count" THEN rows ELSE {r \in rows : r[stage.field] # None}
        value == [r \in known |-> IF stage.agg = "count" \/ stage.field \in TextFields THEN 0
                                   ELSE r[stage.field]]
    IN IF stage.agg # "count" /\ known = {} THEN Null ELSE Aggregate(stage.agg, value)

\* A timechart counts a row without a value as 1, and text as 0.
ChartNumber(stage, rows) ==
    Aggregate(stage.agg, [r \in rows |->
        IF stage.field = Unspecified THEN 1
        ELSE IF r[stage.field] = None THEN 1
        ELSE IF stage.field \in TextFields THEN 0 ELSE r[stage.field]])

\* Groups are ordered by their number unless the sort names their key.
FirstGroup(stage, query, rows) ==
    LET groups == {r[stage.by] : r \in rows}
        Number(g) == StatsNumber(stage, {r \in rows : r[stage.by] = g})
        sort == Latest(query, {"sort"})
        rising == \E s \in sort : s.direction = "asc"
        byKey == \E s \in sort : s.field = stage.by
        Before(g, h) == IF byKey THEN IF rising THEN g < h ELSE h < g
                        ELSE IF rising THEN Less(Number(g), Number(h)) ELSE Less(Number(h), Number(g))
    IN Number(CHOOSE g \in groups : \A h \in groups : ~Before(h, g))

\* The oldest rows are pulled and put in buckets; of those the last are kept.
Pulled(rows) ==
    CHOOSE p \in SUBSET rows :
      /\ Cardinality(p) = Few(Cardinality(rows), 4 * MAX_HEAD)
      /\ \A r \in p, q \in rows \ p : r.time <= q.time
Bucket(stage, row) == row.time \div Span[stage.span]
Kept(stage, query, rows) ==
    LET buckets == {Bucket(stage, r) : r \in rows}
    IN {b \in buckets : Cardinality({c \in buckets : c > b}) < Limit(query)}

-----------------------------------------------------------------------------
(* Results                                                                 *)

\* An accepted query may still fail when it is executed.
Executes(query) ==
    /\ \A c \in Clauses(query) : c.field \in ListFields => c.op \in {"=", "!=", "like", "in"}
    /\ \A a \in Latest(query, {"stats"}) : a.field = Unspecified => a.agg = "count"

Events(n) == [kind |-> "events", rows |-> n, first |-> Null, text |-> FALSE]
Numbers(n, first, text) == [kind |-> "aggregation", rows |-> n, first |-> first, text |-> text]
ExecuteStats(stage, query, rows) ==
    LET first == IF stage.by = Unspecified THEN StatsNumber(stage, rows)
                 ELSE IF rows = {} THEN Null ELSE FirstGroup(stage, query, rows)
        groups == IF stage.by = Unspecified THEN 1
                  ELSE Few(Cardinality({r[stage.by] : r \in rows}), Limit(query))
    IN Numbers(groups, first, /\ stage.agg \in {"min", "max"} /\ stage.field \in TextFields
                              /\ first # Null)
ExecuteChart(stage, query, rows) ==
    LET pulled == Pulled(rows)
        kept == Kept(stage, query, pulled)
        oldest == {r \in pulled : kept # {} /\ Bucket(stage, r) = Min(kept)}
    IN Numbers(Cardinality(kept), IF kept = {} THEN Null ELSE ChartNumber(stage, oldest), FALSE)
\* execute_query: how many rows come back, and the number in the first of them.
Execute(query, rows, since) ==
    LET selected == Selected(rows, query, since) IN
    IF Latest(query, Aggregates) = {} THEN Events(Few(Cardinality(selected), Limit(query)))
    ELSE LET stage == CHOOSE s \in Latest(query, Aggregates) : TRUE IN
         IF stage.stage = "stats" THEN ExecuteStats(stage, query, selected)
         ELSE ExecuteChart(stage, query, selected)

\* What an alert rule compares with its threshold: the rows, or the number in the
\* first row if there is one and it is not zero.  Text is not a number to it.
Measures(result) == ~result.text
Measure(result) ==
    IF result.kind = "aggregation" /\ result.rows > 0 /\ result.first.num # 0
    THEN result.first.num \div result.first.den
    ELSE result.rows
=============================================================================
