------------------------------ MODULE Reports -------------------------------
(***************************************************************************)
(* The dashboard's figures: every ranged query of server/store/queries.ts, *)
(* over the two tables it reads, and rollupParams of server/store/write.ts,*)
(* which books a record into the second of them.                           *)
(*                                                                         *)
(* A row of `requests` is a record of fields; the six token counters are   *)
(* one, `tokens`, and a tag set is the value of one key.  NULL stands for  *)
(* a column without a value and All for the '' of a rollup dimension.  A   *)
(* cube is a function from cells to figures.  Time is in ticks, Hour to    *)
(* the hour.  Percentages are pairs <<numerator, denominator>>.            *)
(***************************************************************************)
EXTENDS Integers, FiniteSets, FiniteSetsExt, Sequences, SequencesExt

CONSTANTS
    Hour,         \* HOUR_MS
    LatUpper,     \* the upper edges of the latency buckets; the last bucket has none
    DefaultLimit, \* DEFAULT_LIMIT
    MaxLimit,     \* MAX_LIMIT
    NULL,
    All

ASSUME HourPositive == Hour \in Nat \ {0}
\* LAT_LOWER and LAT_UPPER
ASSUME EdgesAscend ==
    /\ LatUpper \in Seq(Nat)
    /\ \A i, j \in 1..Len(LatUpper) : i < j => LatUpper[i] < LatUpper[j]

RawWindow == 2 * Hour
HourFloor(t) == (t \div Hour) * Hour

-----------------------------------------------------------------------------
(* figures *)

Buckets == 1..(Len(LatUpper) + 1)
Fields == {"requests", "errors", "tokens", "priced", "unpriced", "subscription",
           "notional", "notionalUnpriced"}
Bit(b) == IF b THEN 1 ELSE 0
Known(x) == IF x = NULL THEN 0 ELSE x

\* One row's share of RAW_AGG: SUM skips what is NULL, and a count says so.
RawShare(r) ==
    [requests |-> 1, errors |-> Bit(r.failed), tokens |-> r.tokens,
     priced |-> IF r.basis = "subscription" THEN 0 ELSE Known(r.cost),
     unpriced |-> Bit(r.cost = NULL /\ r.basis # "subscription"),
     subscription |-> Bit(r.basis = "subscription"),
     notional |-> Known(r.notional),
     notionalUnpriced |-> Bit(r.notional = NULL)]

\* bucketOf here and latencyBucket of write.ts.
BucketOf(d) == CHOOSE b \in Buckets :
    /\ b = Len(LatUpper) + 1 \/ d < LatUpper[b]
    /\ \A lower \in 1..(b - 1) : d >= LatUpper[lower]

\* rollupParams' figures.  The cost of a subscription row is booked when it has
\* one; the meter writes none.
Booked(r) ==
    [requests |-> 1, errors |-> Bit(r.failed), tokens |-> r.tokens,
     priced |-> Known(r.cost),
     unpriced |-> Bit(r.cost = NULL /\ r.basis # "subscription"),
     subscription |-> Bit(r.basis = "subscription"),
     notional |-> Known(r.notional),
     notionalUnpriced |-> Bit(r.notional = NULL)]

LatOf(r) == [b \in Buckets |-> Bit(b = BucketOf(r.duration))]

\* The sums of what every row or cell of a report contributes.
Figures(share) == [f \in Fields |-> SumFunction([x \in DOMAIN share |-> share[x][f]])]
Histogram(lat) == [b \in Buckets |-> SumFunction([x \in DOMAIN lat |-> lat[x][b]])]

-----------------------------------------------------------------------------
(* the cube *)

OrAll(x) == IF x = NULL THEN All ELSE x

Cell(r, u, m) == [hour |-> HourFloor(r.at), user |-> u, model |-> m, origin |-> r.origin,
                  basis |-> r.basis, tag |-> OrAll(r.tag)]

\* The four keys of a record, which are fewer when a dimension has no value.
CellsOf(r) == {Cell(r, u, m) : u \in {OrAll(r.user), All}, m \in {OrAll(r.model), All}}

EmptyCell == [share |-> [f \in Fields |-> 0], lat |-> [b \in Buckets |-> 0]]

\* bug: the upsert runs for each of the four keys.
BookFour(cube, r) ==
    LET times(c) == Cardinality({k \in {1, 2} \X {1, 2} :
                        c = Cell(r, <<OrAll(r.user), All>>[k[1]], <<OrAll(r.model), All>>[k[2]])})
        old(c) == IF c \in DOMAIN cube THEN cube[c] ELSE EmptyCell
    IN  [c \in DOMAIN cube \cup CellsOf(r) |->
            [share |-> [f \in Fields |-> old(c).share[f] + times(c) * Booked(r)[f]],
             lat |-> [b \in Buckets |-> old(c).lat[b] + times(c) * LatOf(r)[b]]]]

\* UPSERT_ROLLUP
Book(cube, r) ==
    LET old(c) == IF c \in DOMAIN cube THEN cube[c] ELSE EmptyCell
        new == CellsOf(r)
    IN  [c \in DOMAIN cube \cup new |->
            IF c \notin new THEN cube[c]
            ELSE [share |-> [f \in Fields |-> old(c).share[f] + Booked(r)[f]],
                  lat |-> [b \in Buckets |-> old(c).lat[b] + LatOf(r)[b]]]]

-----------------------------------------------------------------------------
(* what a query sees: scope, source and range *)

\* Scopes are [user |-> NULL] for an admin, [user |-> id] for a member, which
\* refuses rows without a user.
InScope(scope, user) == scope.user = NULL \/ user = scope.user

\* chooseSource
ReadsRows(range) == range.to - range.from <= RawWindow

TagMatches(range, tag) == range.tag = NULL \/ tag = range.tag

\* scopeClause and rawRange
RowsIn(db, scope, range) ==
    {r \in db.rows : /\ InScope(scope, r.user) /\ TagMatches(range, r.tag)
                     /\ range.from <= r.at /\ r.at < range.to}

\* rollupRange: a bucket of an hour is indivisible.
HoursOf(range, hour) == HourFloor(range.from) <= hour /\ hour < range.to

\* rollupSlice: the grain decides which of the cells a record is in are read.
CellsIn(db, scope, range, byUser, byModel) ==
    {c \in DOMAIN db.cube :
        /\ IF scope.user # NULL THEN c.user = scope.user
           ELSE IF byUser THEN c.user # All ELSE c.user = All
        /\ IF byModel THEN c.model # All ELSE c.model = All
        /\ HoursOf(range, c.hour) /\ TagMatches(range, c.tag)}

OfRows(S) == Figures([r \in S |-> RawShare(r)])
OfCells(db, C) == Figures([c \in C |-> db.cube[c].share])

\* The group of a row by a dimension; a cell has it as a field.
GroupOf(r, by) == IF by = "hour" THEN HourFloor(r.at) ELSE OrAll(r[by])

\* aggregateQuery: one report, grouped, over either source.
Grouped(db, scope, range, by) ==
    IF ReadsRows(range)
    THEN LET S == RowsIn(db, scope, range)
         IN  [g \in {GroupOf(r, by) : r \in S} |-> OfRows({r \in S : GroupOf(r, by) = g})]
    ELSE LET C == CellsIn(db, scope, range, by = "user", by = "model")
         IN  [g \in {c[by] : c \in C} |-> OfCells(db, {c \in C : c[by] = g})]

UsageTotals(db, scope, range) ==
    IF ReadsRows(range) THEN OfRows(RowsIn(db, scope, range))
    ELSE OfCells(db, CellsIn(db, scope, range, FALSE, FALSE))

\* subtractTotals.  Money is clamped at zero.
Minus(total, rows) ==
    [f \in Fields |->
        LET d == total[f] - SumFunction([g \in DOMAIN rows |-> rows[g][f]])
        IN  IF f \in {"priced", "notional"} /\ d < 0 THEN 0 ELSE d]

\* What no cell is attributed to shows as All, when there is any.
WithResidual(total, rows) ==
    LET residual == Minus(total, rows)
    IN  IF residual.requests > 0
        THEN [g \in DOMAIN rows \cup {All} |-> IF g = All THEN residual ELSE rows[g]]
        ELSE rows

UsageByUser(db, scope, range) ==
    LET rows == Grouped(db, scope, range, "user")
    IN  IF ReadsRows(range) THEN rows ELSE WithResidual(UsageTotals(db, scope, range), rows)

UsageByModel(db, scope, range) ==
    LET rows == Grouped(db, scope, range, "model")
    IN  IF ReadsRows(range) THEN rows ELSE WithResidual(UsageTotals(db, scope, range), rows)

\* The distinct users of an origin, which the total's grain has lost.
DistinctUsers(db, scope, range, origin) ==
    IF ReadsRows(range)
    THEN {r.user : r \in {s \in RowsIn(db, scope, range) : s.origin = origin}} \ {NULL}
    ELSE {c.user : c \in {d \in CellsIn(db, scope, range, TRUE, FALSE) : d.origin = origin}}

UsageByOrigin(db, scope, range) ==
    LET rows == Grouped(db, scope, range, "origin")
    IN  [o \in DOMAIN rows |->
            [totals |-> rows[o], people |-> Cardinality(DistinctUsers(db, scope, range, o))]]

\* Rows only, at every range.
UsageByClient(db, scope, range) ==
    LET S == RowsIn(db, scope, range)
    IN  [c \in {OrAll(r.client) : r \in S} |->
            OfRows({r \in S : OrAll(r.client) = c})]

UsageByTag(db, scope, range) == Grouped(db, scope, range, "tag")

\* The picker goes on offering the values that are filtered out.
TagValues(db, scope, range) ==
    LET rows == UsageByTag(db, scope, [range EXCEPT !.tag = NULL])
    IN  [v \in DOMAIN rows \ {All} |-> rows[v].requests]

UsageSeries(db, scope, range) == Grouped(db, scope, range, "hour")

ErrorBreakdown(db, scope, range) ==
    LET S == {r \in RowsIn(db, scope, range) : r.failed}
    IN  [e \in {r.error : r \in S} |-> Cardinality({r \in S : r.error = e})]

-----------------------------------------------------------------------------
(* latency *)

LatLower(b) == IF b = 1 THEN 0 ELSE LatUpper[b - 1]

\* exactPercentile: the nearest rank of a sorted list, which fewer than the
\* rank are below and no fewer are at or below.
Rank(p, n) == Max({1, Min({(p[1] * n + p[2] - 1) \div p[2], n})})
AtRank(S, k) == CHOOSE d \in {r.duration : r \in S} :
    /\ Cardinality({r \in S : r.duration < d}) < k
    /\ k <= Cardinality({r \in S : r.duration <= d})
ExactPercentile(S, p) == IF S = {} THEN NULL ELSE AtRank(S, Rank(p, Cardinality(S)))

\* The bucket is the first whose cumulated count reaches the target.
Lands(lat, p, b) ==
    LET upto(c) == SumFunctionOnSet(lat, 1..c)
    IN  /\ lat[b] > 0
        /\ p[2] * upto(b) >= p[1] * upto(Len(LatUpper) + 1)
        /\ p[2] * upto(b - 1) < p[1] * upto(Len(LatUpper) + 1)

\* interpolatePercentile, rounded down; the last bucket gives its lower edge.
InterpolatePercentile(lat, p) ==
    LET total == SumFunction(lat)
        b == CHOOSE c \in Buckets : Lands(lat, p, c)
        before == SumFunctionOnSet(lat, 1..(b - 1))
    IN  IF total = 0 THEN NULL
        ELSE IF b = Len(LatUpper) + 1 THEN LatLower(b)
        ELSE LatLower(b) + ((p[1] * total - p[2] * before) * (LatUpper[b] - LatLower(b)))
                              \div (p[2] * lat[b])

LatencySummary(db, scope, range) ==
    IF ReadsRows(range)
    THEN LET S == RowsIn(db, scope, range)
         IN  [count |-> Cardinality(S), lat |-> Histogram([r \in S |-> LatOf(r)]),
              p50 |-> ExactPercentile(S, <<1, 2>>), p95 |-> ExactPercentile(S, <<19, 20>>)]
    ELSE LET C == CellsIn(db, scope, range, FALSE, FALSE)
             lat == Histogram([c \in C |-> db.cube[c].lat])
         IN  [count |-> OfCells(db, C).requests, lat |-> lat,
              p50 |-> InterpolatePercentile(lat, <<1, 2>>),
              p95 |-> InterpolatePercentile(lat, <<19, 20>>)]

-----------------------------------------------------------------------------
(* quota and the list *)

\* The latest row of a user that carried the headers, ties by seq.
LatestQuota(db, scope) ==
    LET S == {r \in db.rows : InScope(scope, r.user) /\ r.quota # NULL}
        Newer(r, s) == r.at > s.at \/ (r.at = s.at /\ r.seq > s.seq)
    IN  {r \in S : \A s \in S : s.user = r.user /\ s # r => Newer(r, s)}

ClampLimit(n) == IF n <= 0 THEN DefaultLimit ELSE Min({n, MaxLimit})

Matches(r, filter) == filter = "errors" => r.failed

Descending(S) == CHOOSE q \in [1..Cardinality(S) -> S] :
    \A i, j \in 1..Cardinality(S) : i < j => q[i] > q[j]

\* feedSql: a page below the cursor, newest first.  Cursor 0 is none.
Page(db, scope, cursor, limit, filter) ==
    LET S == {r.seq : r \in {s \in db.rows : /\ InScope(scope, s.user) /\ Matches(s, filter)
                                             /\ cursor <= 0 \/ s.seq < cursor}}
    IN  SubSeq(Descending(S), 1, Min({limit, Cardinality(S)}))

\* listRequests: a short page is the last one.
NextCursor(page, limit) == IF Len(page) = limit THEN page[Len(page)] ELSE NULL

\* parseRange: to and from are NULL when the query has none, or not a number.
ParseRange(from, to, tag, now, defaultRange, maxRange) ==
    LET t == IF to = NULL THEN now ELSE to
        f == Max({IF from = NULL THEN t - defaultRange ELSE from, t - maxRange})
    IN  [from |-> Min({f, t}), to |-> t, tag |-> tag]
=============================================================================
