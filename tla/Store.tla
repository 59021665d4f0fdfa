------------------------------- MODULE Store --------------------------------
(***************************************************************************)
(* What the database holds over time, and what the dashboard's pages show  *)
(* of it while it changes: the metering writer adds rows and books them    *)
(* into the cube, retention (store/retention.ts) deletes both in bounded   *)
(* batches, a reader pages through /api/requests, and the live page        *)
(* (web pages/Live.tsx, hooks/useLiveWindow.ts, lib/sse.ts) joins what the *)
(* server pushes (ingest/live-bus.ts, api/live.ts) with what it fetched.   *)
(*                                                                         *)
(* Every statement is atomic; rows are committed by another process when   *)
(* the server is clustered, so anything may be committed between two       *)
(* statements of a page, and a row reaches the live feed some time after   *)
(* it is committed.  One page is opened: pages read and do not disturb     *)
(* one another.                                                            *)
(*                                                                         *)
(* `history` and `cut` are history: every row ever stored, and up to where *)
(* retention has begun to delete rows and cells.                           *)
(***************************************************************************)
EXTENDS Reports

CONSTANTS
    Kinds,       \* what a record says, apart from its order and time
    PagedKinds,  \* bound: those of the behaviours in which a page is opened
    RequestKeep, \* requestDays
    RollupKeep,  \* rollupDays
    BatchSize,   \* batchSize
    Window,      \* the live page's window
    Ranges,      \* what a report is asked for
    Scopes,
    MaxRecords,  \* bound: records
    MaxClock,    \* bound: ticks
    PagedClock   \* bound: ticks of the behaviours in which a page is opened

\* A request is over long before its row is old enough to be deleted.
ASSUME StoreAssumption ==
    /\ {RequestKeep, RollupKeep, Window} \subseteq Nat
    /\ {BatchSize, DefaultLimit, MaxLimit} \subseteq Nat \ {0}
    /\ NULL \notin Nat
    /\ \A k \in Kinds \cup PagedKinds : k.ago \in 0..RequestKeep

\* The columns of 001-init.sql, with money and time in whole units.  No person
\* and no tag is named as the cube names the total, and what a subscription
\* absorbs is given no price (usage/prices.ts).
ASSUME KindAssumption ==
    \A k \in Kinds \cup PagedKinds :
        /\ k.user # All /\ k.tag # All /\ k.origin # NULL
        /\ k.tokens \in Nat /\ k.duration \in Nat /\ k.failed \in BOOLEAN
        /\ {k.cost, k.notional} \subseteq Nat \cup {NULL}
        /\ k.basis = "subscription" => k.cost = NULL

\* A scope is an admin's or that of a person; a range is what parseRange makes
\* of a query string.
ASSUME ReportAssumption ==
    /\ NULL # All
    /\ \A scope \in Scopes : scope.user # All
    /\ Ranges \subseteq [from : Int, to : Int, tag : {range.tag : range \in Ranges} \ {All}]

VARIABLES
    clock, rows, cube, history,
    sweep, \* the running retention sweep
    cut,
    view   \* the open page; NoPage when none will ever be opened

dbVars == <<rows, cube, history>>
storeVars == <<clock, dbVars, sweep, cut, view>>

db == [rows |-> rows, cube |-> cube]
Idle == [at |-> "idle"]
NoView == [is |-> "none"]
NoPage == [is |-> "never"]

StoreInit ==
    /\ clock = 0
    /\ rows = {} /\ history = {}
    /\ cube = <<>>
    /\ sweep = Idle
    /\ cut = [rows |-> 0, cells |-> 0]
    /\ view \in {NoView, NoPage}

-----------------------------------------------------------------------------
(* writing and deleting *)

\* The row of a record.
Row(k, seq, at) ==
    [seq |-> seq, at |-> at, user |-> k.user, model |-> k.model, origin |-> k.origin,
     basis |-> k.basis, cost |-> k.cost, notional |-> k.notional, tokens |-> k.tokens,
     failed |-> k.failed, error |-> k.error, tag |-> k.tag, client |-> k.client,
     duration |-> k.duration, quota |-> k.quota]

\* A batch of one record, which began `ago` before.  The live feed hears of it
\* later.
Commit(k) ==
    /\ Cardinality(history) < MaxRecords /\ k.ago <= clock
    /\ LET seq == Cardinality(history) + 1
           row == Row(k, seq, clock - k.ago)
       IN  /\ rows' = rows \cup {row}
           /\ history' = history \cup {row}
           /\ cube' = Book(cube, row)
           /\ view' = IF view.is = "live" THEN [view EXCEPT !.due = @ \cup {seq}] ELSE view
    /\ UNCHANGED <<clock, sweep, cut>>

Tick ==
    /\ clock < (IF view = NoPage THEN MaxClock ELSE PagedClock)
    /\ clock' = clock + 1
    /\ UNCHANGED <<dbVars, sweep, cut, view>>

\* The cut-offs are computed once.
StartSweep ==
    /\ sweep = Idle /\ clock > RequestKeep
    /\ sweep' = [at |-> "rows", rows |-> clock - RequestKeep, cells |-> clock - RollupKeep]
    /\ UNCHANGED <<clock, dbVars, cut, view>>

\* The oldest of what is past the cut-off, in one transaction.
Batch ==
    LET old == {r \in rows : r.at < sweep.rows}
    IN  {r \in old : Cardinality({s \in old : s.seq < r.seq}) < BatchSize}
Short(batch) == Cardinality(batch) < BatchSize

\* Kept where reports are looked at, so that it distinguishes no other states.
Cut(what, at) == IF view = NoPage THEN [cut EXCEPT ![what] = Max({@, at})] ELSE cut

SweepRows ==
    /\ sweep.at = "rows"
    /\ rows' = rows \ Batch
    /\ cut' = Cut("rows", sweep.rows)
    /\ sweep' = IF Short(Batch) THEN [sweep EXCEPT !.at = "cells"] ELSE sweep
    /\ UNCHANGED <<clock, cube, history, view>>

SweepCells ==
    /\ sweep.at = "cells"
    /\ cube' = [c \in {d \in DOMAIN cube : d.hour >= sweep.cells} |-> cube[c]]
    /\ cut' = Cut("cells", sweep.cells)
    /\ sweep' = Idle
    /\ UNCHANGED <<clock, rows, history, view>>

\* A statement that throws is caught and logged; the next hour tries again.
SweepFails ==
    /\ sweep # Idle
    /\ sweep' = Idle
    /\ UNCHANGED <<clock, dbVars, cut, view>>

-----------------------------------------------------------------------------
(* the list of requests *)

\* `start` is history: what there was to list.
OpenList(scope, filter, asked) ==
    /\ view = NoView
    /\ view' = [is |-> "list", scope |-> scope, filter |-> filter, limit |-> ClampLimit(asked),
                cursor |-> 0, shown |-> <<>>,
                start |-> {r \in rows : InScope(scope, r.user) /\ Matches(r, filter)}]
    /\ UNCHANGED <<clock, dbVars, sweep, cut>>

\* bug: the cursor is counted in rows, as an OFFSET is.
NextByOffset(page, v) ==
    LET all == Page(db, v.scope, 0, MaxRecords, v.filter)
        next == Len(v.shown) + 1
    IN  IF next > Len(all) THEN <<>> ELSE SubSeq(all, next, Min({next + v.limit - 1, Len(all)}))

\* The rows of the next page.
NextRows(page, v) == page

LoadMore ==
    /\ view.is = "list" /\ view.cursor # NULL
    /\ LET page == NextRows(Page(db, view.scope, view.cursor, view.limit, view.filter), view)
       IN  view' = [view EXCEPT !.shown = @ \o page, !.cursor = NextCursor(page, view.limit)]
    /\ UNCHANGED <<clock, dbVars, sweep, cut>>

-----------------------------------------------------------------------------
(* the live page *)

\* `due`: committed and not yet published.  `gap` is history: whether the page
\* has let a row go that it does not promise to show.
OpenLive ==
    /\ view = NoView
    /\ view' = [is |-> "live", up |-> FALSE, due |-> {}, wire |-> {}, seed |-> "asked",
                answer |-> {}, shown |-> <<>>, gap |-> FALSE]
    /\ UNCHANGED <<clock, dbVars, sweep, cut>>

Live(v) ==
    /\ view.is = "live"
    /\ view' = v
    /\ UNCHANGED <<clock, dbVars, sweep, cut>>

AtOf(seq) == (CHOOSE r \in history : r.seq = seq).at
Within(seq) == AtOf(seq) >= clock - Window
\* add: by id, and what has left the window goes.
Add(v, new) ==
    [s \in {t \in DOMAIN v.shown \cup new : Within(t)} |->
        IF s \in DOMAIN v.shown THEN v.shown[s] ELSE 1]

\* bug: the stream opens again and what was fetched before is kept.
ConnectTrusting ==
    view.is = "live" /\ ~view.up /\ Live([view EXCEPT !.up = TRUE])

\* EventSource opens, again and again; the seed is fetched anew each time.
Connect ==
    view.is = "live" /\ ~view.up /\ Live([view EXCEPT !.up = TRUE, !.seed = "asked", !.answer = {}])

Disconnect ==
    view.is = "live" /\ view.up /\ Live([view EXCEPT !.up = FALSE, !.wire = {}])

\* /api/requests answers with the newest rows, which may not fill the window.
SeedRead ==
    /\ view.is = "live" /\ view.seed = "asked"
    /\ LET page == Page(db, [user |-> NULL], 0, DefaultLimit, "all")
           answer == {page[i] : i \in DOMAIN page}
       IN  Live([view EXCEPT !.seed = "read", !.answer = answer,
                    !.gap = \E r \in rows : r.seq \notin answer /\ Within(r.seq)])

SeedArrives ==
    /\ view.is = "live" /\ view.seed = "read"
    /\ Live([view EXCEPT !.seed = "done", !.shown = Add(view, view.answer), !.answer = {}])

\* publish: to a connected page, unless its socket is backed up.
Publish(seq, drop) ==
    /\ view.is = "live" /\ seq \in view.due
    /\ Live([view EXCEPT !.due = @ \ {seq},
                !.wire = IF view.up /\ ~drop THEN @ \cup {seq} ELSE @,
                !.gap = @ \/ (view.up /\ drop)])

\* onRows: a paused page lets the row go.
FrameArrives(seq, paused) ==
    /\ view.is = "live" /\ seq \in view.wire
    /\ Live([view EXCEPT !.wire = @ \ {seq},
                !.shown = IF paused THEN @ ELSE Add(view, {seq}),
                !.gap = @ \/ paused])

-----------------------------------------------------------------------------
StoreNext ==
    \/ \E k \in (IF view = NoPage THEN Kinds ELSE PagedKinds) : Commit(k)
    \/ Tick \/ StartSweep \/ SweepRows \/ SweepCells \/ SweepFails
    \/ \E s \in Scopes, f \in {"all", "errors"}, n \in {0, 1, MaxLimit + 1} : OpenList(s, f, n)
    \/ LoadMore
    \/ OpenLive \/ Connect \/ Disconnect \/ SeedRead \/ SeedArrives
    \/ \E seq \in 1..MaxRecords :
          \E b \in BOOLEAN : FrameArrives(seq, b) \/ Publish(seq, b)

StoreSpec == StoreInit /\ [][StoreNext]_storeVars

-----------------------------------------------------------------------------
(* what is true of the rows ever stored *)

\* A report is about whole hours when it reads the cube.
Covers(range, at) ==
    IF ReadsRows(range) THEN range.from <= at /\ at < range.to
    ELSE HourFloor(range.from) <= at /\ HourFloor(at) < range.to

Told(scope, range) ==
    {r \in history : /\ scope.user = NULL \/ r.user = scope.user
                     /\ range.tag = NULL \/ r.tag = range.tag
                     /\ Covers(range, r.at)}

Ledger(S) ==
    LET Spent == {r \in S : r.basis # "subscription" /\ r.cost # NULL}
    IN  [requests |-> Cardinality(S),
         errors |-> Cardinality({r \in S : r.failed}),
         tokens |-> SumFunction([r \in S |-> r.tokens]),
         priced |-> SumFunction([r \in Spent |-> r.cost]),
         unpriced |-> Cardinality({r \in S : r.basis # "subscription"} \ Spent),
         subscription |-> Cardinality({r \in S : r.basis = "subscription"}),
         notional |-> SumFunction([r \in {s \in S : s.notional # NULL} |-> r.notional]),
         notionalUnpriced |-> Cardinality({r \in S : r.notional = NULL})]

Split(S, by(_)) == [g \in {by(r) : r \in S} |-> Ledger({r \in S : by(r) = g})]

\* Retention has not begun to delete what the report is about.
Retained(range) ==
    IF ReadsRows(range) THEN range.from >= cut.rows ELSE HourFloor(range.from) >= cut.cells

\* Reports are looked at where no page is.  A sweep may stop at any point, so
\* what it leaves is looked at there.
Settled == view = NoPage /\ sweep = Idle

-----------------------------------------------------------------------------
\* Whatever the source, every figure of every panel is that of the records the
\* range covers, each counted once: totals, the split by person, model, origin,
\* tag and hour, with what has no person or model shown as such and adding up;
\* and a panel that has to read rows says so by going blank, never wrong.  It
\* holds however the rows were deleted meanwhile, as long as the cube is not.
\* The quota shown of a person is one, and none older than a row that is kept.
FiguresAgree ==
    Settled =>
    \A scope \in Scopes, range \in Ranges :
        LET S == Told(scope, range)
            T == Told(scope, [range EXCEPT !.tag = NULL])
            origins == UsageByOrigin(db, scope, range)
        IN  /\ Retained(range) =>
                /\ UsageTotals(db, scope, range) = Ledger(S)
                /\ UsageByUser(db, scope, range) = Split(S, LAMBDA r : OrAll(r.user))
                /\ UsageByModel(db, scope, range) = Split(S, LAMBDA r : OrAll(r.model))
                /\ [o \in DOMAIN origins |-> origins[o].totals] = Split(S, LAMBDA r : r.origin)
                /\ \A o \in DOMAIN origins :
                      origins[o].people = Cardinality({r.user : r \in {s \in S : s.origin = o}} \ {NULL})
                /\ UsageByTag(db, scope, range) = Split(S, LAMBDA r : OrAll(r.tag))
                /\ UsageSeries(db, scope, range) = Split(S, LAMBDA r : HourFloor(r.at))
                /\ TagValues(db, scope, range) =
                      [v \in {r.tag : r \in T} \ {NULL} |-> Cardinality({r \in T : r.tag = v})]
            /\ range.from >= cut.rows =>
                LET exact == {r \in S : range.from <= r.at /\ r.at < range.to}
                    clients == UsageByClient(db, scope, range)
                IN  /\ SumFunction(ErrorBreakdown(db, scope, range)) = Ledger(exact).errors
                    /\ SumFunction([c \in DOMAIN clients |-> clients[c].requests]) = Cardinality(exact)
            /\ \A r \in Told(scope, [range EXCEPT !.tag = NULL, !.from = 0]) :
                  r.quota # NULL /\ r.at >= cut.rows =>
                      Cardinality({q \in LatestQuota(db, scope) : q.user = r.user /\ q.at >= r.at}) = 1

\* A percentile estimated from the buckets lies in the bucket the exact one is
\* in, at every range and with any mix of durations.
PercentilesAgree ==
    Settled =>
    \A scope \in Scopes, range \in Ranges :
        LET S == Told(scope, range)
            latency == LatencySummary(db, scope, range)
            Near(estimate, p) ==
                LET b == BucketOf(ExactPercentile(S, p))
                IN  /\ estimate >= LatLower(b)
                    /\ b <= Len(LatUpper) => estimate <= LatUpper[b]
        IN  Retained(range) =>
              /\ latency.count = Cardinality(S)
              /\ latency.lat = [b \in Buckets |-> Cardinality({r \in S : BucketOf(r.duration) = b})]
              /\ S = {} => latency.p50 = NULL /\ latency.p95 = NULL
              /\ S # {} => Near(latency.p50, <<1, 2>>) /\ Near(latency.p95, <<19, 20>>)

\* A sweep that gets past its batches has left no row behind its cut-off.
SweepComplete == sweep.at = "cells" => \A r \in rows : r.at >= sweep.rows

\* The figures, the percentiles and the rows a sweep leaves, as above: what the
\* dashboard's reports say while retention deletes.
ReportsAgree == FiguresAgree /\ PercentilesAgree /\ SweepComplete

\* Paging to the end, while rows come in and go, shows each row that was there
\* from beginning to end once, newest first, and none that does not match.
WalkComplete ==
    view.is = "list" =>
        /\ \A i, j \in DOMAIN view.shown : i < j => view.shown[i] > view.shown[j]
        /\ \A i \in DOMAIN view.shown : \E r \in history :
              /\ r.seq = view.shown[i]
              /\ InScope(view.scope, r.user) /\ Matches(r, view.filter)
        /\ view.cursor = NULL =>
              \A r \in view.start \cap rows : \E i \in DOMAIN view.shown : view.shown[i] = r.seq

\* The live page is connected, has the answer it asked for when the stream
\* opened, and nothing is on its way: then, if it let nothing go, it shows every
\* row of its window, once.
NoHole ==
    (view.is = "live" /\ view.up /\ view.seed = "done" /\ view.due = {} /\ view.wire = {} /\ ~view.gap)
        => \A r \in rows : Within(r.seq) => r.seq \in DOMAIN view.shown /\ view.shown[r.seq] = 1
=============================================================================
