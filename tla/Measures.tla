-------------------------------- MODULE Measures --------------------------------
(***************************************************************************)
(* The live screen (web/src/lib/measure.ts, hooks/useLiveWindow.ts,        *)
(* pages/Live.tsx, components/live): the window the browser keeps, its     *)
(* boards, its pulse and its headline, on three sets of books at once.     *)
(*                                                                         *)
(* A row is what the gateway sends of a request: `subscription` is its     *)
(* cost basis, `cost` and `notional` a sum or NULL, and `usage` the tokens *)
(* by kind.  Time is counted in slices of the pulse, WindowSlices to the   *)
(* window, and the browser's clock is not behind the gateway's.            *)
(***************************************************************************)
EXTENDS Sequences, SequencesExt, FiniteSets, FiniteSetsExt, Functions, Integers

CONSTANTS NULL, WindowSlices, Limit

Books == {"tokens", "billed", "value"}
NonErrorStatuses == {"ok", "preflight_refused"}

-----------------------------------------------------------------------------
(* what a row weighs *)

CacheWriteTokens(usage) == usage.write5m + usage.write1h
ContextTokens(usage) == usage.input + usage.read + CacheWriteTokens(usage)

ToEvent(row) ==
    [id |-> row.id, at |-> row.at, user |-> row.user, model |-> row.model, tags |-> row.tags,
     error |-> row.status \notin NonErrorStatuses, subscription |-> row.subscription,
     cost |-> row.cost, notional |-> row.notional,
     context |-> ContextTokens(row.usage), cacheWrite |-> CacheWriteTokens(row.usage),
     output |-> row.usage.output]

EmptyTally ==
    [context |-> 0, cacheWrite |-> 0, output |-> 0, billed |-> 0, billedUnpriced |-> 0,
     subscriptions |-> 0, value |-> 0, valueUnpriced |-> 0]

Priced(sum) == IF sum = NULL THEN 0 ELSE sum
Count(b) == IF b THEN 1 ELSE 0

\* bug: a request a subscription absorbed is one that could not be priced
TallyAddUnskipped(t, e) ==
    [context |-> t.context + e.context, cacheWrite |-> t.cacheWrite + e.cacheWrite,
     output |-> t.output + e.output, billed |-> t.billed + Priced(e.cost),
     billedUnpriced |-> t.billedUnpriced + Count(e.cost = NULL),
     subscriptions |-> t.subscriptions + Count(e.subscription),
     value |-> t.value + Priced(e.notional),
     valueUnpriced |-> t.valueUnpriced + Count(e.notional = NULL)]

TallyAdd(t, e) ==
    [context |-> t.context + e.context, cacheWrite |-> t.cacheWrite + e.cacheWrite,
     output |-> t.output + e.output,
     billed |-> t.billed + IF e.subscription THEN 0 ELSE Priced(e.cost),
     billedUnpriced |-> t.billedUnpriced + Count(~e.subscription /\ e.cost = NULL),
     subscriptions |-> t.subscriptions + Count(e.subscription),
     value |-> t.value + Priced(e.notional),
     valueUnpriced |-> t.valueUnpriced + Count(e.notional = NULL)]

TallyMerge(into, from) == [book \in DOMAIN into |-> into[book] + from[book]]

TallyTokens(t) == t.context + t.cacheWrite + t.output

Magnitude(t, book) ==
    CASE book = "tokens" -> TallyTokens(t)
      [] book = "billed" -> t.billed
      [] book = "value" -> t.value

IsLowerBound(t, book) ==
    \/ book = "billed" /\ t.billedUnpriced > 0
    \/ book = "value" /\ t.valueUnpriced > 0

\* What is said of a magnitude of zero, or NULL where there is nothing to say.
ZeroReason(t, book, requests) ==
    CASE requests = 0 \/ book = "tokens" \/ Magnitude(t, book) > 0 -> NULL
      [] OTHER -> IF book = "value" THEN "no published rates"
                  ELSE IF t.subscriptions = requests THEN "all on subscriptions"
                  ELSE IF t.billedUnpriced > 0 THEN "nothing could be priced"
                  ELSE "no org spend"

-----------------------------------------------------------------------------
(* the window *)

\* Rows that are not held yet are, and what has left the window is let go.
Add(held, rows, cutoff) ==
    LET new == SelectSeq(rows, LAMBDA row : \A i \in DOMAIN held : held[i].id # row.id)
    IN  SelectSeq(held \o [i \in DOMAIN new |-> ToEvent(new[i])], LAMBDA e : e.at >= cutoff)

MatchesTags(e, filter) ==
    \A key \in DOMAIN filter : key \in DOMAIN e.tags /\ e.tags[key] = filter[key]

InWindow(held, now, filter) ==
    SelectSeq(held, LAMBDA e : e.at >= now - WindowSlices /\ MatchesTags(e, filter))

-----------------------------------------------------------------------------
(* the boards, the pulse and the headline *)

TallyOf(events) == FoldLeft(TallyAdd, EmptyTally, events)

\* What an event counts under; untagged traffic is its own row.
KeyOf(e, by) ==
    IF by \in {"model", "user"} THEN e[by]
    ELSE IF by \in DOMAIN e.tags THEN e.tags[by] ELSE NULL

Rollup(events, by) ==
    [key \in {KeyOf(events[i], by) : i \in DOMAIN events} |->
        LET ours == SelectSeq(events, LAMBDA e : KeyOf(e, by) = key)
        IN  [requests |-> Len(ours), errors |-> Len(SelectSeq(ours, LAMBDA e : e.error)),
             tally |-> TallyOf(ours)]]

\* compareByMeasure, the order of the keys aside: a stands before b.
Before(a, b, book) ==
    LET da == Magnitude(a.tally, book)
        db == Magnitude(b.tally, book)
        ta == TallyTokens(a.tally)
        tb == TallyTokens(b.tally)
    IN  \/ da > db
        \/ da = db /\ ta > tb
        \/ da = db /\ ta = tb /\ a.requests > b.requests

\* RollupBoard: the first few, what they come to and what is said of them.
Shown(rolled, book) ==
    LET ranked == SetToSortSeq(DOMAIN rolled, LAMBDA k, l : Before(rolled[k], rolled[l], book))
        top == SubSeq(ranked, 1, Min({Limit, Len(ranked)}))
        Requests(n, k) == n + rolled[k].requests
        sum == FoldLeft(LAMBDA t, k : TallyMerge(t, rolled[k].tally), EmptyTally, top)
    IN  [top |-> top,
         peak |-> IF top = <<>> THEN 0 ELSE Magnitude(rolled[Head(top)].tally, book),
         zero |-> ZeroReason(sum, book, FoldLeft(Requests, 0, top))]

\* ActivityPulse: the bars by slice, each in segments by model, and the highest.
Pulse(events, now, book) ==
    LET drawn == SelectSeq(events, LAMBDA e : e.at <= now)
        Bar(slice) ==
            LET ours == SelectSeq(drawn, LAMBDA e : e.at = slice)
            IN  [model \in {ours[i].model : i \in DOMAIN ours} |->
                    MapThenSumSet(LAMBDA i : Magnitude(TallyAdd(EmptyTally, ours[i]), book),
                                  {i \in DOMAIN ours : ours[i].model = model})]
        Height(slice) == FoldFunction(+, 0, Bar(slice))
        slices == {drawn[i].at : i \in DOMAIN drawn}
    IN  [bars |-> [slice \in slices |-> Bar(slice)],
         peak |-> Max({Height(slice) : slice \in slices} \cup {0}),
         zero |-> ZeroReason(TallyOf(events), book, Len(events))]

Stats(events, book) ==
    LET tally == TallyOf(events)
    IN  [rate |-> Magnitude(tally, book), bound |-> IsLowerBound(tally, book),
         spend |-> tally.billed, spendBound |-> tally.billedUnpriced > 0,
         worth |-> tally.value, worthBound |-> tally.valueUnpriced > 0]

-----------------------------------------------------------------------------
SumOf(rows, Of(_)) == MapThenSumSet(Of, rows)

(***************************************************************************)
(* Whatever the order the seed and the live rows arrive in, and however    *)
(* often a row does, the screen speaks of the requests of the window, each *)
(* of them once, and every part of it of the same ones: each board adds up *)
(* to the headline and so do the pulse's bars.  The spend is what the org  *)
(* is billed for, a request on a subscription neither costing nothing nor  *)
(* lacking a price; the value counts every request; either is marked a     *)
(* bound exactly when a request it should hold has no price; and a         *)
(* screen of zeros over real traffic says why, truly of what it shows.     *)
(***************************************************************************)
BooksAgree(batches, now, filter, book, boards) ==
    LET Arrive(h, i) == Add(h, batches[i], now - (Len(batches) - i) - WindowSlices)
        held == FoldLeft(Arrive, <<>>, [i \in DOMAIN batches |-> i])
        events == InWindow(held, now, filter)
        rows == {row \in UNION {ToSet(batch) : batch \in ToSet(batches)} :
                    row.at >= now - WindowSlices /\ MatchesTags(ToEvent(row), filter)}
        paid == {row \in rows : ~row.subscription}
        stats == Stats(events, book)
        pulse == Pulse(events, now, book)
    IN  /\ Len(events) = Cardinality(rows)
        /\ \A by \in boards :
              LET rolled == Rollup(events, by)
                  shown == Shown(rolled, book)
              IN  /\ FoldFunction(TallyMerge, EmptyTally, [k \in DOMAIN rolled |-> rolled[k].tally])
                         = TallyOf(events)
                  /\ SumOf(DOMAIN rolled, LAMBDA k : rolled[k].requests) = Cardinality(rows)
                  /\ \A k \in DOMAIN rolled : Magnitude(rolled[k].tally, book) <= shown.peak
                  /\ rolled # << >> /\ shown.peak = 0 /\ book # "tokens" => shown.zero # NULL
                  /\ shown.zero = "all on subscriptions" =>
                        \A k \in ToSet(shown.top) : rolled[k].tally.subscriptions = rolled[k].requests
        /\ SumOf(DOMAIN pulse.bars, LAMBDA slice : FoldFunction(+, 0, pulse.bars[slice])) = stats.rate
        /\ pulse.zero # NULL <=> rows # {} /\ stats.rate = 0 /\ book # "tokens"
        /\ pulse.zero = "all on subscriptions" => paid = {}
        /\ stats.spend = SumOf(paid, LAMBDA row : Priced(row.cost))
        /\ stats.spendBound = (\E row \in paid : row.cost = NULL)
        /\ stats.worth = SumOf(rows, LAMBDA row : Priced(row.notional))
        /\ stats.worthBound = (\E row \in rows : row.notional = NULL)
=============================================================================
