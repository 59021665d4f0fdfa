-------------------------------- MODULE Prices --------------------------------
(***************************************************************************)
(* What a call costs (server/usage/pricing.ts), from the vendor's file     *)
(* (prices/catalog.ts) to the table in force in each worker                *)
(* (prices/table.ts, prices/refresh.ts).                                   *)
(*                                                                         *)
(* The vendor's file maps keys to entries [mode, rates, search], `rates`   *)
(* being a function from <<bucket, tier>> to a number or NULL; a tier is   *)
(* BaseTier, PriorityTier or the context above which it holds.  A key is a *)
(* sequence of segments, and PlainName takes the window tag off a segment. *)
(* The table in force is its fetchedAt, a tick of the clock.               *)
(***************************************************************************)
EXTENDS Integers, Sequences, FiniteSets, SequencesExt

CONSTANTS
    NULL,
    BaseTier, PriorityTier,
    PlainName,  \* normalise(), on the last segment of an id
    Thresholds, \* the long-context tiers the vendors have
    Workers, Down,
    MaxClock    \* bound: the ticks in which a refresh or an upgrade happens

\* What is kept of a model.
Buckets == {"input", "read", "write5m", "write1h", "output"}
TierRates == [Buckets -> Nat]
ModelRates ==
    [base : TierRates, tiers : Seq([above : Nat, rates : TierRates]),
     priority : TierRates \cup {NULL}, search : Nat \cup {NULL}]

ASSUME PricesAssumption ==
    /\ NULL \notin Nat /\ NULL \notin TierRates /\ NULL \notin ModelRates
    /\ Thresholds \subseteq Nat /\ IsFiniteSet(Thresholds)
    /\ BaseTier # PriorityTier /\ {BaseTier, PriorityTier} \cap Thresholds = {}

Tiers == {BaseTier, PriorityTier} \cup Thresholds
First(seq) == LET said == {i \in DOMAIN seq : seq[i] # NULL}
              IN  IF said = {} THEN NULL ELSE seq[Min(said)]
InOrder(numbers) ==
    [i \in 1..Cardinality(numbers) |->
        CHOOSE n \in numbers : Cardinality({m \in numbers : m < n}) + 1 = i]

-----------------------------------------------------------------------------
(* normaliseCatalog *)

Half(entry, tier) ==
    entry.rates[<<"input", tier>>] = NULL \/ entry.rates[<<"output", tier>>] = NULL

(***************************************************************************)
(* A tier needs both of its main rates.  A cached token without a rate of  *)
(* its own is ordinary input; an hour's write also takes the base tier's.  *)
(***************************************************************************)
TierFrom(entry, tier) ==
    LET rate(b) == entry.rates[<<b, tier>>]
    IN  IF Half(entry, tier) THEN NULL
        ELSE [b \in Buckets |->
                CASE b \in {"input", "output"} -> rate(b)
                  [] b \in {"read", "write5m"} -> First(<<rate(b), rate("input")>>)
                  [] b = "write1h" ->
                        First(<<rate(b), entry.rates[<<b, BaseTier>>],
                                rate("write5m"), rate("input")>>)]

TierSuffixes(entry) == {t \in Thresholds : entry.rates[<<"input", t>>] # NULL}

Rate(entry) ==
    LET whole == InOrder({t \in TierSuffixes(entry) : ~Half(entry, t)})
    IN  [base |-> TierFrom(entry, BaseTier),
         tiers |-> [i \in DOMAIN whole |->
                       [above |-> whole[i], rates |-> TierFrom(entry, whole[i])]],
         priority |-> TierFrom(entry, PriorityTier),
         search |-> First(entry.search)]

\* NULL stands for the error that leaves the table in force as it is.
NormaliseCatalog(raw) ==
    LET priceable == {k \in DOMAIN raw :
                         raw[k].mode \in {"chat", "responses"} /\ ~Half(raw[k], BaseTier)}
    IN  IF priceable = {} THEN NULL ELSE [k \in priceable |-> Rate(raw[k])]

-----------------------------------------------------------------------------
(* lookupRate and priceUsage *)

Candidates(id, provider) ==
    <<id>> \o (IF provider = NULL THEN <<>>
               ELSE <<<<provider>> \o id>> \o
                    (IF Len(id) > 1 THEN <<<<provider, Last(id)>>>> ELSE <<>>))

LookupRate(models, id, provider) ==
    LET plain == [id EXCEPT ![Len(id)] = PlainName[@]]
        keys == Candidates(id, provider) \o Candidates(plain, provider)
        hits == {i \in DOMAIN keys : keys[i] \in DOMAIN models}
    IN  IF id = NULL \/ hits = {} THEN NULL ELSE models[keys[Min(hits)]]

Crossed(rate, context) == {i \in DOMAIN rate.tiers : context > rate.tiers[i].above}

\* bug: the first tier that is crossed, from below
TierForFirst(rate, context, service) ==
    IF Crossed(rate, context) # {} THEN rate.tiers[Min(Crossed(rate, context))].rates ELSE rate.base

\* The whole call is billed at the highest tier its context has crossed.
TierFor(rate, context, service) ==
    LET crossed == Crossed(rate, context)
    IN  CASE crossed # {} -> rate.tiers[Max(crossed)].rates
          [] crossed = {} /\ service = "priority" /\ rate.priority # NULL -> rate.priority
          [] OTHER -> rate.base

Context(usage) == usage.input + usage.read + usage.write5m + usage.write1h

ListPrice(rate, usage) ==
    LET t == TierFor(rate, Context(usage), usage.service)
    IN  usage.input * t["input"] + usage.read * t["read"] + usage.write5m * t["write5m"]
        + usage.write1h * t["write1h"] + usage.output * t["output"]
        + usage.searches * (IF rate.search = NULL THEN 0 ELSE rate.search)

PriceUsage(models, id, usage, subscription, provider) ==
    LET rate == IF id = NULL THEN NULL ELSE LookupRate(models, id, provider)
        value == IF rate = NULL THEN NULL ELSE ListPrice(rate, usage)
    IN  [cost |-> IF subscription THEN NULL ELSE value,
         basis |-> CASE subscription -> "subscription"
                     [] ~subscription /\ value # NULL -> "list"
                     [] OTHER -> "none",
         notional |-> value]

(***************************************************************************)
(* What a vendor asks for a call: the whole of it at the highest tier whose*)
(* context it has crossed, or at the priority tier, or at the base tier; a *)
(* cached token without a rate of its own as input; and the searches.      *)
(***************************************************************************)
Billed(entry, usage) ==
    LET reached == {t \in Thresholds : ~Half(entry, t) /\ t < Context(usage)}
    IN  CASE reached # {} -> Max(reached)
          [] reached = {} /\ usage.service = "priority" /\ ~Half(entry, PriorityTier) -> PriorityTier
          [] OTHER -> BaseTier

Owed(entry, tier, usage) ==
    LET Asks(b) == First(<<entry.rates[<<b, tier>>], entry.rates[<<"input", tier>>]>>)
        hour == First(<<entry.rates[<<"write1h", tier>>], entry.rates[<<"write1h", BaseTier>>],
                        Asks("write5m")>>)
        search == First(entry.search)
    IN  usage.input * Asks("input") + usage.read * Asks("read") + usage.write5m * Asks("write5m")
        + usage.write1h * hour + usage.output * Asks("output")
        + usage.searches * (IF search = NULL THEN 0 ELSE search)

(***************************************************************************)
(* No call is priced short or over: it costs what the vendor asks for it,  *)
(* a plan's call is never spend, and an unknown model has no price at all  *)
(* (catalog.ts:80-91, table.ts:96-103, pricing.ts:22-36).                  *)
(***************************************************************************)
PricedAsPublished(raw, id, usage, subscription, provider) ==
    LET models == NormaliseCatalog(raw)
        p == PriceUsage(models, id, usage, subscription, provider)
        key == CHOOSE k \in DOMAIN raw : Last(k) \in {Last(id), PlainName[Last(id)]}
    IN  /\ subscription => p.cost = NULL /\ p.basis = "subscription"
        /\ ~subscription => p.cost = p.notional
        /\ (p.notional = NULL) <=>
              ~\E k \in DOMAIN models : Last(k) \in {Last(id), PlainName[Last(id)]}
        /\ p.notional # NULL => p.notional = Owed(raw[key], Billed(raw[key], usage), usage)

-----------------------------------------------------------------------------
(***************************************************************************)
(* The table in force.  The cache file is next to the database; the        *)
(* primary refreshes it and tells its workers, each of which reads it.     *)
(***************************************************************************)
VARIABLES
    now,       \* the time
    snapshot,  \* the time of the snapshot this build was shipped with
    cache,     \* the time of prices.json, or NULL
    table,     \* what each worker prices with, or Down
    told       \* the workers with a {t: "prices"} on its way to them

pricesVars == <<now, snapshot, cache, table, told>>

PricesInit ==
    /\ now = 1 /\ snapshot = 1
    /\ cache = NULL
    /\ table = [w \in Workers |-> Down]
    /\ told = {}

\* bug: a cache is always taken
LoadAnyCache == IF cache # NULL THEN cache ELSE snapshot

\* loadPrices: the cache only when it is newer than the snapshot.
LoadPrices == IF cache # NULL /\ cache > snapshot THEN cache ELSE snapshot

\* serveWorker, and a worker that dies; its messages die with it.
WorkerBoots(w) ==
    /\ table[w] = Down
    /\ table' = [table EXCEPT ![w] = LoadPrices]
    /\ UNCHANGED <<now, snapshot, cache, told>>
WorkerDies(w) ==
    /\ table[w] # Down
    /\ table' = [table EXCEPT ![w] = Down]
    /\ told' = told \ {w}
    /\ UNCHANGED <<now, snapshot, cache>>

(***************************************************************************)
(* refreshPricesOnce: everything after the fetch is one step, the rename   *)
(* being what others see of it.  A fetch that fails, or a file with no     *)
(* price in it, changes nothing.                                           *)
(***************************************************************************)
Refresh ==
    /\ now < MaxClock
    /\ now' = now + 1
    /\ cache' = now + 1
    /\ told' = told \cup {w \in Workers : table[w] # Down}
    /\ UNCHANGED <<snapshot, table>>

WorkerIsTold(w) ==
    /\ w \in told
    /\ told' = told \ {w}
    /\ table' = [table EXCEPT ![w] = LoadPrices]
    /\ UNCHANGED <<now, snapshot, cache>>

\* The process is stopped or dies, the file renamed or not, and starts again,
\* perhaps as a newer build.
Restart ==
    /\ now < MaxClock
    /\ now' = now + 1
    /\ snapshot' \in snapshot..now
    /\ cache' \in {cache, now}
    /\ table' = [w \in Workers |-> Down]
    /\ told' = {}

PricesNext ==
    \/ Refresh \/ Restart
    \/ \E w \in Workers : WorkerBoots(w) \/ WorkerDies(w) \/ WorkerIsTold(w)

(***************************************************************************)
(* A worker prices with the newest table there is, or has been told of it; *)
(* a cache left behind by an older build never hides the rates of a newer  *)
(* one (refresh.ts:54-57).                                                 *)
(***************************************************************************)
Newest == IF cache = NULL \/ cache < snapshot THEN snapshot ELSE cache
PricesCurrent ==
    \A w \in Workers : table[w] # Down /\ w \notin told => table[w] = Newest
=============================================================================
