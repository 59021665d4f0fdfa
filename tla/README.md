# Fest gateway: TLA+ models and proofs

Fest is a gateway between coding agents (Claude Code, Codex, Copilot) and model
providers. It relays a request byte for byte on the developer's own credential, or
substitutes another upstream on a credential the server holds, and meters both
into SQLite. This directory models its own logic: the parts in which an order of
events, a failure or a crash can lose usage, count it twice, bill it to the wrong
party or hang a request, and the pure parts whose corners are hard to reach by
example.

Paths below are relative to `src/`. `PROJECT.json` maps every definition to the lines
it translates and lists the hazards of the code with the properties that cover
each of them.

## 1. The system

```
fest claude / codex / copilot  (env, tags)            dashboard (SSE, API, login)
      |                                                        ^
      v                                                        |
client -> http/server -> pipeline/dispatch -> pipeline/passthrough -> upstream
             |  routesOf()     |                     |  http/pipe
             |                 +-> substitute -------+--> sink.record(rec)
             v                     (adapters)               |
      routes/watch (table)                         ingest/sink (queue, timer)
                                                     |onBatch          |trail
   one process: Store.transaction(writeBatch) <------+                 v
   a worker:    process.send -> primary's sink -> onBatch          JSONL file
                                     |
                                     +-> live bus -> dashboards (SSE)
```

| Component | State it keeps | Operations | What is hard about it | What makes it correct |
|---|---|---|---|---|
| Usage sink `server/ingest/sink.ts` | queue, flush in flight, counters, closed | record, flush (size, timer), close | a flush suspended in its trail append while records arrive and close begins; a store that refuses | bounded, ordered, no uncounted loss, close drains and returns |
| Metering writer `server/store/write.ts`, `db.ts` | rows, rollups, the open transaction, the re-entrancy guard | transaction, writeBatch | a record that fails half way, a full disk, a busy lock, a failed commit, a crash | rollups equal the rows they summarise, nothing counted twice, the sink lets go only of what is stored |
| Migrations `server/store/db.ts` | schema, user_version | migrate | several processes and releases at once, a crash between two files | ready means migrated |
| HTTP edge `server/http/`, `server/auth/posture.ts`, the mounts of `server/pipeline/` | none | strip, parse, mount, send, refuse | four places a token may be, two path forms, six mounts | sent where the URL says, metered by who asked |
| Pass-through relay `server/pipeline/passthrough.ts`, `http/pipe.ts` | one request | handleMessages, pipeWithTee | eight exits, back-pressure, a client that hangs up at any await | one record per request, truthful, bounded buffering, an answer |
| Dispatch and substitute `server/pipeline/dispatch.ts`, `substitute.ts`, `server/credentials/` | one request, the table it was given | dispatchMessages, resolveCredential, refuse, handleSubstitute | a table replaced during an await; four exits with different rules | who pays is who the table says; fails rather than falls back; the record tells |
| Adapters `server/adapters/` | none | plan, rewriteModel, buildUrl | an edit in the bytes of a body | nothing but the model changes |
| Routing table `server/routes/`, `api/models.ts`, `api/routing-view.ts` | the table in force, the last mtime seen | parse, resolve, reload by watch and by poll, explain | overlapping reloads, a bad edit, an edit no event reports, exceptions | a bad edit changes nothing, an edit takes effect, the screen says what the resolver does |
| Cluster `server/cluster/` | workers, IPC, respawn timers, the stop | fork, respawn, usage messages, shutdown | crashes, wedged workers, messages in flight at exit | a record is in one place, a clean stop stores all, a stop ends |
| Prices `server/usage/prices/`, `usage/pricing.ts` | the table in force, the cache file | normalise, look up, price, refresh | tiers that begin above a context, partial rates; a refresh racing a load | priced whole at one tier, never with an old table |
| Accumulators and SSE parser `server/usage/`, `http/sse.ts` | counters of one stream, a partial event | push, flush, apply, snapshot | any chunking, oversized and unterminated events, usage said several times | the same events whatever the chunks, each token once |
| Dashboard queries `server/store/queries.ts`, retention `store/retention.ts` | none of their own | reports, lists, percentiles; prune | two tables that must agree, deletions between pages | rows and cube give one answer |
| Live feed `server/ingest/live-bus.ts`, `api/live.ts` and the live screen `web/` | subscribers; a window of rows | publish, subscribe; add, roll up | what is pushed joins what was fetched, reconnections without replay | no hole, nothing twice, books that add up |
| Sessions, accounts, login `server/auth/`, `api/auth.ts`, `api/oauth.ts`, `bin/fest.ts` | users, sessions, throttle | login, change, disable, claim | state read before an awaited hash and used after it | no session outlives what granted it, a role changes only on purpose |
| Tokens and `fest login` `server/store/tokens.ts`, `cli/login.ts` | tokens, pending touches; a listener and a timer | mint, revoke, touch, flush; login | a flush that throws; stale tabs, a timer racing the browser | last use lags by a bound; the first answer decides |
| CLI `cli/` | tags files, the child's environment | tags, launchers | six layers of tags, inherited variables | narrowest wins; who was said to pay pays |

What crosses components:

- `sink.record(rec)` is the one call every request path ends in; it never throws
  and never waits. The sink calls `onBatch`, which is `store.transaction(writeBatch)`
  followed by `bus.publish` (single process, cluster primary) or `process.send`
  (a worker, whose sink has no trail).
- `routesOf()` is read once, when a request arrives; the watcher replaces the table
  behind it. Secrets are read from the environment at the decision.
- The primary learns of a worker's records from messages and of its end from the
  exit event; it tells workers to stop with a signal, and of new prices with a message.
- All processes of one installation share the database file: `serve`, its cluster,
  and every CLI command run `migrate` on opening it.
- Rows and cube cells are written by one transaction and deleted by retention at
  different ages; every report reads one or the other by the length of its range.

## 2. The modules

| Module | Models | Uses | Used by |
|---|---|---|---|
| `UsageSink` | the sink over a store that may be down | `MeteringLedger` (refined) | `RequestProofs` |
| `MeteringLedger` | what the sink promises, without queues or retries (abstract) | | `UsageSink` |
| `MeteringWriter` | transaction and writeBatch over SQLite | | `MCMeteringWriter`, `ProcessProofs` |
| `Migrations` | migrate() run by any number of processes | | `MCMigrations`, `StoreProofs` |
| `MessageRelay` | one request through the pass-through relay | | `RequestProofs` |
| `RouteTable` | which routing files are taken, and the faults reported of the others | | `RouteWatch` |
| `RouteResolve` | the choice of a route | | `Dispatch`, `RoutingView` |
| `RouteWatch` | hot reload of the table | `RouteTable` | `MCRouteWatch`, `RoutingProofs` |
| `Dispatch` | one request through the dispatcher and the substitute pipeline | `RouteResolve` | `MCDispatch`, `RoutingProofs` |
| `Cluster` | primary, workers, their messages and their stop | | `ProcessProofs` |
| `Accounts` | sign-in, sessions, throttle, `fest admin`, provider sign-in | | `MCAccounts`, `PeopleProofs` |
| `Identity` | `fest login`, tokens, the last-used tracker | | `PeopleProofs` |
| `Reports` | every ranged query, and the booking of a record into the cube | | `Store` |
| `Store` | rows and cube over time, retention, a paging reader, the live page | `Reports` | `MCStore`, `StoreProofs`, `ReportsProofs` |
| `Gateway` | the edge: paths, identity, mounts, headers, refusals | | `Launch` |
| `Launch` | the environment each client is started with | `Gateway` | |
| `Streams` | SSE parser and the three accumulators | | `Billing` |
| `Prices` | catalogue, lookup, tiers, sum; snapshot, cache and tables as a state machine | | `Billing` |
| `Billing` | what passes between the gateway and a vendor: a substitute's request, and the reports found in an answer at the prices in force | `Adapters`, `Streams`, `Prices` | `MCAlgorithms`, `BillingProofs` |
| `Tags` | tag format, layers, `fest tags`, what a request is filed under | | |
| `RoutingView` | the model menu and the routing screen | `RouteResolve` | |
| `Adapters` | the plan of a substituted request and the edit of its body | | `Billing` |
| `Measures` | the live screen's window, boards, pulse and headline | | |

`MCAlgorithms` instantiates the last nine and `RouteTable`: a state of it is one call
with its input (or a state of `Prices`' table machine), so that each property is
checked on every input of a bounded set. `BillingProofs` is about `Billing`, `AlgorithmsProofs` about all of them.

Operators whose comment begins with "bug:" (in `UsageSink`, those under the heading
that says so) are not part of the model: each is a definition of the module as it
would be with a plausible mistake, kept to show that the properties notice it.

### UsageSink, MeteringLedger

A record is its number in order of acceptance. `queue`, `batch` (the flush in flight),
`written`, `dropped`, `writeErrors`, `trailErrors` and `closer` are the variables of
`createUsageSink`; `stored` and `storeUp` are the store behind `onBatch`. `hasTrail` is
chosen at the start: with a trail, a flush ends in an append and is suspended there
(`TrailSettled` resumes it, whether the append succeeded or not); without, `Record`,
`TimerFlush` and `CloseRound` run the flush to its end. `close()` is three actions
because it awaits: it joins the flush in flight, drains in rounds, and ends when the
queue is empty or a round made no progress. `refused` counts calls of `record()` after
`close()`. `MeteringLedger` says: records are accepted one at a time, stored oldest
first, given up only with a count; `UsageSink` implements it with
`stored <- Elements(stored)` and `lost <- Lost`, the accepted records that are nowhere.

### MeteringWriter

`Begin`, `WriteRecord`, `SkipRecord`, `StatementFails` and `Commit` are what
`transaction(() => writeBatch(records))` runs, one statement group per action, because
SQLite may fail or the process die between any two. The rollup is a counter per cell
(user or all) x (model or all): with a null user or model two of a record's four
keys coincide, and `rollupParams` must upsert once per distinct key. `depth` is the
re-entrancy guard, `lapsed` holds after a full disk has made SQLite roll the
transaction back under the loop, and `torn` records that such a batch has stored a
row without all of its rollups. `ProcessCrash` keeps what is durable.

### Migrations

Per process: `current` is the user_version it read, `version` the last file it has
applied, `pc` where it is. `Apply` is one file's own transaction, which throws when the
file is already in (`CREATE TABLE` on an existing table) or is broken. `Finish` writes
user_version, once.

### MessageRelay

`pc` names the await `handleMessages` or `pipeWithTee` is suspended at; one action is
what runs between two awaits. The client may hang up at any time, the upstream may
refuse, answer in JSON, stream or fail at any point, and the socket takes `HighWater`
chunks before it asks for a drain. A chunk is reduced to the one event in it that
matters: data, the terminal event, or an error event.

### RouteTable, RouteResolve, RouteWatch, RoutingView

A file is a record of what the parser looks at; `Valid` says which are taken and
`Faults` what is reported of the others. A route is the set of models it matches,
whether its match is exact, its length, its alias and its upstream: what `rank` and
`claimsModel` look at. In `RouteWatch` a read of the file takes it as it is and ends
in a later callback, so that several are in flight; the poll's stat is two steps, the
mtime it saw is remembered before the reload it starts has ended. `missed` is
history: the edit in the file was read in vain, because its read failed or an older
read ended after it. `RoutingView` is evaluationOrder, explainRoutes and the menu.

### Dispatch

One request at a time (requests share nothing but the table) and `Reload`, which puts
another table in force at any moment: `snapshot` is `ctx.routes`, read at arrival.
`Arrive` is dispatchMessages up to its await, or handleMessages when there is nothing
to decide; `DecidePassthrough`, `SubstituteRefused` and `SubstituteSent` are what runs
between the body and the next await, i.e. peek, decision, credential, and the refusal
or the fetch; the remaining actions are the exits of `handleSubstitute`. `sent` is what
went upstream and on which credential, `considered` the audit list of the record.

### Cluster

A request is in one of: open in a worker, in its sink (`local`), handed to
`process.send` (`link`), in the channel (`pipe`), in the primary's queue, stored, or
lost. Workers are up, draining (told to stop), leaving (sink closed, sends pending),
dead (exited, not noticed), respawn (timer set), or gone. `calm` stays true while
nothing has crashed, been killed, or run into a deadline.

### Accounts, Identity

A handler is cut where it awaits: a sign-in reads the account, awaits scrypt, creates
its session; `fest admin passwd` reads the role, awaits the password, then its hash,
then writes, then revokes. `attempts` is a map per worker, as the throttle is module
state of each process; the rows are shared. `epoch` counts the changes of an account that
should end its sessions, and a session carries the epoch its sign-in read. A command
carries `may`, the roles it was begun to give. In `Identity` a browser
tab outlives the command that opened it, and a later login listens on the same port;
the tracker's map is emptied before it is written, a write that throws ends the
process, and a crash loses the map.

### Reports, Store

A row is a record of the fields a report groups, filters or sums by; the six token
counters are one, a tag set is one value. `Reports` has the queries over `[rows, cube]`
as operators; `Store` commits rows (each a batch of its own), books them, sweeps both
tables in batches with statements that may throw, opens a list or a live page, and
keeps `history` to say what every report should be. `view` is one open page; the
behaviours in which none will be opened are the ones whose reports are looked at.

### Gateway, Launch, Streams, Prices, Tags, Adapters, Measures

`Gateway!Handle` is the request handler from the URL to the request sent, refused or
dispatched, stage by stage; a path is a sequence of segments, and headers are a function
from their names to where their values come from, the two that hold credentials
included. `Launch` runs what each launcher does to the environment, with its notice of who
pays and its warnings, then what the client does with that environment, its settings
files and its stored login, and hands the client's first request to `Gateway`. `Streams` reads symbols that stand for bytes, a
character of two bytes among them, cut into chunks at every place; each wire has its own
reading of a usage report. `Prices` has rates
per bucket and tier. `Tags` has the layers as sequences of pairs. `Adapters` has a body
as a sequence of atoms (the characters JSON turns on, each by its name, and words), strings
with escaped quotes and nested keys included.
`Measures` has rows and the three sets of books.

## 3. What the runs check

| Run | Instance | Distinct states | Shows |
|---|---|---|---|
| `sink` | queue 3, batch 2, 7 records, both kinds of sink | 14 466 | every loss is counted, order is kept and the oldest is lost first, close() drains what the store takes, the ledger is implemented, a record leaves memory once the store stays up and close() returns |
| `writer` | 4 records (fully attributed, no user, neither, malformed) | 162 578 | rollups agree with rows unless the disk filled up under a batch, nothing is counted twice, batches are whole, what the sink lets go of is stored |
| `migrations_race` | 3 processes, 2 releases, file 2 broken at first | 1 629 | a ready process has its schema |
| `relay_codex` | mark 2, 4 chunks, identity required, terminal event known | 710 | one record at most and a truthful one; a client that stays is answered |
| `dispatch` | 4 models, 5 tables, 2 credentials set of 4 upstreams | 16 220 | who pays, no fallback, a record that says who paid |
| `cluster` | 2 workers, 2 requests, 2 exits while serving | 15 041 | one place per record, a clean stop stores all, workers return, nobody is forked in a shutdown, the stop ends |
| `routewatch` | 3 files (one is not taken), 2 edits, 2 reads in flight | 28 034 | what the poll has seen is in force; an edit takes effect unless it is read in vain |
| `accounts` | 2 users, 2 workers, 2 requests in flight, 1 command, throttle at 1, failures counted for 1 account at once, 2 changes | 5 434 729 | sessions end with the password and the account's state, what a worker lets guess is bounded, roles change on purpose only |
| `identity` | 2 users, 2 logins, 2 tokens, interval 2, clock to 4 | 294 891 | last_used_at lags by less than the interval; the first answer decides; a login ends |
| `store` | 3 records, an hour of 2, clock to 5, raw rows kept 2 and cells 4, sweeps of 1, pages and windows of 2 | 1 048 652 | rows and cube give one figure, a walk through a list misses and repeats nothing, a live page has no hole |
| `algorithms` | one state per input of 11 topics, and the price table | 212 225 | the pure parts against definitions of their own, below |
| `gateway_base_path` | the edge behind a proxy that keeps the mount path | | expected to be violated, section 5 |

The properties of `algorithms`, each over its bounded inputs:

- `SentWhereTheUrlSays`, `MeteredByWhoAsked` (`Gateway`): every combination of the
  places a token and a credential may be in, path forms, mounts and Bedrock model ids. The
  former has `CredentialsKeptApart`: the identity headers stay at the gateway, the credential
  that pays goes on as it came, and no other is made up. It says of a Fest token in
  `authorization` or `x-api-key` what the code does, which is less than posture.ts says
  (section 5).
- `CutAnywhere`, `CountedOnce` (`Streams`): the same events whatever the chunks, and each
  token once however often and in whichever form the vendor reports it; nobody is charged
  for a cache write on the Chat wire, whose reports are read without one.
- `PricedAsTheVendorSays`, `PricesCurrent` (`Prices`): a call costs exactly what the vendor's
  entry asks, whole at the one tier its context and service tier select; no worker goes back to an older table, and
  the cache on disk never replaces a newer snapshot.
- `TakenIsHonourable` (`RouteTable`): every route of a file that is taken can be served.
- `TagsTakeEffect` (`Tags`): what `fest tags set` sets without `--global` is what the next request
  is filed under, unless something narrower or the cap stands in the way; neither `set` nor
  `unset` changes a tag it was not given, as long as the tags are no more than the cap; and a refused
  command changes nothing. What `unset` itself achieves is not claimed (section 5).
- `PaysAsAnnounced` (`Launch`): with whatever the developer's environment holds, and with
  helpers and variables in the machine's settings files, the client's first request is paid
  and metered as the launcher's notice said, or a warning named the file that
  takes it off the plan. `Unsaid` is the list of the cases in which neither is so (section 5).
- `RoutingScreenTruthful` (`RoutingView`): the menu and the explanation of each rule say
  what the resolver does.
- `SubstitutesOnlyTheModel` (`Adapters`): the edit of a body changes the top-level model
  and nothing else.
- `BooksAgree` (`Measures`): totals, boards and pulse of the live screen count the same
  rows, each once.

### Why the bounds are enough

- *Sink*: overflow needs a full queue behind a batch in flight, so 3 + 2 records, and two
  more to see which one is dropped and that the next is accepted. A batch smaller than
  the queue makes close() take several rounds. Counters stop at `MaxErrors`; no
  guard reads them.
- *Writer*: the four records are the four ways rollup keys can coincide or fail. The
  per-record actions are independent, so more of the same kind add no new case.
- *Migrations*: the interesting race needs two processes with the same files, and an
  older release with fewer. The proofs are for any number of either.
- *Relay*: with mark 2 and 4 chunks the socket fills, drains and fills again, with the
  terminal event before, between and after.
- *Dispatch*: the tables tell apart: nothing to decide; a default upstream only; a
  broad rule above its exception; an alias on a short wildcard against a longer
  carve-out; upstreams without their credential. Identity is not required there
  (the stricter case is in `relay_codex`, and the proofs cover both).
- *Cluster*: two workers give the races between one worker's exit and another's
  messages; two exits allow a respawned worker to exit again. `MaxExits` bounds exits
  while serving only.
- *RouteWatch*: two edits and two reads give an older read that ends after a newer one;
  the proof is for any number of either.
- *Accounts*: two changes of one account are what a password change after another needs,
  and one of each of two accounts is what "is there an owner already" needs; two requests in flight
  may overtake each other across the hash, in one worker or in two. One command at a time in
  the run; the proofs are for any number of users, workers, requests and commands. `MaxSessions`
  bounds sessions that differ, `MaxGuessed` the accounts with an entry in some throttle at once.
- *Identity*: two logins make a stale tab, an interval of 2 leaves a tick between a use and
  its flush, and a clock of 4 has two intervals. The proofs are for any of these.
- *Store*: three records in hours of two ticks are in one hour, in two, and on either side
  of a cut-off; a sweep of one row leaves the state between batches; windows and pages of
  two overflow with the third record.
- *Algorithms*: every input is at the smallest size at which the cases of its function
  differ, and combinations are exhaustive up to it. What is true of longer inputs is not
  shown here.

### Fairness

Only what the code or its platform does by itself is assumed, all of it weak fairness.
The sink: its interval fires, a started append settles, close() resumes. The store need
not recover. The relay: a handler whose await has settled resumes, an upstream goes on
until it ends or fails, the socket of a client who is present empties; nobody has to
hang up, and nothing empties the socket of a client who has gone. The cluster: the primary
reads its pipes, notices exits, its timers fire, its sink drains; a worker may do nothing
at all for ever, which is the case `StopEnds` is about. `RouteWatch`: its two timers fire,
and stats and reads are answered; no event need arrive. `Identity`: the command's own
timer, its write and its close; nobody need answer in the browser. The other modules have
safety properties only and no fairness.

### Assumptions about what is not in the repository

- node: one callback runs to its next await without interruption; `res.write` to a
  closed response is discarded and returns false, and no drain follows a close;
  what a worker has sent is read by the primary before its exit event; a worker
  exits when the primary has gone; an exception thrown out of a timer ends the process.
- SQLite: a transaction is durable whole or not at all; BEGIN IMMEDIATE waits for
  busy_timeout and then fails; a full disk rolls the transaction back and leaves the
  connection in autocommit mode; user_version is part of the database.
- The file system: two edits of the routing file have different mtimes.
- The clients: Claude Code, Codex and Copilot take their endpoint and credential from the
  variables and settings the launchers write, in the precedence the launchers' comments
  state.

## 4. What is proved

The proofs hold for every value of the constants; TLC had found each invariant to
hold on the instances above first.

**RequestProofs**, the sink, from `SinkAssumption` (queue and batch sizes are positive):
`SinkTypes`, `SinkQueueBounded`, `SinkLossAccounted`. The inductive invariant `Books` adds
to the three: `written` is the length of `stored` without the batch that is persisted
and not yet concluded. Without it, a failed flush could not be shown to give back
exactly what it took. Two lemmas about sequences (what is taken and what is left add
up) and one about `Conclude` carry the arithmetic; `FlushAccounts` states once what any
flush preserves, and every action that starts one cites it.

On top of it, `SinkQueueHonest` (order, oldest lost first, close() drains) and
`SinkImplementsLedger`, the refinement. Sequences are cut into sets once, by `ConcatOrder`: two
sequences end to end are increasing if each is and one is below the other. `Orderly`
says so of store, batch in flight and queue. That only the oldest is lost is not
inductive: while a batch is in flight a full queue sheds records newer than the batch. The
invariant `LostFirst` allows that exactly while the queue is full, and a batch that
finds a full queue is not put back but given up, whole (`SettleOrder`). `Ending` is why
close() does not mistake a flush it joined for a store that refuses. `Moves` says what a step
does to the records; every action has one, and it is what a ledger step asks for.

**ProcessProofs**, the writer, for any records, users and models: `RollupsAgreeAlways`,
`NothingTwice`, `BatchesAreWhole`. `OneMoreRow` and `RowCounted` are about one row and its
keys, however many of the four coincide. The invariant: both what the connection sees and what a
rollback would restore count correctly, exactly so unless a row was torn (`Counted`); an
open transaction has added exactly the well-formed records the loop has passed, and a
loop without its transaction knows that it has lapsed (`InFlight`).

**ProcessProofs**, the cluster, for any workers, requests and number of exits: `RecordInOnePlace` and
`CleanStopStoresAll`. `Apart` is the former place by place. The latter rests on what a
worker can still hold in each stage of its end (`Emptied`) and on the order in which the
primary stops: it closes its sink when it has noticed every exit, and notices an exit when it
has read the pipe (`CalmSoFar`).

**RoutingProofs**, the dispatcher: for any tables, models, secrets and either identity policy: `PlanPays`,
`ServedWhereDecided`, `BilledAsSent`, and `OneRequestOneRecord`. The invariant says what
each await knows: before the decision nothing was sent; while relaying, what was sent is
the caller's; while substituting, it is the decided upstream's, and the list that will be
recorded bills exactly the server. `RejectedBills` is the lemma that a 401 changes the
result of an attempt and never who is billed.

**RoutingProofs**, hot reload: for any files, edits and reads in flight (`WatchAssumption` says that
the sentinels are not mtimes or files): `WhatIsSeenIsInForce`. The invariant: nothing that
was read or seen is newer than the file; if the poll has seen the file's mtime, a read of
it is in flight or a reload has dealt with it (`SeenIsRead`); and if one has, and the edit
was not read in vain, the table is the file's (`DealtWith`). The second is why it does no
harm that watch.ts:75 remembers the mtime before the reload has succeeded, and the
exception in the third is the harm it can do.

**PeopleProofs**, tokens and `fest login`: for any users, logins, tokens and interval (`IntervalPositive`,
`AnswersDistinct`): `LagIsBounded` and `FirstAnswerStands`. For the first: a token in the map
was last used when the map says, at or after the last flush, and the table has the latest
use of one that is not in it (`Tracked`). For the second: a login that waits has had no
answer, and one that has settled keeps its first (`Raced`).

**PeopleProofs**, accounts: for any accounts, requests in flight and commands that overlap
(`AccountsAssumption`): `SessionsEnd`, `GuessesAreBounded`, `RolesStay`. Sessions are
inductive by themselves once it is known which steps change an account. The bound on
guesses is not: a failure is counted after the await, so the invariant counts a worker's
failures together with its sign-ins that may still add one (`Counted`); the bound is each
worker's, and for a deployment it is that many times as large. `RolesStay` is an action
property over every step; it rests on `RoleMeant`: the role that a command in flight is
about to write is one it was begun to give, whatever happened meanwhile.

**StoreProofs**, migrations: for any set of processes and any number of files:
`MigrationTypes`, `ReadyMigrated`, `VersionApplied`, `OnlyOneAhead`, `VersionMonotonic`. The
invariant: a process that has applied a file of its own is at the last file applied, above
user_version (`AheadIsLast`), and everybody else compares with a version no higher
than user_version (`ReadNoMore`), so that its next file is in the schema already and throws.
That is why `migrate()` needs no lock of its own, and it is the argument nobody wrote down.

**StoreProofs**, retention and the pages over it, for any retention ages, batch, page and
window sizes and any number of records (`StoreAssumption`): `SweepLeavesNothing`,
`SweepSparesTheYoung`, `LiveHasNoHole`, `WalkShowsAll`. `HistoryOK` numbers the rows as
they came. A sweep deletes in batches while rows are written: its cut-offs are at least the
retention ages old (`SweepOK`) and a batch that is not full was all there was to delete
(`ShortBatchIsAll`), whatever was written since. The live page: from the moment its
seed was read every row of the window is shown, in the seed's answer, on the wire, or
about to be published, unless a connection was lost (`LiveCovers`). The list: what was there at
the beginning and has not been shown is below the cursor (`ListPlace`), and rows only ever
appear above it.

**ReportsProofs**, for any records, ranges, scopes, latency buckets and retention ages:
`ReportsAgreeAlways`. Every figure is a sum, over the rows or over the cells of the cube.
The sums are the community modules' fold, which is a recursive function: `SumIsIter` and
`SumTake` are its equations (it may take its elements in any order), and `SumUnion`,
`SumGroups` and `SumWhere` follow with `SetInduction`, induction over finite sets stated with
a set of sets in place of a predicate. The invariant `BooksOK`: a cell's figures are the
sums of the shares of the rows booked into it, among all that were ever stored, and what
retention has deleted of rows and of cells is older than its cut-off. From it:
- a query of rows reads the rows in its range (`OfRowsIsLedger`), and the cells a query of the
  cube reads share the rows of its hours out among them, each row in one (`GrainIn`,
  `GrainRows`, `GrainOnto`), so that their sums are those of the rows (`TotalsOfCells`,
  `GroupedCells`), with what has no person or model as the residual (`ResidualIsRest`);
- the bucket of the duration at a rank is the one the cumulated counts reach the rank in
  (`RankBucketHolds`), so that the estimate lands in the exact one's bucket. An
  exact percentile is the nearest rank, stated without sorting: the least duration that so
  many rows do not exceed (`Rank`, `AtRank`).

It assumes that the buckets' edges ascend (`EdgesAscend`), that what is stored is a record
(`KindAssumption`), and that ranges are intervals and no person is called as the
mark of all persons or of none (`ReportAssumption`).

**RequestProofs**, the relay, for any number of chunks, any mark, and either identity policy:
`RelayRecordsOnce`, `RelayRecordsTruthfully`, `RecordStands`, `FinishedIsAnswered`. The
invariant relates where the handler is to what the upstream and the client have done
(`Placed`); a chunk is written before it is observed, so that what was metered lags what was
relayed by the one chunk the handler waits with (`Metered`); and the socket has room wherever
a chunk may be written (`Roomy`). `FinishedIsAnswered` is the safety half of
`PatientClientAnswered`.

**BillingProofs** and **AlgorithmsProofs** have two kinds of theorem. The general ones are about an operator
and every argument of it: `MetersWhoAsked` (every configuration, path and set of
headers), `GoesWhereTheUrlSays` (every path of plain segments), `ScreenSaysWhatIsServed`
(every table of rules, every set of models), `TakenFileIsHonourable` and `EachFaultOnce`
(every parsed routing file), `ClaudePays`, `CopilotPays` and `CodexPays` (every environment,
machine and set of arguments), `ReportsCountOnce` and `ReportCountsOnce` (every report of usage,
any number of them), `CutsAreInvisible` (every stream and every way to cut it), `OnlyTheModelChanges` (every document
that names its model at most once, and every request),
`PricedWhole` and `PricedByTheVendor` (every entry, file, id and call). The
others are the run's properties
with `[]`, which follow once it is known that what the run asks is in the range of the general
ones (`EdgeAsked`, `ViewAsked`, `RoutesAsked` and their lemmas; `AlgorithmsAssumption` says that
tokens, tag segments, credentials and plain segments are different things, that no fault
or id is `Null`, and that no number, pair of numbers, name or report is `NULL`; `PricesAssumption` says the
same of prices, and that the base and the priority tier are no thresholds). TLC shows the edge on paths of a few
segments, the routing file with two routes, streams of three lines cut at most twice or with
two reports, and the price file with two entries of two thresholds; the theorems are about paths,
files and streams of any length, and entries of any number of thresholds.

- `MetersWhoAsked` goes through `Handle` stage by stage: each mount's handler either meters nothing
  or meters with the token it was handed (`MeteredWith`), and the token handed on is the
  best claim of the request (`TokenIsBestClaim`). It needs that the gateway is asked
  at its root (`AtTheRoot`), which `gateway_base_path` is about, and that no segment of a
  path is blank (`NamedPlainly`).
- `GoesWhereTheUrlSays`: each stage takes a known number of segments off the front of the path, so
  what is sent is a tail of what was asked (`Rest`), and neither token nor tags are in it. Of the
  headers: what is in a credential's place upstream is what the caller put there (`HeadersSent`,
  `SentApart`), and a Fest token there is one the code does not hold back. Every wire's answer
  has what its client reads (`EveryReplyReadable`).
- `ScreenSaysWhatIsServed`: the rules of a table are ordered strictly by rank (`StrictOrder`), so a
  rule's place in the order is one more than the number before it (`RankGrows`), every
  place is taken once (`RanksAreTaken`, by counting), and the first row that covers a model is
  the rule that `resolveRoute` picks (`FirstOfAll`).
- `TakenFileIsHonourable`: `Examine` is a recursive function of the number of routes read. That it
  has a value for every number is `Recursion`, and what holds of every value is shown with
  `CountingUp`; both get by without the induction theorems of the library, whose predicate is a
  parameter no prover here can instantiate, because they speak of sets of numbers: the least
  number outside the set (`FirstOfAll`) has a predecessor in it. Upstreams without a problem are all known
  (`SoundUpstreams`), so a route is never dropped in silence (`NoFaultNoFlaw`); problems only
  accumulate, so none at the end is none anywhere (`NoProblemNoFault`); then the ids and
  aliases seen are exactly those of the routes before (`TakenWhole`), and they differ. What
  is assumed of a file is what JSON and the parser's first lines give (`Parsed`): the upstreams
  are members of an object, so that their names differ.
- `ClaudePays`, `CopilotPays` and `CodexPays`: what a variable holds in the client's environment
  follows from what is taken off and put on (`WithSays`, `UnsetSays`), whatever was inherited;
  from it the client's request, whose path loses the identity and the tags again
  (`ComesOff`), whose best claim is the developer's token (`NamesWhoAsks`) and whose credential
  is the announced one (`PaysWithItsOwn`), and which the mount takes to the relay that meters it
  (`MountTaken`) or the routing table decides (`AnthropicTaken`). What a settings file says over
  the environment is either among the triggers a warning names or among the cases of `Unsaid`
  (`ToldOrUnsaid`); where no file says anything, the environment decides. They assume a gateway under no path
  with its mounts on (`Serving`), that a settings file's helper is there or not, and that the developer's own
  vendor key is neither blank nor a token of the gateway's: with such a key the gateway sees no
  credential at all.
- `ReportsCountOnce`, `CountedOnce` of the messages wire: after every report the accumulator holds
  of each figure what was last said of it, its two cache-write buckets together the total, and
  the one-hour bucket nothing until a report divides them (`HeldNext`). That is an induction
  over the reports with `Recursion` and `CountingUp`. It needs of the vendor what the code
  takes for granted (`Coherent`): a report that divides the cache writes says both parts and their
  total, and one after it that does not divide them repeats the total or leaves it out. A
  stream that raises the total without dividing it again is where the code keeps the old
  division. `ReportCountsOnce` is the same of the one report of an OpenAI answer, whose cached
  part is no more than its input: each of the two wires by its own reading
  (`BucketsOfAReport`).
- `CutsAreInvisible`, `CutAnywhere` for every stream of symbols, every set of cuts, every cap and every
  set of types asked for. Both sides are brought to the parser that reads a stream symbol by symbol
  (`Byte`, `Char`): what is pushed in chunks ends where that reader ends, because the decoder's half
  character and the unfinished line are part of its state (`PushReads`, `CutsDisappear`); and
  the same reader, read over the whole text, has emitted the blocks between the blank lines seen so
  far and holds what the lines since the last one say (`ParsedAs`, kept by every line). The
  reference has no state: lines and blocks are pieces of the text between positions, so
  the lemmas are about what one more symbol, line or block adds to them (`InOrderGrows`, `OverGrows`).
- `OnlyTheModelChanges`, `SubstitutesOnlyTheModel` for every document and every request. A document is
  its members, each with a key, the white space about its colon and a value that is whole
  (`Whole`: a walk through it ends where it began and is inside of a text, a list or an object until
  then), so nothing bounds how deep a value goes or what a text says. The walk over the
  document is, in each member, the walk over that member one level down (`WalkFollows`, `MemberWalks`,
  `DocumentWalked`), so the quotes at the top level are those that open a key or a value
  (`QuotesAmongMembers`); a key matches when it is the model's and a text follows (`KeyMatches`), and a
  text that says `model` has no colon after it (`ValueDoesNot`), so what is found is the
  member the client meant (`FoundIs`), and putting another in its place leaves what is before and
  after it as it was (`Framed`, `CutOut`). It assumes that at most one member names the model as a text
  (`Legible`): of two, the code renames the first alone. The flags that go on are those that came but
  the subscription's (`FlagsKept`).
- `PricedWhole`: what is kept of an entry lists its whole tiers by threshold (`InOrderLists`,
  `TiersKept`), so the last one that is crossed is the highest that the vendor would bill
  at (`BilledAtHighest`), and each rate of it is what the vendor asks, stand-ins included
  (`WholeTier`). `PricedByTheVendor` adds the lookup: the keys tried are the names of the id
  (`LookedUpByName`), and all of them end as the id does (`NamedByTheEnd`). It assumes that at most one
  entry of the file ends so, under a key that is tried, because with two the code takes the
  first key that hits and the statement would have to say which; and that some entry can be
  priced, because a file without one is refused.
- `TableIsCurrent`, `PricesCurrent` for any workers and any order of refreshes, restarts and
  upgrades. It is inductive with the types alone, because a cache no newer than the snapshot
  says what the snapshot says (`LoadsNewest`).

Not proved, and left to TLC:

- Everything under fairness: close() returns, a record leaves memory, a patient client is
  answered, workers return, a stop ends, an edit takes effect, a login ends. The provers
  have no rule for `ENABLED` that reaches these.
- `TagsTakeEffect` and `BooksAgree`: what they say is the value of several folds over the layers of tags
  and over the rows and their books, one inside another, and an induction over each would be needed
  before the two sides could be compared.

## 5. Where the code and its words differ

One difference is a run that is expected to be violated: `gateway_base_path`. A relayed
request takes its upstream path from `req.url` (pipeline/passthrough.ts:121), which still
carries the mount path when the proxy in front left it on; server.ts:83-85 says that "a
working deployment does not hinge on" whether it does, and test/base-path.test.ts:41-44
expects both forms to be served alike. `EitherWay` is that statement.

The rest were met while modelling. The models contain what the code does, and no property
claims what the words say.

Usage and storage:

- cluster/worker.ts:77-78, "loss is never silent": a record that arrives after close(), at a
  forced shutdown, is in no counter.
- store/db.ts:109-128: a BEGIN that times out leaves the re-entrancy guard set, and every
  later transaction is refused as nested.
- store/write.ts:7, "the rollups can never disagree with the rows": after a full disk the
  loop goes on in autocommit mode and stores a row without its rollups.
- store/db.ts:198, a retry "resumes from exactly there": the version is written after the
  last file only, so a retry meets tables that exist.
- ingest/sink.ts:56-57: a failing batch is requeued every time (133), not "once".
- bin/fest.ts:227-234 and cluster/primary.ts:87: `bus.publish` is given the whole batch although writeBatch may have
  skipped records of it.
- store/queries.ts:808-812: the users page is two reads, between which a commit shows as a
  residual that is nobody's.
- A range of two hours or less reads raw rows: one that is older than raw retention is
  empty although the cube has it.
- store/tokens.ts:178: the last-used flush is not caught, so that a store that refuses once
  ends the process from a timer.

Edge:

- auth/posture.ts:20-25, "whichever position it arrives in, a Fest token is IDENTITY and is never
  forwarded upstream": `detectInbound` takes it out of what counts as a credential, but the
  headers are made from the request's own (headers.ts:68-79), which drops `x-fest-*` alone. A
  token in `authorization` goes upstream beside a key in `x-api-key`
  (test/key-posture.test.ts:48 tests the detection and is named for the forwarding), and one whose
  request names its identity in another place; passthrough.ts:240 holds back only a request
  whose token is the one that identifies it and which has nothing else to pay with. The count of
  tokens, the Codex model list and the Copilot relay hold back nothing.
- http/headers.ts:134-136, dropping the quota headers "makes Fest look like it broke the client's quota
  display": count-tokens.ts:51 answers with its content type alone.
- auth/posture.ts: an `authorization` header that is present and blank does not hide
  `x-api-key`, and goes upstream all the same.

Relay, routing and adapters:

- pipeline/passthrough.ts:468, partial usage is "worth recording": a client that goes while
  its socket is full leaves the handler awaiting a drain for ever (http/pipe.ts:92).
- http/pipe.ts:64, a hang-up "must not leave the upstream request running": a client gone
  before the headers is not noticed.
- routes/watch.ts:28-33, an edit "takes effect" by the poll: an edit whose read fails is
  not read again, because its mtime is remembered before the reload ends (75), until the
  file changes once more.
- README.md:131, "refuse unattributed requests": the substitute path looks a
  token up for attribution only and lets a dead one through (dispatch.ts:109).
- routes/resolve.ts: `evaluationOrder` lists the aliases of a wildcard route below exact
  rules; the routing screen credits every rule that names an id with it; the menu does not
  ask whether the upstream's credential is set.
- adapters/rewrite.ts replaces the first top-level `model` of a body where JSON readers take
  the last duplicate.
- `/fest/<token>` under the base path `/fest` loses its identity segment as if it were the
  mount path.
- usage/responses.ts and usage/chat.ts replace the whole usage where chat.ts:27 says "last-wins
  per field"; in usage/accumulator.ts a flat cache total
  raised after a breakdown is ignored, and a breakdown with only the one-hour part after a
  flat report would be counted beside it.
- http/sse.ts: the flush of an unterminated last line keeps its trailing carriage return.
- usage/cost.ts: the one-hour cache write in a long-context tier without a rate of its own
  takes the base tier's.

Accounts and command line:

- api/oauth.ts:277: the check for an owner and the claim are two statements, and several
  workers may each claim.
- bin/fest.ts:508-510, "the FIRST such account is the owner whatever it asked for": `--role` wins.
- bin/fest.ts:500-506, "An existing user keeps their role unless `--role` says otherwise" and
  "changing a password must change exactly the password": an owner who signed in through a provider
  (api/oauth.ts:277) has no password, which is what "existing" means here (477-482, 517-519).
  A plain `fest admin passwd` on that account finds an owner and writes `admin` over the only one
  (accounts.ts:73-75), which is the outcome the comment was written about.
- bin/fest.ts:508 and 518: the role is chosen before the password is awaited, so that a
  command which overlaps another writes the role it read over what the other wrote.
- cli/codex.ts:121-124 and docs/CODEX.md:10, "force API-key mode on a machine with a ChatGPT login":
  without OPENAI_API_KEY in the environment the client is told to use its own login
  (97-100), and the ChatGPT token goes to the API mount while the notice says that the key's
  owner pays.
- cli/claude.ts:342: the settings files are looked at in the subscription posture only. In the gateway
  posture "org credentials pay" is announced although a file of the machine sets a base URL
  or a credential over the launcher's.
- cli/login.ts: the callback carries no state, so that a tab of an abandoned login may
  answer a later one. A dashboard sign-in does not clear the redirect cookie of an
  abandoned CLI flow either.
- auth/accounts.ts:130-133: the branch that rehashes a password of an older cost is not reachable
  with the costs the code has had.
- `fest tags unset` edits `.fest.json` only, when package.json has the key as well; past
  MAX_TAGS it is the narrower layers' new keys that are dropped.

Dashboard:

- The live screen's total counts cache writes twice (web/src/lib/measure.ts:137 against
  useLiveWindow.ts:94).
- The live window's pulse is off by one at its edge (useLiveWindow.ts:153-159); widening
  the window does not refill it, and the seed asks for 50 rows whatever the window.
- ingest/live-bus.ts: a subscriber that throws is removed and its closer kept, and one that
  subscribes after closeAll() is never closed.

## 6. What is not modelled, and why

- `recent()`, the wording of errors, the log, hashes, cookies, PKCE and the audit log: no
  property here tells them apart.
- Configuration and the outgoing agent: environment parsing and library options.
- Seed data: a generator for demonstrations.
- Pages of the dashboard that present what the API answers: Stats, Users, Admin, Models,
  Errors, Login.
- Benchmarks, the capture server, the canary and build scripts: none takes part in
  serving.
- The Bedrock body and its stream framing, the preflight's wording, and the finding of
  client binaries.
- Several processes over one store are in `Migrations` and `Accounts` only: `Cluster` has
  the primary as the one writer, as the code does.
- Content hashes are assumed not to collide.

## 7. What could follow

- Models: the stats broadcast of the cluster; `closeAll` of the live bus at a shutdown;
  the OAuth flow's cookies.
- "Usage of a request is stored at most once" as one abstract specification over relay,
  sink, channel and primary, with `MessageRelay`, `UsageSink` and `Cluster` under it.

## 8. Running

```
tlc -workers 2 -config UsageSink.cfg UsageSink.tla   # any run: its cfg and module are in PROJECT.json
tlapm RequestProofs.tla                              # any *Proofs module
```
