# Verification of nagg

nagg is a Nostr app-view. It ingests signed events from relays into ClickHouse, derives
read models from them, and serves them over REST and GraphQL. This directory holds TLA+
models of its core, TLC runs over small instances, and TLAPS proofs of the properties that
matter most for all values of the parameters. All paths below are paths of the repository.

- [Parts of the system](#parts-of-the-system)
- [Modules and the code they stand for](#modules-and-the-code-they-stand-for)
- [Runs](#runs)
- [Fairness](#fairness)
- [Proofs](#proofs)
- [What the code does that no run shows](#what-the-code-does-that-no-run-shows)
- [Plan](#plan)
- [Not modelled](#not-modelled)

Check a module with `tlc -config MCFirehose.cfg MCFirehose`, prove one with
`tlapm RelayProofs.tla`. `PROJECT.json` names, for every definition, the lines it models,
and for every property a mutant of the code that breaks it.

## Parts of the system

    relays -> firehose -> channel -> verify workers -> cap -> batch -> InsertEvents
                                                                          |
      requests -> response cache -> GraphQL/REST -> store  <--- nostr_events + views
                        |                             ^                   ^
                        +-> hydration -> relay query -+    retention, rollup, enrichment,
                                                           notifications feed, rebuild

Several processes share one ClickHouse: any number of API processes (with their loops, and
optionally an ingester inside), standalone ingesters, enrichers, and a pre-deploy migrator.
They coordinate only through the tables. Nothing is locked between two processes.

| part | state it keeps | operations | hard behaviour |
|---|---|---|---|
| schema (`clickhouse/store.go`, `schema_reconcile.go`) | ledger of applied files; the schema | apply loop; reconcile | crash at any statement; migrators at once; roll back and forth |
| firehose (`firehose/firehose.go`) | high-water mark per relay; seen-cache; channel | connect, receive, hand over | disconnect mid-replay; eviction; full channel; restart |
| ingest (`ingest/pipeline.go`, `cmd/ingester`) | workers, batch, restart loop | verify, cap, batch, flush | failed and half-effective inserts; panics; shutdown |
| post cap and relevance (`ingest/postcap.go`, `relevance/`) | counter per author and day; exemption set; touch throttle | count, refresh, touch | midnight; bounded maps; restart |
| event tables and app-view (`store.go`, `retention.go`) | raw tables, views, totals | insert, remove kinds, rebuild | starts interrupted between statements; inserts during a rebuild |
| retention (`clickhouse/retention.go`, `rollup.go`) | mutations in flight | count, submit, execute | rows arriving between count and delete; ties; overlap of processes |
| notifications feed (`clickhouse/notifications_feed.go`) | two cursors; readiness | head slice, history slice | failure between a slice and its cursor; cached readiness |
| response cache (`cache/middleware.go`) | Redis entry; two singleflight groups | hit, stale, miss, refresh | overlapping computations; failing leader |
| hydration (`appview/user_feed_backfill.go`) | job registry, cooldowns, collectors | join, run, wait | joining finished jobs; cooldown of a failed one; panics |
| relay query (`relayquery/`) | breaker per relay | fan out, record | deadline against late answers |
| rollup (`rollup/`, `clickhouse/rollup.go`) | derived tables; the end of the last tick | recompute stages in order | failing stages; events that arrive between two; bounded targets |
| gate (`chgate/`), rate limiter | slots; a count per client and window | acquire, release | slots that are not given back; waiting without a deadline |
| enrichment (`enrich/`) | cursor over (created_at, id) | fetch, annotate, advance | crash before the cursor; two runners; late events; clocks |
| Vertex (`vertex/`) | in-flight calls, caches, two tables | lookup, fetch, sync, save | joined calls; panics; answers that overtake each other |
| store reads (`clickhouse/read.go`) | none | filters, pages, aggregates, threads, notifications, feature rows | rows that are there twice or in part; bounded queries put together |
| REST (`appview/handler.go` and files beside it) | none | page, merge, group, order | ties at the end of a page; windows smaller than asked for |
| GraphQL (`graphqlapi/`) | loaders of a request; base pools of the schema | resolve | pools that overtake each other; a key that says too little; batches |
| API process (`cmd/api`) | readiness, loops | start, close | a signal during start-up |

What makes each modelled part correct is stated as properties in its module.

## Modules and the code they stand for

**NotificationsFeed** — `RecomputeNotificationsFeed` and `notificationsFeedReady`. One action
per database call of a tick: `LoadHead`, `ExecHead`, `SaveHead`, `LoadBackfill`,
`ExecBackfill`, `SaveBackfill`; `PartialExec`, `SaveThenDie` and `Abort` are the calls that
fail, with and without effect, and the restarts. Candidates `Arrive` around the clock and
`Expire` by the TTL. `CheckReady` caches the verdict that makes readers use the feed.
`CoverageIsContiguous`: no hole between the cursors. `ReadyMeansServable`: a reader that is
sent to the feed misses nothing that came in time. Time is counted in slices.

**SchemaMigration** — `Store.Migrate`. A process goes `down -> ledger -> apply -> tables ->
columns -> reconcile -> up`. It applies the files that the ledger it read does not record,
statement by statement, then reads the catalogue twice, plans, and executes the plan object
by object. A failing statement ends the process, so it is the same step as a crash.
`Replace` deploys another build. Statements are "create", "drop" or "use" of an object;
their text is data. `SchemaMatchesBuild` (what is declared exists, what is no longer declared
is stripped) is about a settled deployment, `ProtectedSurvives` about every step.

**ResponseCache** — `serveSWR` for one key. A request asks Redis (`GetHit`, `GetStale`,
`GetMiss`), joins or starts a computation (`Compute`, or `Revalidate` in the background), and
a computation reads the store (`Read`), writes Redis (`Store`) and answers everyone who
joined (`Return`). Instants are kept as ages, and `Tick` makes everything a second older, so
the state space is finite without a bound on the clock.

**Firehose** — one loop per relay: `Connect` with `since` from its own mark, `Receive`
(moves the mark, then consults the seen-cache), `Deliver` (blocks on the channel),
`Disconnect`. `Publish` is the relay: it gets the events it carries (`Carries`) somewhat late
or early. It sends what it has in any order, the newest first included. `Crash` loses all but
the tables. `sent` is history: what each relay has sent since the process started. An event is
`Overtaken` when the relay has sent one first that is newer by more than the overlap, and not
beyond the slack for time stamps in the future.

**PostCap** — `overPostCap` with its counter, and the exemption set of `relevance.Tracker`,
which `Refresh` reads from the table that `ViewerSeen` writes. **IngestPipeline** extends it:
`Grab`, `Reject`, `Forward`, `WorkerStops`, `WorkerEnds` are the verify workers,
`Receive` counts and batches, `Send` and `SendFails` are the sends of one `InsertEvents` to
its tables in order, a failing one with or without effect. `StartRun`, `BackoffStops`,
`Shutdown` and `Restart` are the loop around `Run`. The pipeline composes with the cap by
conjunction: the same step that takes an event counts it, and `ForgetCap` happens with the
restart of the process.

**AppView** — `InsertEvents` seen from the tables: `Send` writes one table and, in the same
step, the views it feeds. `Boot` and `RunStatement` walk through the removal of kinds that
are no longer configured (`PruneRemovedEventKinds`) and the rebuild that follows
(`Backfill`), one ClickHouse statement per step. `StatementFails` differs by process: the
standalone ingester logs and goes on, the one in the API does not start.

**Retention** — `RunRetention`: `Begin` looks for a mutation in flight, `Count` counts a
rule's rows, `Submit` sends the DELETE, in each of several processes. `EvaluatePart` and
`MaskPart` are ClickHouse, which evaluates the predicate again for each part, and works on
several parts, and for several mutations, at a time: `Doomed` are the rows of parts that have been
evaluated and are still being rewritten. `Selections` is a set of row sets, because `argMax` may pick
either of two rows with the same time. `Insert` (whose row is in a part that no mutation in
flight visits), `CountReplies`, `Truncate`, `Fill` are what runs meanwhile.

**RelayQuery** — `Client.Query` for several callers that share one `RelayHealth`. `Ask` starts
a goroutine for each relay that the breaker lets through; `Reply`, `GoesQuiet` and
`DialTimesOut` are how one ends and what is recorded of its relay; `GoroutinePanics` sends no
result; `Return` is the end of the collecting loop, when all are in or at the deadline.
`Break` and `Recover` are the relays. **Hydration** extends it: a caller is the job of one key.
`Hydrate` schedules jobs or joins them, `GateOpen`, `FirstReturns`, `Claim`, `AskIds`,
`IdsReturn` and `Insert` are a job's work, `JobPanics` and `InsertFails` end it with an
error, `Close` and `Leave` are the two steps of its deferred function. `Own` keys are those
with a cooldown and a first query of their own (a feed, follows), the others ask for ids at
once (events, profiles). `MarkExpires` is the end of a cooldown, which outlasts the job
that began it. `CompleteMeansStored` is about what a request that was told "complete" reads.

**Enrichment** — `Runner.RunOnce` of every process that hosts a task: `Load`, `Fetch`,
`Process`, `WriteTags`, `WriteMetrics`, `Save`, each a call that may `Fail`, with restarts.
The state row is a ReplacingMergeTree, so that a `Save` stamped earlier has no effect, and a
late one moves the cursor back. `missed` is what was stored when something had already gone
past its place; `NothingSkipped` is about the rest. **Watermark** is the abstract worker with
a persisted cursor that the runners implement (`KeepsWatermark`).

**CachedCall**, **Vertex**, **ApiProcess**, each an extension of the one before.
`CachedCall` is `vertex.cachedCall`: `Lookup` (with the background refresh of a stale entry),
`FetchOnce`, `Ask`, `StoreAnswer`, `FinishFlight`, and `FetchPanics`, which leaves the flight in
the map. `Vertex` has the callers: the profile route and the syncer, which save outside of the
flight; the search provider, which saves inside its singleflight group. `ApiProcess` is
`cmd/api`: `OpenStore`, `StartWorkers`, `SetReady` or `BuildFails` beside a server that
listens; `Arrive` through readiness and rate limiter; the gate (`Acquire`, `QueueExpires`,
`ClientLeaves`, `WorkEnds`, `LoopStarts`, `LoopWorks`, `LoopPanics`); `EndContext`, `Close`,
`Crash`. A deployment says which requests come.

The reads are operators over what is stored, split as the code is, and one module of state:

- **EventQuery** — the events with their tags, and the queries of `read.go` over them:
  `QueryEvents` with its filters and limits, the latest of an author, pages per tag target
  (with both of its plans, `FromTags` and `FromJoin`), and the aggregates. `copies[e]` says
  how often the tag rows of `e` are there: not yet, once, or twice.
- **SocialReads** — contact lists and what comes of them, `/nostr/social-graph`, `user_stats`.
- **ThreadReads** — reply edges and counts, `ThreadEvents`, ranked replies, and the order of
  `/nostr/thread`, as a set of sequences, since the descent returns a Go map's order.
- **Rollup** — `RunOnce`: one action for each statement, from `RecomputeEdges` to
  `SaveRollupState`; `TickEnds` is a failure or a restart at any of them.
- **NotificationPages** — `Notifications`, `notificationsFromFeed`, and the grouping of the
  handler. When the read-model may be read is NotificationsFeed's.
- **FeedPages** — feeds with what they show beside their items, own history, messages,
  filtered queries.
- **RankedFeed** — ranked feeds of GraphQL and REST: candidates and scores, read from
  feature rows, from a pool, or directly; `Miss`, `DoFlight`, `FlightEnds`, `FlightFails` and
  `Expire` are `basePoolCache.getOrCompute` as clients meet in it.
- **EventRelations** — the batched loaders of GraphQL: selected references, who refers to an
  event, chains of replies.
- **Reads** — `Arrive` inserts events one send at a time, some twice; `Rolls` is the rollup;
  `FillFeed` fills the read-model; `ScrollEvents` and `ScrollNotices` are a client that asks
  for page after page while all that goes on; `AskRanked` are the clients of the pools.
  A mode selects a small deployment: which of these happen, with which events.

Each module that has a specification has an `MC...` module with its values, and a `.cfg` for
each run: PostCap is checked with IngestPipeline, RelayQuery with Hydration, CachedCall and
Vertex with ApiProcess, and the modules of the reads with Reads. No run replaces a
definition. The proofs are in `...Proofs` modules.

## Runs

Passing runs:

| run | asks | instance |
|---|---|---|
| `notifications_feed` | does failing or dying anywhere in a tick leave a hole, and does the walker get to its end? | slice 2, overlap 1, history 6, readiness 5, three candidates (older than the first head slice, in it, at the clock), three steps of the clock |
| `schema_deploy` | do interrupted start-ups converge on what the build declares? | three builds shaped after the repository's own files, a deployment of each over an older one, three crashes |
| `response_cache` | is an answer ever older than the policy allows, and is everyone answered? | two requests of one process, one fresh and one stale second, computations of up to a second, any failing |
| `firehose` | does a reconnect skip an event, and does every event arrive? | two relays, one of which carries one event only; three events, two of them a step apart and one further ahead than the overlap; a slack for the future above the overlap, as in the code; a seen-cache and a channel of one, one disconnect, one restart |
| `ingest` | what is left behind when inserts fail, and does the cap drop only what is over it? | two posts of one author and a forged event, limit 1, two tables, two days, one failure, a shutdown, one restart |
| `appview` | can an interrupted start be finished by the next one, and does a rebuild miss an insert? | four events of four kinds, one writer, two starts |
| `retention` | what do mutations delete while rows arrive? | two processes with a loop; seven events: two tied versions in two parts, two `d` tags, a post, its like, a late reply; one insert, and one rebuild, failing query or restart |
| `hydration` | does a key ever stay blocked, and is what readers ask for stored in the end? | a feed whose author reposted `t`, and a request for `t`; two relays of which one has the repost and may go away; one failure of any kind |
| `enrichment` | does a cursor ever pass what was not enriched, and does enrichment go on? | two runners, one with a clock ahead, three events of which one is unusable, batches of two, one failure |
| `api_process` | are slots and flights accounted for, do caches only advance, does every request end? | four deployments with up to three requests, two loops, two slots, two versions of an answer; one failure, one panic |
| `reads` | do two ways to one answer agree, what can a client scroll past, what has a finished tick taken in? | fourteen deployments of two to seven events, see below |

The deployments of `reads`, by their modes: `feed` (a chain of replies with old and new
markers and a repost), `own` (notes and replies of one author), `chains` (replies of an author
to himself, with edges), `dm` (messages to and from two others, a wrap whose tags come late),
`notices` and `model` (reactions, replies and follows that a viewer is told of, grouped or by
both reads), `groups` (reactions to the same notes for a while, with older ones behind them and follows said again), `thread` (replies under replies, with limits of two to five), `rank` and
`features` (a note that is liked, answered and zapped while ticks run), `lists` (contact lists
that replace each other, two of one second), `tags` (events with two targets, delivered
twice), `ranked` (likes and a repost, ranked up or down, boosted, paged or filtered), `pools` (two clients that ask
for three feeds). All constants of the store (limits of 100, 500 or 1000 rows, windows of 120
to 600, depths of 8 to 64) are scaled down to between two and eight, in the order they have in
the code, so that each of them is reached. `MCHeight` is the number of an event, since here events refer to such with smaller numbers.

The invariants of `reads` are groups of named parts. `PagesMissOnlyTies`: what scrolling events,
merged pages of messages and a last page of events may miss. `WaysAgree`: pairs of ways to one answer
(rollup and lists, the bundle of lists and each list, features and scores of the moment, the two
plans of a page by tags, aggregates among each other, and scored within raw counts), as long as no limit is
reached. `GroupsAreWhole`: descent, order and roots of threads, what is shown
beside a feed, the groups and last pages of notifications, the read-model of notifications and the query
for them, and chains by edges and by tags. Each part says up to which limits it holds: a thread has all that refers
to it when each level fits a query's tags and what is left of the limit, in which events that were found before
take room again; a scroll of groups shows all but what its `cut` records, which is each way in which a page
can end it early.
`RelationsAsAlone`: the batched loaders. `RankingIsOne`: transports, pools and their keys.

Violation, of what a comment of the repository says; `PROJECT.json` quotes it.

- `notification_pages`: the handler of grouped notifications asks the store for a window of 120
  to 600 rows and takes it for the sign of further pages that it is full
  (`handler.go:858`-`881`). The store replaces a limit over 100 by 50 (`read.go:1212`), so
  the window is never full, and a page that shows all of its groups has `hasNextPage` false
  whatever is behind those 50 rows. The store of the tests does not clamp.

**Why the bounds are enough.** The windows keep the order that the constants in the code
have (overlap < slice < readiness < history; fresh < hard), since the invariants only compare
them. Each hazard needs one or two failures at one place; where one is given, a second one
only repeats it, since nothing of the first is remembered. Two relays, two requests, two retention loops or two tied versions in two parts are the
smallest number that can interfere. A cache or a channel of one is full and evicts at once. In `reads` at most
one event arrives during a tick and none after the read-model is filled; events of one
deployment are chosen so that two share a second, one refers to another through a third, and
one is stored without its tags or with twice as many. Where a larger
instance could differ (number of processes, events, tables, any window), the proofs cover it.
Bounds on clocks, inserts and failures are constants named in each module (`Max...`).
`CHECK_DEADLOCK` is off in runs where these bounds, or the end of the process, let the model
stop.

Two assumptions narrow runs further, and are in the code's hands: `appview` has `OnDemand = FALSE`
(see below), and `schema_deploy` has one migrator at a time (the pre-deploy step of
`railway.toml`) and no rollback.

## Fairness

- NotificationsFeed: the loop ticks for ever (WF), and a database call that is tried again
  by each tick succeeds some day (SF): outages end. Nothing else is fair; crashes may happen
  at any time that the outage lasts.
- SchemaMigration: the platform starts a process that has exited again, so `Migrate` of a
  process is weakly fair; faults are bounded.
- ResponseCache: goroutines are scheduled, and every computation ends, in success or
  failure: one in the background at its own deadline, another at that of its request.
- Firehose: the relay loops and the consumer run (WF). Handing over is strongly fair, since
  a connection may be lost again and again while the channel is full, and a Go sender that
  waits in a channel's queue is served in order.
- IngestPipeline: workers, `Run` and sends are scheduled (WF); failed inserts are bounded by
  `MaxFailures`, that is, the database comes back. A shutdown is never forced.
- Retention: the loop of each process goes on (WF). ClickHouse executes what it accepted (WF),
  and the evaluation of a part that finds something to delete is strongly fair: with two tied versions
  `argMax` may keep either at each evaluation, and the only thing excluded is that it
  picks the row of the part being mutated every single time.

- Enrichment: the clock runs, and each runner goes on (WF); failures are bounded.
- ApiProcess: initialization, fetches, the syncer and the ends of waiting are weakly fair. The
  gate is a Go channel, whose waiting senders are served in turn, so a request or a loop that
  finds a free slot again and again gets one (SF). Clients and the service owe nothing.
- Reads: ticks begin and end (WF), and a statement that is tried by tick after tick gets through
  some day (SF of the edges and of the counts, each on its own). Events and clients owe nothing.
- Hydration: jobs, the goroutines of a query, deadlines, the ends of cooldowns and of
  backoffs are weakly fair, and readers come back. Failures are bounded by `MaxFaults`, and
  the second half of `HydrationEnds`, `StoredInTheEnd`, is about behaviours in which the relays are up from some time on.

AppView has safety properties only, and of the reads only `RepliesGetCounted` is a liveness
property.

## Proofs

Theorems hold for all constants that satisfy the named assumptions of the module. They are
proved from an inductive invariant, with one lemma or step per action.

**ReadModelProofs**, of what is derived from event rows: NotificationsFeed (`FeedTypes`, `FeedCoverage`,
`FeedReadiness`, `FeedCursorsMonotone`), Enrichment, and AppView (`RemovedGoTogether`, `RebuildsComplete`,
`StartsComplete`).
`CoverageIsContiguous` is not inductive: it says nothing about a
tick that has filled a slice and not yet saved its cursor. `FeedInv` adds `FilledInv` (what
the running tick has filled beyond the cursors), `LocalInv` (how its locals stand to them),
`CursorInv`, and `ReadyInv` (a positive verdict remains true of the cursors as they were).
Readiness then follows because `ReadyLag`, the life of the cached verdict and the overlap
add up. For the app-view tables, `RemovalSoFar` and `RebuildSoFar` say what the statements
of a start that have run leave behind, and `WritersInOrder` that inserts only bring kinds that
stay. That takes no fetches on demand (`~OnDemand`), and `StartsComplete` an ingester that does not
go on after a failed removal (`InProcess`): without either the property is false, see below.

Of Enrichment (`EnrichmentTypes`, `EnrichmentSkipsNothing`, `EnrichmentKeepsWatermark`).
`NothingSkipped` is about the saved cursor only; a slow runner may still save an old one.
`EnrichInv` says of each runner what makes either safe: all is enriched up to where it began,
nothing that its batch goes past is left out of it (`NoGap`, which needs that the stored
events are finitely many), and what it has written is there. Then every step maps to a step
of `Watermark` or to none: a `Save` to `WMove`, a write to `WFinish`, a `Store` to `WOffer`.

**StoreProofs**, of SchemaMigration (`MigrationTypes`, `MigrationKeepsProtected`,
`MigrationStripsUndeclared`, `MigrationMatchesBuild`) and Retention (`RetentionTypes`,
`OneMutationPerProcess`, `LatestVersionStays`, `EngagedPostsAreKept`).
A plan is executed
after others have changed the schema, so the guard has to be a property of the plan:
`PlanKeepsProtected`. Assumption: no file drops a protected table itself
(`FilesAssumption`). That nothing undeclared is left holds for any number of processes and any
history: `StrayInv` says that whatever is there and not declared by a build has a process that will
still come across it before it is up with that build. That nothing declared is
missing (`DeclaredOf`: at each point of a start-up, what is there and what is still to be
created) takes `OneProcess`, `ForwardHistory` and the reconciler: an old process may drop what a
new one has just created, after a rollback the ledger has files whose objects are gone, and
without the reconciler columns that are edited into a file are never added. `ForwardHistory` (a later build has the files of an earlier one, a
file creates the same in both as far as it is still declared, and a file that drops something declared
creates it again) is an assumption on constants, which the run checks of its builds.
Of retention, for any number of processes, parts and mutations at once: `EachInv`, a process
that is in a pass has no mutation in flight; `DoomedInv`, what is going to be masked is a post
or a version that another one supersedes (`SelectedIsSuperseded`), which may itself be gone by
then, so that `LatestStays` speaks of the events ever inserted; `Counted`, outside a rebuild
the engagement tables have every like, repost and zap, and retention deletes none of them.

**ResponseCacheProofs** (`CacheTypes`, `CacheAnswersAreBounded`). `CacheInv` says that the
data of an entry is at most one computation older than its time stamp, that a computation's
read is no older than the computation, and that a waiting request has waited no longer than
its lookup and that computation. Any number of processes and requests.

**RelayProofs**, of Firehose (`FirehoseTypes`, `FirehoseSkipsNothing`) and Hydration
(`HydrationTypes`, `HydrationFetchesOnce`, `HydrationCompleteMeansStored`).
`BehindInv`: an event that is still to be received and was not overtaken is pending on the
open subscription. Nothing is assumed of the relays or of the time stamps. It needs `MarkInv` (the mark is the
time of an event that this relay has sent, and not beyond the slack, so `NotBehind`: it is not
further ahead of an event that was not overtaken than a reconnect goes back) and `SeenInv`: what the seen-cache knows is on its
way, so skipping it loses nothing. Of hydration, a marker expires, so that "who fetches a value has
marked it" is not inductive; that a running job's markers outlast it, and that each is in the
hands of one job, is (`OrderInv`). That what was reported complete is stored holds as long as nothing has
failed (`faults = 0`), and needs for every refused value a job that will store it, or has (`JobsKeep`), and that
a relay which was asked has answered with all it has (`RelaysAnswer`).

**IngestPipelineProofs** (`CapDropsOnlyOverCap`, `CapHoldsPerProcess`, `IngestTypes`,
`IngestNothingHalfStored`, `IngestEndsOnlyOnShutdown`). `CountedInv`: the counter of today is
at most what was let through today. `EntryInv` and `FullInv` carry the cap of a process: who
has an entry was counted from the first post on, and who has posts and no entry came when
there was no room and still is none. The run has one author, so that a full counter is for
these proofs alone. `SentInv`: while an insert is under way, the earlier tables have the whole
batch. `StageInv`: the stage that `Run` reads from keeps all its workers until the shutdown.

**ApiProcessProofs** (`ApiTypes`, `ApiWorkIsAllowed`, `ApiAnswersOnlyAdvance`), of the process with
the callers of Vertex in it. `BootInv` says how far `main` and the initialization are from each
other. A cached answer could be replaced by an older one if two fetches of one key were on
their way at once: `FlightInv` says that whoever fetches is the flight that its cache has, and
`AnswersAreNewest` that what he has in hand is as new as anything stored, at every step up to the store.

**ReadsProofs** (`ReadTables`, `ReadsTypes`, `ReadsTickIsComplete`, `ReadsPoolsOnlyAdvance`,
`ReadsRankingIsOne`, `ReadsPagesMissOnlyTies` and `ReadsWaysAgree` with their parts). The lists that queries give are ordered sets, so that
their elements are found by their places in the order (`RanksArePlaces`, `SortedByRanks`,
`PageOfNewest`, `KeptIsInOrder`) instead of by induction over sequences. `TickInv` says
what each stage of a tick has left for the next of what was stored when it began; arrivals
between the stages add rows, push replies out of the recent ones, and make more notes
engaged, which is why the property speaks of those that are within the limits still. Of pools, `PoolInv`: there is one
computation for a key at a time, and what it has read is no older than the pool it replaces;
`SharedInv`: what is kept or computed under a key is what any request of that key asks for, as long
as nothing has arrived since. `RankIsByCount` needs the order of three limits (`RankedMax`, `DefaultLimit`, `MaxLimit`:
100, 50, 500, in `RankedAssumption`): with more candidates than a query may ask for, the store answers with
fewer, and only since pages that deep start behind those is nothing shown out of order.

That who scrolls misses only ties (`ReadsScrollsMissOnlyTies`, a part of
`ReadsPagesMissOnlyTies`) is not inductive, since it speaks of clients at the end of their
scroll. `ScrollInv` says what holds on the way: of the events that were there at the beginning, all are
still to be shown (`SubjectGrows`; arrivals only add, and tags that come late only add), those not
older than `until` were seen or share their second with the end of a page, and the ids that the next
request leaves out are no older than its `until`. A page keeps it because a query answers with the newest that match (`FirstPageIsTop`), so that
what it leaves out is no newer than its oldest (`LeavesOlder`); for messages, two queries cut at the
same number are merged, which is the newest of both together (`MergedPages`). The last part, that a page without
a next one has everything, is that a page with fewer rows than were asked for leaves nothing out.
`ReadsTypes` needs, beside the tables, what each client is waiting for (`ClientTypes`, `PoolInv`):
that the time with which a page of notifications ends is a time of a stored event takes the
groups of a page apart (`GroupsEndInTime`). Assumptions: the limits are numbers, no default is over its
maximum, and a page of messages asks for no more than any query may (`FeedAssumption`, `NoticeAssumption`: 200 of 500).

`ReadsWaysAgree` is put together from six theorems of pairs. Three are about rows that ticks leave.
`RealInv` (`ReadsRealWithinRaw`): a row of scored actors was right when it was computed, and since then
more has only been done; a feature row has both sides of one moment. `FollowInv` (`ReadsFollowCountsAgree`): once the
statistics are computed and nothing has arrived since the tick began, the rows of all who were
touched are those of the lists. `NowInv` (`ReadsFeaturesAgree`) says the same of engagement and feature rows, and
needs that an event delivered again changes neither who engaged nor with what (`EngagedStay`), though
it does change the counts of rows. The others are about one moment and hold whatever is
stored: the social graph (`ReadsSocialGraphAgrees`), the counts by tags (`ReadsCountsAgree`), and a page
by tags (`ReadsByTargetsIsPage`), where what the scan finds for a target is the front of the newest that refer to it
(`IsFront`, `FrontPage`), shorter only by the copies of rows that took a place (`FewerCopies`).
Premises of the properties, not of the theorems: no more refer to a note, and no more ids are to be
fetched, than one query looks at (`MaxLimit`, 500), beyond which the ways do differ. Assumption: `None` is
no row of statistics (`RowAssumption`).

**ReadsWalksProofs** (`ReadsGroupsAreWhole`, put together from eight theorems, and `ReadsRelationsAsAlone`) extends it
with what the code walks step by step: threads, chains, roots, references. Such a walk is a recursive function over the
rounds. The library's induction rules take an operator, which the provers cannot instantiate; instead, a set of
numbers that has 0 and with each the next has all up to the last (`UpTo`), for otherwise there would be a least one outside
(`LeastNumber`, by the places of a finite order). With that a recursive definition is shown to have its
function (`IsWalk`, `WalkExists`, `RecursionIsWalk`), and each walk gets an invariant of its rounds, as an action has one of its steps:

- `RootInv` (`ReadsRootsAreOnChain`, `ReadsFeedIsHydrated`): after d rounds the root of an event is at most d hops
  up its own chain, and exactly d as long as something is pending. `AloneInv` is the same for an event that is alone on its page.
- `ThreadInv` (`ReadsThreadHoldsReplies`): what was found is within d levels and within the limit, and all of
  the levels when each of them fitted. `ReadsOrderIsComplete` then needs that merging keeps each reply once.
- `GoesDown` with `EdgeInv` (`ReadsChainsAgree`): both ways to a chain take the same next reply, since an author's
  earliest child among the edges is the earliest among the tags when no edge is missing.
- `RoundInv` and `AfterRound` (`ReadsRelationsAsAlone`): in each round the batch has fetched all that any
  of its events stands at, so that an event takes the same step as it would alone, although other events keep the batch going.

That a walk never comes back, which the code guards with sets of what it has visited, is needed to see that these
guards never cut a walk short. It comes from `ReferenceAssumption`: references have a `Height`, because
an event's id is a hash of its content, the ids it refers to among it, so that nobody can refer to what is not there yet.

`ReadsGroupsSkipOnlyTies` has an invariant like that of the other scrolls, `GroupInv`: an event that was there at the
beginning has had its group shown, shares its second with the end of a page, or is older than `until` and
no follow, or else the scroll was `cut`. For a page: its rows are the newest of what the query has room for
(`RowsAreNewest`), so what it leaves out is no newer than its last group, and neither are the rows of a group that it has and does not show.
`ReadsNoticesPageIsLast` and `ReadsReadsAgree` compare the window of the query with that of the
read-model, and hold when the rows that are asked for fit.

Assumptions that these theorems add, all true of the constants in the code: a feed's page with what it
reposts is no more than a query may ask for (`2 * FeedMax <= MaxLimit`, 100 and 500), there is at least one hop to a root, windows are
in order (`LegacyMin <= LegacyMax`, 400 and 4000), and the limits of threads and chains are numbers with their
defaults within them (`ThreadAssumption`).

Only model-checked: all liveness properties, since fairness and ENABLED are beyond the prover. Every invariant
that a passing run checks is stated by a theorem. The other way round, the types of the
modules with proofs, `CursorsMonotone` and `EndsOnlyOnShutdown` are left to the proofs.

## What the code does that no run refutes

Met while modelling; each is visible in the module named. Where a property excepts the case, the
run reaches it.

- NotificationsFeed: a candidate that arrives later than the overlap of ten minutes in the
  region the head has passed is never copied to the feed (`late`). The properties except it.
- SchemaMigration: the ledger outlives what it records. After a rollback the older build skips
  files whose objects the newer build's reconciler has dropped, and the reconciler creates no
  tables, so that a declared object stays missing, although "the CREATEs above ensure declared
  tables/views exist" (store.go:537). `Deployable` with a pair of builds in both directions
  shows it.
- ResponseCache: under the zero-stale policy a refresh joins a computation in flight, which
  may have read the store before the refresh came, although "a refresh always recomputes, so a
  new message is never hidden behind a stale read" (middleware.go:268).
- Firehose: relays usually replay newest first. The first event moves the mark to the newest,
  so that a connection lost during the replay resumes five minutes before that and skips
  what the relay had not sent yet, although a reconnect is to resume "where the subscription
  left off" (firehose.go:65). `ReconnectSkipsNothing` and `PublishedIsConsumed` except such
  events (`Overtaken`); without the exception both fail.
- Firehose: a time stamp up to ten minutes in the future moves the mark (firehose.go:146), but a
  reconnect goes back five minutes only (firehose.go:174), so events of the last
  minutes can be skipped. They are overtaken, too.
- PostCap: a restart gives each author the limit again (`CapPerProcess` counts it). A failed
  insert of a touch leaves the viewer unrecorded for the hour of the throttle.
- AppView: with `OnDemand = TRUE`, a fetch of a removed kind may insert tags between two
  removal statements; their event row goes, they stay, and no later start finds them. A
  standalone ingester consumes also after a failed removal. A rebuild interrupted after its
  truncations is not resumed. A receipt inserted again counts again in `note_zap_totals`.
- SchemaMigration: two processes that migrate at once can both apply an unrecorded file;
  the statements are idempotent one by one, but a DROP and CREATE of one process can fall
  between those of another. While 006 re-creates its view, the old process's events get no
  candidate row.
- Retention: two processes both find no mutation, count for minutes, and submit one each
  (retention.go:265), although there is to be "AT MOST ONE partition-scoped mutation at a time"
  (retention.go:230, rollup.go:159); `railway.toml:7` describes replicas of the API. The run
  has two processes and reaches two mutations in flight, also of different rules; what holds
  is one for each process (`OneMutationEach`).
- Retention: "ties on created_at keep one arbitrary winner" (retention.go:172) does not hold
  for versions in two parts that are evaluated at once: `argMax`, evaluated for each part,
  may keep in each the version of the other, and both go. `LatestStays` excepts ties.
- Retention: a like that arrives when the part of its post has been evaluated and is being
  rewritten does not save the post. `EngagedKept` speaks of the evaluation.
- Retention: a direct reply that arrives older than the recent window is never counted, so
  its parent can be deleted, although docs/retention.md:64 keeps posts with any direct
  reply. A rule that always has enough rows starves the later ones as long as inserts go
  on. During a Backfill posts look unengaged, and a mutation deletes them.
- RelayQuery: a relay whose dial hangs ends with the query's own deadline. Whether its error
  is still collected is a race of two ready channels (relayquery.go:68-82), which the deadline
  mostly wins, so the breaker rarely opens for it and each query waits its whole timeout.
- Hydration: while a cooldown runs, a request is told "complete" although the attempt that
  began it failed. `BackfillEvents` and `BackfillEngagement` ask for profiles without
  marking them. `tryBackfillEnrichment` (handler.go:2171) waits without a deadline for
  goroutines whose panic sends no result. A level of a thread with more than 80 new ids is
  cut to 80, and the rest is never expanded (`takeUnvisited`).
- Ingest: an event that the database always refuses keeps its batch from being inserted. A
  shutdown during an insert or a backoff loses the batch; `NAGG_SINCE` asks for it again.

- Reads: `until` is exclusive and pages are cut by rows, so events of the second a page ends
  with are skipped by who scrolls (`ScrollMissesOnlyTies` excepts them). own_history.go says
  that `until` is inclusive; a page of the authored or the replied notes can be empty, with no
  time to go on from, when its rows were all of the other type.
- Notifications: docs/notifications-flow.md:178 calls it the reliable sign of the end that a page adds nothing new.
  A page has the newest groups before its time, known ones included (`handler.go:1044`): two notes that are liked again and again
  fill pages of two, and a group behind them is cut off; fifty newer reactions to one note fill the
  whole window. `ScrollNotices` records it as `cut`. The follow group is to be "pinned to the top of the first page"
  (handler.go:883), but it is sorted among the others by its time and can be cut off, and later pages do not fetch it. When the follows are the last item of a
  page, its time skips what is newer. Follows of one actor are one row (read.go:1433), so an ungrouped list
  has the oldest of them only (`NoticesPageIsLast` says so).
- Social graph: one query of the default limit of 50 is for three kinds; fifty newer contact
  lists push the mute list out.
- Rollup: `note_zaps` has who signed the receipt, not who paid, and zaps of the author to
  himself count, although "each metric" is to leave the author out (rollup.go:242). An event
  that is inserted again has its tag rows twice: counts of rows and sums of sats double,
  counts of actors do not. Replies that arrive older than the window of 48 hours get no edge.
- Ranked feeds: a pool is to hold the top candidates and its key to leave out what belongs to a
  page (schema.go:1823, schema.go:1856), but limit and offset are part of the key by way of the
  two limits that the input is parsed to, so that each page has a pool of its own, of as many
  candidates as the page needs, and consecutive pages overlap or skip. `getOrCompute` does not
  look again when its turn comes, and a leader that goes away fails all who wait. Over 500
  ids `QueryEvents` answers with 50. A target may have an `offset`, which leaves out the newest
  candidates; as many rows are then looked at as candidates are left, and those beyond come
  after them by time, not by count (`RankIsByCount` excepts such requests).
- Reply chains: edges take the first `root` tag when there is no `reply`, the live walk any
  first tag; only edges leave out quotes (`ChainsAgree` excepts both).
- Roots: `rootEvents` ends when all that it still looks for was fetched before, so the root of
  an event depends on what else is on the page. The root that the last of the eight hops finds is named but
  not fetched, so it is shown without its event (`FeedIsHydrated` excepts it).
- Threads: events that were found before are found again by a later level and take room of its limit, so that a
  thread can end before its limit is reached. Beyond 100 events in one level the rest is not followed; the order of what is not
  ranked is that of a Go map, so that pages by offset may overlap.
- Vertex: a fetch that panics leaves its flight in the map, and the syncer, which has no
  deadline, waits for it until shutdown. The notifications and retention loops lose their slot
  of the gate when they panic.

## Plan

Written in this order, the most central first: NotificationsFeed, SchemaMigration,
ResponseCache, Firehose, PostCap and IngestPipeline, AppView, Retention, RelayQuery and
Hydration, Enrichment, ApiProcess with Vertex, the reads. Next:

1. **Hydration, the rest** — the collectors of threads and conversations with their limits,
   engagement and profiles as further rounds of claims, and batches.
2. The composition of Firehose, IngestPipeline and AppView, as an implementation of one
   abstract statement: an event published in the window is eventually visible in every view,
   once.

## Not modelled

Signature checks and parsing (data); recency, contribution scores, sums of sats and the shuffle
of ranked feeds (each adds a number to a score, as the terms that are modelled do); profile
search and profile rows; the text of SQL queries and what ClickHouse does with them beyond the
statements named; the shape of responses, GraphQL's schema and the counters of a request's
budget for hydration; mint reviews and the auditor's client (one query or one snapshot, sorted);
the cache of NIP-05 names; configuration, capabilities, memory limits, logging; and the
command-line tools, which are sequential programs for an operator.
