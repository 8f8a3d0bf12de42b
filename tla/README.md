# A TLA+ development of openproject-mcp

openproject-mcp is an MCP server for OpenProject. It has a *pull* side, tools that
call OpenProject's REST API, and a *push* side, which takes OpenProject's webhooks
through Kafka into a cache the tool `get_recent_events` reads. This directory models
the parts of it whose correctness depends on order, failure and concurrency, checks
them with TLC and proves the most important properties with TLAPS.

Paths below are relative to `apps/mcp-server/src/openproject_mcp_server/` unless
they begin with another directory of the repository.

## Inventory

| component | state | operations | interacts with |
|---|---|---|---|
| Events cache, `webhooks/events_cache.py` | `_store` (ordered by last touch), `_by_project` (ids by arrival) | `put`, `get_recent`, `clear`, `size` | filled by the replay consumer, read by the tool |
| Replay consumer, `webhooks/consumer.py` | poll task, Kafka client's positions, group's committed offsets | `start`, `_poll_loop`, `stop`, CLI | topic, cache, lifespan |
| Webhook route, `webhooks/ingest.py`, `routes.py`, `hmac_validator.py` | module handle `_producer` | `ingest`, `set_producer` | OpenProject (posts, retries), producer |
| Payload readings, `ingest.py` and `consumer.py` | none | `_extract_event_key`, `transform_raw` | the same bytes read twice, by two tasks |
| Kafka settings, `webhooks/kafka_client.py` | none | producer and consumer settings, IAM tokens | Kafka clients |
| Transport and lifespan, `transport.py` | producer, consumer, process | `_lifespan`, routes, SSE sessions | uvicorn, Kubernetes |
| API client, `api_client.py` | per call: attempt, last error | `_make_request_with_retry` and its wrappers | OpenProject REST API |
| Tool dispatcher, `server.py` | `api_client`, metrics | `handle_call_tool`, `main` | MCP sessions, tools |
| Tools, `tools/*.py`, and validation, `tools/_validate.py` | none | one handler per tool | API client, cache |
| Configuration, tracing, metrics | settings; a once-only flag | `setup_tracing` | |
| Seeder, `scripts/seed-openproject.py` | what it has seen and made | `seed_rest`, `emit_webhooks` | OpenProject and its other users; Kafka |
| Deployment (`terraform/`, `helm/`, `k8s/`, `istio/`, ...) | | | several replicas, restarts |

What is hard here, and is listed line by line under `hazards` in `PROJECT.json`:

* **Two structures, one truth.** The cache's store and its project index are updated by
  different branches; a bump touches one and not the other, also when the event has moved
  to another project.
* **Put, then commit.** Between the put and the end of `await commit()` the process may
  end, the commit may be lost, refused or in doubt, and a rebalance may give the
  partition to another replica. Kubernetes runs two to five replicas in *one* group.
* **202 before the broker knows.** The route answers when the record is buffered; the
  producer's task delivers it later, and the process may be killed or told to end.
* **One event, read twice.** Route and consumer parse the same bytes with different
  code, and order within an event id depends on their agreement.
* **Retries of writes.** A request that timed out may still take effect, and a write that
  took effect may end in an error because the body of its success cannot be read.
* **One dispatcher, two ways to start it.** `main()` makes the API client the handlers
  read from a global; the http transport starts without `main()`. Calls end at once, with
  an answer, by an exception, by cancellation, and some are under way at the shutdown.
* **A script over a system others use.** The seeder learns page by page what exists, while
  other people and other runs of it add to it, and it is run again after it failed. It
  tells its own projects by a prefix others may use, and takes every 422 for a duplicate.
* **Checked here, written there.** The tools check arguments, tool by tool; they and the
  API client paste them into URLs, links and filters.

For each component, what makes it correct: the cache holds exactly the most recent
events, within its capacity, each reachable by its project; the group's offsets cover
only what was dealt with and never go back; what the route accepts is kept until it is
delivered, what it refuses leaves nothing behind; updates are not lost and results are
true; each tool call is counted once and its answer can be relied on; what is written into
requests has been checked; the seeder keeps to projects with its prefix and leaves out none
of its own but those OpenProject refused; every call, record, run and orderly shutdown comes to an end.

## Modules

| module | models | |
|---|---|---|
| `CacheOps` | `events_cache.py` as operators on a cache value | no state |
| `EventsCache` | one cache with `Put`, `GetRecent`, `Clear` | extends `CacheOps` |
| `RecentEvents` | what the cache promises: a feed defined by the history of puts | abstract |
| `EventsCacheHistory` | `EventsCache` with that history; `ImplementsFeed` | refines `RecentEvents` |
| `ReplayConsumer` | the consumers of all replicas, their group, the topic, their caches | extends `CacheOps` |
| `Payload` | the two readings of a body | no state |
| `Ingest` | route, producer, lifespan, OpenProject's retries, broker outages | extends `Payload` |
| `Pipeline` | every server process with both: from a post to the replicas' caches, and the lifespan around them | composes `Ingest` and `ReplayConsumer`; refines `ReplayConsumer` |
| `RemoteCall` | what the API client promises a tool: no attempts, no status codes | abstract |
| `ApiClient` | concurrent writes through the retry loop | refines `RemoteCall` |
| `Tools` | the tools' checks and the API client's methods as tables | no state |
| `ToolServer` | one process: transport, dispatcher, calls, counters, shutdown | extends `RemoteCall` and `Tools` |
| `Seeder` | concurrent and repeated runs of the seeder against one OpenProject | |
| `MC...` | values of the constants for TLC | |
| `CacheOpsProofs`, `EventsCacheProofs`, `ReplayConsumerProofs`, `IngestProofs`, `ApiClientProofs`, `ToolServerProofs`, `SeederProofs`, `PipelineProofs` | theorems | |

Definitions keep the source's names where they can. Definitions introduced as
"Mutant of X" are plausible bugs of X; `PROJECT.json` says which property each violates
when it takes X's place. They are used by no specification.

### The cache

A cache is a record of two fields. `store` is the OrderedDict as the sequence of its
events, the next to be evicted first; `byProject` is the index, without keys for empty
lists. Every method holds an asyncio lock and does not await inside it, so `put`,
`get_recent` and `clear` are one step each. `occurred_at` is a string compared
lexicographically; the model has numbers, 0 standing for the empty string and for
`since=None`, which both admit all events. `get_recent`'s loop over the reversed list is
`Recent`: its n-th event is the one at the n-th place from the last (`NthLast`) among those
the loop does not skip (`Hits`).

`RecentEvents` knows no cache. It has the history of puts and says which ids are held
(the `Capacity` ids put last, each with its last version) and which answers a query may
have. `EventsCacheHistory` adds the history to the cache, and `ImplementsFeed` checks
that every behaviour of the cache is one of the feed's.

### The replay consumers

asyncio switches tasks only at an await that really waits. Taking a record and putting
its event is one step (`Consume`), since `await cache.put()` never waits; `commit()` does
wait, and `FinishCommit` is its end, successful, failed or refused. A `Stop` in between
is `stop()` or the end of the process, with the commit in doubt; the cache goes with the
process. `commit()` without arguments stores the positions of all the client's partitions,
so a request has an offset for each.

Kafka is not in the repository. The model has of it what the code relies on: a group
coordinator that reassigns partitions (`Rebalance`, eagerly: all positions are looked up
again and a commit under way is fenced), committed offsets, and `auto_offset_reset`,
which only matters to a group without one. `handled` and `missed` are history: what
each replica dealt with, and what a reset to `latest` passed over and nobody has dealt with since.

### The route

`Post` is `ingest()` up to `await send()`: signature, JSON, producer, key, in that order,
each with its status code; an exception nobody catches is a 500. `SendReturns` buffers the
record and answers, `SendRaises` answers 503. The producer's own task delivers (`Deliver`)
or gives up after an outage (`Expire`). The lifespan is `Start` (with or without a
producer: a failure to start is logged and the server serves), `Drain` (uvicorn takes no
more requests), `BeginFlush` (no request left: `set_producer(None)` and `producer.stop()`),
`Exit` (the buffer is empty). `Crash` may come at any time. OpenProject, or the gateway
(`istio/virtual-service.yaml` retries after 10 seconds), posts again what was not answered
with 2xx. A *request* is one post of a webhook; `GiveUp` is the end of waiting for its
answer, of which the route learns nothing, so that several requests of one webhook may be
under way at once and the answer to an old one reaches nobody (`Hears`).

A body is a record of the shapes the two parsers tell apart: fields that are missing,
null, 0, empty or a name; a project that is missing or no object; JSON that is no object;
bytes that are no JSON or no text; a name that has no UTF-8 encoding (`Surrogate`). Its
signature matches, differs, or is one `hmac.compare_digest` raises on because it is not
ASCII (`SignatureRaises`), which no handler catches. `FirstOf` is Python's `a or b or ...`, `Null` is the
string `str(None)` yields.

### The push path as a whole

`Pipeline` has the variables of `Ingest` and of `ReplayConsumer` but for the topic, which
is one: `Route` writes bodies into it, `Group` reads them as events, through
`transform_raw`. `ReplayConsumer` takes an event from anywhere (`Produce`), as long as it
is in the partition its id belongs to; in `Pipeline` what is produced is what the route
took. The lifespan joins the two: `Start` starts the producer, then the consumer, each of
which may fail alone; `BeginFlush` stops the consumer, then the producer; `Crash` is the
death of both. The group's answers need the broker, and the consumer subscribes to
`ConsumerTopic`, a setting, whereas the route sends to a constant. `ImplementsGroup` checks
that every behaviour of this is one of `ReplayConsumer`: nothing the route or the lifespan
does breaks what the consumers were shown to rely on.

### The API client

Each call has its attempt and waits, sleeps or has returned. A request is in `travelling`
until OpenProject deals with it, whether or not anybody still waits: that is how a late
request takes effect after its retry. `Escape` is what the retry loop does not catch, and
`Cancel` the cancellation of the call, which nothing catches either. OpenProject carries
out an update only if its lockVersion is current; `Refused` (422) stands for every client error
without a meaning of its own (401, 403, ...). Delays are arbitrary.

The histogram observes a success before the wrapper reads the body. `ResultsOf` is what the
wrapper makes of an answer: a success whose body is no JSON raises ("unreadable"), except
that of a deletion, which is not read. So a tool may be told of a failure although the change
was made and counted, and `ClearAnswersAreExact` and `MetricsAgree` say that this is the only
such case in which every attempt was answered truly.

`RemoteCall` is what a tool may rely on: a call that succeeded was carried out, and no call
is carried out more often than it was sent. `ImplementsRemoteCall` maps a waiting or
sleeping call to `open`, and a returned one to `succeeded` or `failed`.

### The tools and their server

`Tools` has two tables. `Handlers` lists for each tool the checks it makes before it calls
a method of the API client (a field, how it is read, and whether it is looked at always,
if it is given, or if it is not null), the method, and the arguments it pastes into links.
`Methods` lists for each method its HTTP method and the arguments it pastes into the URL or
into a filter. Tables are joined with an operator of the module's own, `++`, because the
provers cannot expand TLC's `@@`. An argument is a record of its kind, its length and, if it
is a number, its value (`ArgumentShape`); `ValidId` and `ValidText` are `tools/_validate.py` on those.

`ToolServer` extends both. `Begin` is `handle_call_tool` up to the handler's first await
that really waits: unknown tools, refusals, a missing API client and `get_recent_events`
are answered in that step (`Immediate`), all others send a request (`RemoteCall!Send`).
`Finish` is the rest of handler and dispatcher; `Cancel` ends a call that waits. `Boot` is
`_entrypoint`: `stdio` makes the API client and probes OpenProject (`Probed`), `http`
serves without one, and only `http` starts the consumer (`EventArrives`). `Interrupt` and
`Close` are the end: `server.run()` does not return while a call is under way, because the
MCP library runs calls in a task group, and `main()` closes the API client after it.

### The seeder

A step of `Seeder` is one request with its answer. A run lists the projects page by page
(`ListPage`), asks for those it has not seen (`CreateProject`: made, or answered 422, because somebody
else was faster or for a reason of OpenProject's own, which the script does not tell apart;
`ProjectDenied`: another error, which is printed), takes the projects it made, or those of
the first page whose identifier begins with `bench-` (`TakeOwn`, `FetchProjects`), and
attaches work packages to them at random. Others' projects are `Foreign`; the identifiers of
some begin with that prefix, too (`Lookalike`), be they somebody's own or left by a run that
made more. `denied` and `skipped` are history: what a run was refused, with and without a word. `Abort` is an exception nothing catches, or a signal; the
request may have been carried out. The key and the Kafka half of the script are left out.
The offset counts projects, as the script takes it to.

## What is checked

| run | constants | shows |
|---|---|---|
| `cache_feed` | 4 ids, one with 2 versions, 5 puts, capacity 2 | capacity, exact and complete index, answers match their query, store is the recent history; the cache implements `RecentEvents` |
| `replay_group` | 2 replicas, 2 partitions, 2 records, 1 stop, 2 rebalances, 1 poll error | commits covered, offsets never go back, readers not behind |
| `replay_fresh` | 2 replicas of either reset mode, capacity 1, 3 records (poison, and two versions of an event in different projects, among them), 1 stop, 2 rebalances | caches fresh when caught up unless a newer version was passed over by a reset or given to another replica; no stored event off every list |
| `pipeline` | 2 servers, 1 webhook with 2 possible bodies, 2 partitions, 1 death, 1 outage, 1 poll error, 1 answer not waited for, fairness | only signed events in a cache, an accepted one is seen or lost in one of the named ways, shutdowns end; implements `ReplayConsumer` |
| `ingest_delivery` | 2 servers, 2 webhooks, 6 bodies, 2 partitions, 2 attempts each, 1 death, 1 outage, 1 answer not waited for | accepted is kept, refused leaves nothing, only checked records, one event in one partition, no request without producer |
| `api_calls` | 2 calls, 2 retries, fairness | no lost update, results and metrics are true, every call returns, the client implements `RemoteCall` |
| `seeder` | 2 runs, 2 projects, 1 work package, 2 projects of others (1 with the prefix), pages of 1, 1 refusal (422 or another), 1 abort, fairness | no project of others without the prefix gets work packages, one with it only from a run that made none; success leaves out only what was refused or passed over; every run ends |
| `tools_calls` | 2 calls, one of every tool with at most one faulty argument of 6 shapes, the other one of 13 requests, 2 sends, fairness | each call counted once, answers are true, what is written is checked, the client outlives its calls, shutdown ends |

Four more runs, listed below under "Where documents and code disagree", show what a
document promises and the code does not do.

The bounds (`MaxLog` counts the records of the topic, `MaxDowns` the stops of a replica,
`MaxRebalances`, `MaxPollErrors`, `MaxAttempts` posts of one event, `MaxDeaths` of server
processes, `MaxOutages`, `MaxGiveUps` answers not waited for or lost, `MaxHistory` puts, `MaxRetries` as a
parameter of the code, `MaxSends` of a tool's request, `MaxRuns` of a seeder, `MaxRefusals`,
`MaxAborts`)
are enough for the cases that matter. An eviction, a bump of an event that is next to be
evicted, and a put of an evicted id fit in capacity 2 and five puts. An event is moved between
projects, in both directions, when a restarted replica reads its old version again. A stale commit needs
one replica that waits and another that reads on, hence two replicas, two records and a
rebalance; a commit that names a partition that has moved needs two partitions. A
duplicate needs two attempts and one answer that is not waited for. A project counted as
existing that is not needs a page that shifts or a second run, which may be the other
seeder's after the first has ended, since a run keeps nothing from another; one attached to
although somebody else's needs a first page with one of the others' projects. In the pipeline one webhook is enough to lose an event in every way, at
a producer, a broker, a poll task or a process; what many records do to each other is
checked in `ingest_delivery` and `replay_group`. A lost update needs two calls that read
the same version, one of them sent again; two tool calls are one that is under way
and one that is answered or cancelled meanwhile. The six bodies are a good one, one
whose signature differs and one whose signature is not ASCII, two that
`_extract_event_key` raises on, by their shape and by their encoding, and one whose id
stands in another field. Runs with `CHECK_DEADLOCK FALSE` have an
environment that stops when its bounds are used up.

Symmetry is used for the replicas of `replay_group` and `replay_fresh`, which are
interchangeable in all they check, and in no run with a liveness property.

### Fairness

`Pipeline!Fairness` says that the event loop runs a task that is ready, that an await on
the network comes back with one result or another, that the coordinator reassigns the
partitions of a member that has gone, that Kubernetes starts a process again (deployments
have restart policies) and that outages end. Fairness is per task (a server's lifespan, its
producer's sender, its poll loop), since the loop runs the task and not each of the ways it
may go on. `ApiClient!Fairness` says that timeouts pass and sleeps end; what it yields, that
every method returns, is the fairness of `Finish` in `ToolServer!Fairness`, beside a start-up
probe that returns and a finally clause that runs. `Seeder!Fairness` says that a request is
answered or its timeout of 30 seconds passes. Nothing makes a commit succeed, a client
start, a request be carried out, OpenProject post, a process stop or a run begin.

### Where documents and code disagree

| run | the document says | the code does |
|---|---|---|
| `replay_full` | `--from-beginning` is a full replay | the group's committed offset wins |
| `ingest_loss` | at-least-once | a 202 is given before delivery; a killed process loses the event |
| `tools_http` | the hosted server calls OpenProject for its tools | the http transport makes no API client; all tools but one answer that there is none |
| `seeder_again` | the seeder is idempotent for projects and work packages | each run makes its work packages again |

Some smaller disagreements are visible in the definitions and have no run of their own:

* `get_recent` is to return the events of a project (`events_cache.py:79`, `:39`); `Touch`
  leaves an id that is put again under another project on the old project's list, so the
  old project's query returns it and the new one's does not. `AnswersMatchQuery` is checked
  for ids that keep their projects; of the others `CachesReachable` says what is left.
* A comment at `scripts/seed-openproject.py:113` takes a 422 for a duplicate identifier;
  `CreateProject` passes over every 422 in silence, so a run can print no error, return 0
  and leave a project out. `SuccessMeansSeeded` excepts what was so `skipped`.
* `transform_raw` returns None "so the consumer can skip + commit" poison
  (`consumer.py:34-36`); `Consume` skips it without a commit, and a restart reads it again.
* `apps/mcp-server/docs/kafka-replay.md:55-59` offers a replay Job that "doesn't disturb the serving pod";
  it joins the same group, so it takes partitions from the pod (`Rebalance`) and fills a
  cache of its own, which ends with it.
* The rolling restart of the same document runs replicas of both reset modes in one group.
  While nothing is committed a rebalance may reset a partition to its end for one replica
  and to its start for the next, so a cache can keep a version although newer ones exist:
  those the reset to `latest` passed over are what `StaleOnlyIfMoved` excepts (`Spared`).
* The seeder returns 1 for "no projects to attach WPs to" although bench projects exist, if
  none is on the first page or that page could not be read (`FetchProjects`).
* Events the seeder emits straight to Kafka have neither `_embedded` nor a time
  field the consumer reads: they enter the cache for the project "unknown", without a time.
* `docs/architecture.md:107` has the route fall back to 503 when Kafka is unavailable;
  `SendReturns` answers 202 as long as the producer has room in its buffer.
* The docstring of `ingest()` lists 202, 400, 401 and 503; `Refusal` is 500 for a signature
  that is not ASCII (`compare_digest` raises TypeError, which is no InvalidSignature), for
  bytes that are no text (UnicodeDecodeError is no JSONDecodeError) and for JSON whose shape
  or whose key's encoding `_extract_event_key` does not expect (`KeyRaises`).
* The same docstring has 400 for a producer that is not initialized; `Refusal` is 503.
* A comment at `api_client.py:70` says that HTTP errors other than 429 are not retried;
  `raise_for_status` raises inside the try block, so `Receive` retries a 5xx.
* `docs/observability.md:64-65` reads `tool_calls_total` as the error rate by tool; handlers
  return errors as text, so `OutcomeOf` counts them, and cancelled calls, as successes.
* `get_recent_events` is offered under both transports, but only the http lifespan starts
  the consumer: under stdio it answers "no events" for ever (`EventArrives`).
* `get_projects` sets one filter parameter twice: a name filter replaces a status filter.
* `validate_input` tests for emptiness before it removes characters, so a text of nothing
  but such characters comes back empty (`ValidText`).

## What is proved

All theorems hold for every value of the constants; the assumptions are the named ones in
the modules, and `StableProject` where it is stated.

* `EventsCacheProofs`: `TypeCorrect`, `StaysBounded`, `StaysReachable`, and, assuming
  `StableProject` (an event id always names the same project, which the code does not
  enforce), `IndexStaysExact`, `AnswersAreRight` and `CacheIsFeed`; without it,
  `StoreIsHistory`, beside the first three. Type and capacity are inductive together, because
  one round of eviction per insertion is enough only in a cache within bounds; the index
  is exact only with both. The work is in `CacheOpsProofs`, which says what each operator
  does to a cache value (`TouchProperties`, `InsertProperties`, `EvictProperties`,
  `PutProperties`, `PutElements`) and to the order of its lists (`PutOrder`,
  `PutListOrder`); the proofs about every module with a cache rest on it.

  `StoreIsHistory` is about order: `HistInv` says that a stored event is the last put of its
  id (`ShownIsLast`), that the store is ordered by these last puts (`LeastRecentFirst`), and
  that each id that was put and is not stored was put before every stored one, in a full
  store (`MissingAreOlder`). Only the three together survive a step: a bump moves the one
  event that has just become the last, and an eviction takes the first, which is the oldest.
  Counting then identifies the stored ids with the `Capacity` most recent ones
  (`SmallerOf`, `RankProperties`). `CacheIsFeed` is the refinement of `RecentEvents`, step
  by step. A put and a clear map by `StoreIsHistory`; an answer needs that each project's
  list is in order of arrival (`ListsStayInOrder`) and what its n-th event is
  (`RecentProperties`), to show that no event left out is newer than one that is in
  (`LaterHitNotOlder`, `RecentIsAnswer`). Where these arguments would be by induction they take
  the least or the greatest of a finite set of places instead (`MaxOfBounded`,
  `NthLastProperties`).
* `ReplayConsumerProofs`: `TypeCorrect`, `CommitsAreCovered`, `ReadersAreNotBehind`,
  `CommitsNeverRegress`, `CachesStayReachable`, `NewestIsShown` and, assuming `StableProject`,
  `CachesStaySound`. None of these is inductive. `GroupInv`
  adds that *every* offset the system keeps (committed, position, and in a request under
  way) covers only what was dealt with (`AllCovered`), that a replica without a commit
  carries no request (`NoStrayRequest`), and that an unfenced request's offsets are where
  its owner's client now is (`RequestCurrent`). The last is the fencing argument: a
  commit that is accepted stores the reader's position, and that is not below what is
  committed; so the committed offset cannot go back.

  `NewestIsShown` relates a cache to the log. `CachesAccounted` names, for each event of a
  replica's cache, the version it shows (`Shows`) and says that the replica was spared every
  later version below the group's committed offset, and below the reader's position. Both
  are needed, since a reader is moved from one to the other: a rebalance takes it back to the
  committed offset, or, if there is none, to the start, or to the end, and then what is passed
  over is in `missed` (`OffsetCases`). It rests on `CachesInv` and on records being in the partition of their id
  (`RecordsPlaced`), so that no other partition's reader interferes. The attempt to prove an
  earlier form, which excepted only what other replicas were given, failed on a group with
  both reset modes, and TLC then showed the behaviour described under "Where documents and
  code disagree".

* `IngestProofs`: `TypeCorrect`, `SendersHaveProducers`, `RecordsAreChecked`,
  `EventsKeepTheirPartition`, `AcceptedIsKept`, `RefusalsLeaveNothing` and
  `PostsAreRecordedOnce` (no two places of the buffers and the topic hold the record of
  one post, `RecordedOnce`). `RouteInv` follows a body from the request
  that carries it to the topic: a request that waits on `send()` carries a body the route
  has passed (`SendersSound`), a record in a buffer or the topic is such a body in a
  partition its key allows (`RecordsPlaced`), no request that is refused, buffered or stored
  is beyond the posts made (`Counted`) or still waits in `send()` (`WaitingIsOpen`). That the two readings of a body agree is the lemma
  `KeyIsId`, over all shapes a body can have. That an accepted event is kept
  is shown step by step (`KeptStays`): only `Crash` and `Expire` take a record away, and
  both say so.
* `ApiClientProofs`: `TypeCorrect`, `UpdatesAreNotLost`, `SuccessMeansDone`,
  `ClearAnswersStayExact`, `MetricsStayTrue` and `ClientImplementsCall`. `ClientInv` says what
  travels: each request is the only one of its attempt, has its call's lockVersion and no
  answer yet (`RequestsKnown`); a call that was told everything has nothing travelling but
  what it waits for (`NothingLoose`); and an update that took effect left its lockVersion
  behind (`LocksSpent`), so that no other update with that version, and no later attempt
  of its own, can take effect. The refinement counts: every effect settles one of at most
  `MaxRetries + 1` attempts (`SendsCounted`).
* `ToolServerProofs`: `TypeCorrect`, `CallsAreCountedOnce`, `AnswersStayTrue`,
  `NoCallIsStranded` and `WhatIsWrittenIsChecked`. `CallsInv` says for each call which stage of the dispatcher goes with
  which stage of its request (`IdleCalls`, `OpenCalls`), and that the API client is there
  from `main()`'s start until the last call is over (`ClientsLife`).
  `WhatIsWrittenIsChecked` is for every request, not only those TLC enumerates: what has
  been sent was accepted (`SentAreAccepted`), each tool's checks cover, field by field, what
  it and its method write (`Covered`, table by table up to `ToolsAreCovered`), and a check
  that is passed says what it should of the argument (`PassedChecks`).
* `SeederProofs`: `TypeCorrect`, `OthersAreSpared` and `SuccessIsSeeding`. What a run
  knows may be out of date, but only in one direction: OpenProject's projects never go, so
  what it has seen exists (`ExistingExist`), and a project that does not exist is still to
  be asked for, was refused or was passed over (`Accounted`). A run only ever holds ids of
  projects with the prefix (`OwnIds`), whoever's page they came from, and those of others
  only once it has heard of each of its own and made none (`RunKnows`, `SparedIds`).
* `PipelineProofs`: `ServersRunTheRoute`, `ReplicasAreAGroup`, `CachedEventsWereSigned`,
  `PromisesHold` and, assuming `StableProject` of the events that bodies name, `CachesStaySound`. Every step of the whole is a step of the route or leaves the route
  alone, and a step of the group or leaves the group alone. The one step that needs an
  argument is the route's delivery of a record, which has to be the group's `Produce`: the
  record's partition is one its key allows because the body has its id as key
  (`EventsHaveKeys`), the records already there stay as they are (`TopicStays`), and the
  group's bound on the topic is never in the way because each post leaves at most one
  record (`RoomForRecord`, from `RecordedOnce`). A cached event is traced back through
  `PutElements` to a record of the topic and so to a signed body. `PromisesHold` carries
  `AcceptedIsKept`, `RefusalsLeaveNothing`, `CommitsAreCovered`, `CommitsNeverRegress` and
  `NewestIsShown` over to the whole. The `Same...` lemmas say
  that the parts' theorems speak of the same definitions as `Pipeline`, and the parts'
  assumptions follow from its own (`RouteAssumptions`, `GroupAssumptions`).

The assumptions on constants are what the configurations fulfil and TLC evaluates: bounds
are natural numbers (`BoundAssumption`, `RetriesAssumption`, `SendsAssumption`, ...), partitioners yield
partitions (`PartitionAssumption`), bodies have one of the known shapes (`BodyAssumption`), a poison
record is no event (`PoisonAssumption`), the keys of the push path's bodies
fall into partitions and the times of its events are numbers (`RouteAssumption`, `RankAssumption`, `MembersAssumption`), and "no request" is none of the requests, whose arguments have one of the known shapes (`RequestAssumption`).

Every safety invariant, action property and refinement that a run with all its properties
passing checks is a theorem. Only model-checked is liveness (`AcceptedIsSeen`, `ShutdownsEnd`,
`EveryCallReturns`, `ShutdownEnds`, `EveryRunEnds`), which is out of the prover's reach, as
are ENABLED and induction over data.

## Not modelled

The SSE sessions (they are the MCP library's, and the code keeps nothing of them), health
and metrics routes, which read no state; the text tools produce; the JSON schemas of
their arguments, which the MCP library checks before the dispatcher is called; what
OpenProject's answers hold, but for whether the body of a success can be read; a tool server that is killed, which leaves nothing to check; the
digest behind a signature; the settings taken from the environment, but for the topic's
name and the reset mode; the once-only set-up of tracing, on one thread before anything
else runs; the emission of synthetic events by the seeder, a loop around a client
library; the latency benchmark;
the deployment, which appears only as what it does to processes. The consumer's counters
of records and errors are left out. A rebalance is eager, as the code's clients are
configured by default.

## Plan

Done: cache and feed; consumer group; route and lifespan; the push path as a whole; API
client; tools, dispatcher and the call they rely on; seeder; proofs about all of them, the push
path as a whole included.

What is left is the emission of synthetic events, if its
queue and flush ever get more than the log line that says all were sent.
