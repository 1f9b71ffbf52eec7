# Ook, specified in TLA+

Ook is Rubin Observatory's librarian: a FastAPI service, a Kafka consumer and a
set of scheduled jobs over one PostgreSQL database. This directory holds TLA+
modules of its parts, the TLC configurations that model-check them on small
instances, and theorems about them that TLAPS checks for every value of the
constants. Paths below are relative to `src/src/ook/`.

The checks are run in this directory:

    tlc -workers 2 -config MCLinkLadder.cfg MCLinkLadder     # one per .cfg
    tlapm LinkLadder_proofs.tla                              # one per *_proofs

## 1. The system

### 1.1 Inventory

**Link-status engine** (`domain/linkcheck/_engine.py`, `_models.py`).
State: a `LinkState` per URL (status, streak, dates, backoff), kept in the row
`checked_url`. Operations: `evaluate_outcome` (prior state and outcome to next
state), `contributed_outcome`, `accepts_contribution`. Pure functions, applied
by the service. Hard: the ladder from failing to broken, blocks in the middle
of a streak, the capped exponential backoff, forced rechecks off the schedule.
Correct when: the row is what the checks witnessed; "broken" is earned; no
unhealthy row is stranded; a healed link and a rotten one are noticed in time.

**Link-check service** (`services/linkcheck/_service.py`,
`storage/linkcheckstore/`, `handlers/linkcheck/endpoints.py`,
`handlers/kafka.py`, `cli.py`). State: the tables `checked_url`,
`url_occurrence`, `linkcheck_check`, `linkcheck_check_url`; the link-check
topic. Operations: submit a check, execute it, recheck URLs, contribute
results, poll a report, the daily job (enqueue due URLs, purge old checks and
orphaned URLs). Interaction: the handler commits and then publishes; the
consumer runs one transaction per message, with HTTP requests inside it; the job
commits and then publishes; everybody shares the URL rows. Hard: READ COMMITTED
transactions interleaved around slow requests, a crash between commit and
publish, lost and repeated messages, a purge under everyone's feet.
Correct when: an accepted check is never forgotten; executions of one check do
not overlap; a report never regresses and "complete" means resolved; a URL
that is due is rechecked.

**URL checker** (`services/linkcheck/_urlchecker.py`, `domain/redirects.py`).
State: a semaphore, a next-slot time per host, and each coroutine's own
progress. Operations: `check`: the address guard, HEAD then GET, redirects, one
retry after a rate limit. Hard: interleaving of a batch of coroutines at
awaits, nested limits (slot, then semaphore), pins across redirects and
fallbacks. Correct when: a socket goes to the address that was validated for
the host of the request; rate limits are honoured; hosts are spared; every URL
gets an outcome.

**Intersphinx inventory cache** (`services/intersphinx.py`,
`storage/intersphinxstore.py`). State: a row per inventory URL: content or
negative entry, date fetched, date requested, failure marker. Operations:
`get_inventory` (cold miss, negative cache, inline revalidation by mode),
`refresh_inventories` (a batch with conditional requests). Hard: several
writers each with a fetch in the middle; writes are guarded by comparing
`date_fetched` with what was read, but a cold miss writes unconditionally; a
304 along a chain of redirects has to vouch for the right bytes.
Correct when: content is as old as its date says; a refresh never reverts newer
content; a failure never takes content away, nor blames a fresh copy; the job
settles what it lists.

**Intersphinx sources and their ingest** (`services/ingest/intersphinx.py`,
`services/intersphinxsources.py`, `storage/intersphinxentitystore.py`,
`storage/intersphinxsourcestore.py`). State: registrations, entities and
their links, a digest of the last ingest per source. Operations: register,
repoint, deregister, `ingest_source`, the sweep. Interaction: the inventory
is read in one transaction; the ingest takes the registration's row lock and the
advisory lock on the entity graph in a second. Hard: a source repointed, deleted or
ingested while its inventory is fetched; a global prune of entities; the order
of two locks; a refused write recorded under a retaken lock. Correct when: the links
of a source are those of one inventory of its present URL; an entity with
links is never pruned; a skipped digest is one that was really ingested; every
site becomes current.

**Algolia document index** (`services/algoliadocindex.py`,
`services/algoliaaudit.py`), with **document classification and ingest**
(`services/classification.py` and the ingest services). State: an external
index that applies writes late, and the messages that ask for ingests.
Operation: `replace_records` (browse the ids, save, delete the stale ones).
Hard: a browse that does not see the last save; a failure between the steps; a
site republished as another kind while its message waits. Correct when: after the last
ingest the document's records are that ingest's.

**GitHub OIDC verification** (`services/githuboidc.py`). State: a cached key
set with the time of its fetch, a lock. Operation: verify a token, refetching on
TTL or on an unknown key id, with a cooldown. Correct when: a token signed with a
current key is accepted once the key set can be fetched, and forged key ids
cannot cause a storm of fetches.

**Guarded HTTP client** (`services/guardedhttp/`). State: a context
variable that carries the pinned address of a request, and the connection pool
of httpx, which is external. Correct when: no socket goes to an address that the guard did
not accept, whatever the name resolves to by then.

**Author database** (`storage/authorstore/_store.py`, `services/authors.py`,
`storage/lssttexmf.py`, `services/ingest/lssttexmf.py`,
`handlers/admin/authors/endpoints.py`). State: authors, affiliations, aliases. Operations:
upsert with deletion of the stale, creating an alias (merging two authors),
lookup through aliases. Correct when: no alias points at an alias or at nothing,
and a merge loses no name and no credit.

**SDM schemas and links** (`storage/sdmschemastore.py`, `storage/linkstore.py`).
State: schemas, tables, columns, and a link for each. Operations: the ingest of
a release, three listings paged by cursors. Correct when: a client that follows
the next links sees what stays exactly once.

**Resources and bibliography** (`storage/resourcestore/_store.py`). State:
documents with three unique keys (handle, series and number, DOI), contributors,
relations. Operations: batch upserts with a savepoint each, a listing.
Correct when: a document that shares a key with a stored one updates it.

**Glossary**, **identifiers and text utilities**, **GitHub repository
storage**, **wiring, configuration, read-only endpoints**: one transaction of
one request each, or pure functions, or pure I/O; their rules are SQL, parsing and
formatting. `PROJECT.json` lists each with its sources.

### 1.2 What is modelled, and what is not

| Part | Modules | State of the work |
|---|---|---|
| link-status engine | `LinkStatusEngine`, `LinkLadder` | modelled, proved |
| URL checker | `UrlChecker`, `MCPoliteness` | modelled, safety proved |
| inventory cache | `InventoryCache`, `InventoryFetch` | modelled, proved |
| source registry and ingest | `SourceIngest`, `Listings` | modelled, safety proved |
| OIDC verification | `SigningKeys` | modelled, proved |
| link-check service | `LinkCheckService`, `LinkCheckRun`, `Listings` | partly modelled; its safety proved |
| guarded HTTP client | `InventoryFetch`, `UrlChecker` | partly modelled, proved |
| author database | `Authors`, `Listings` | partly modelled, proved |
| SDM schemas and links | `SdmLinks` | partly modelled, proved |
| document index, document ingest | `DocIndex` | partly modelled, proved |
| resources and bibliography | `Documents`, `Authors`, `Listings` | partly modelled, proved |
| glossary, identifiers, GitHub storage, wiring | none | not modelled, section 8 |

## 2. The modules

    LinkStatusEngine      the engine as operators   LinkStatusEngine_proofs
      LinkLadder          one URL's life            LinkLadder_proofs
      LinkCheckService    the transactions          LinkCheckService_proofs
        LinkCheckRun      what a poller is promised
    UrlChecker            a batch of coroutines     UrlChecker_proofs
      MCPoliteness        ... with a watch on the hosts
    SourceIngest          registry, sweeps, graph   SourceIngest_proofs
    Stores                one store at a time       Stores_proofs, which extends both:
      InventoryCache      rows and refreshes          InventoryCache_proofs
      SdmLinks            releases, a paging client   Pages_proofs
      Listings            pagings by one unique key   Pages_proofs
      InventoryFetch      one fetch along redirects
      Authors             ingest, aliases, credits
      SigningKeys         keys, rotation, cooldown
      DocIndex            an index that writes late
      Documents           three keys, batches, savepoints

**LinkStatusEngine** translates `evaluate_outcome` branch by branch:
`ToUnsupported`, `ToHealthy`, `ToBlocked` and `ToFailing` are its four ways to
build the next `LinkState`, `KeepsBackoff` its rule for a block met off the
schedule, `LadderExhausted` and `LadderInterval` its ladder. `IsDue` and
`IsReportedPending` are the two freshness rules of the service (`_is_due`,
`_report_url`). Dates are natural numbers, `NoDate` stands for `None`. A status
code matters only for being a success, a bot wall, transient or permanent, so a
few stand for all. Left out: error prose, the redirect's target, who
contributed, and the rewriting of URLs. The operators named "Mutant" in the
modules are plausible wrong versions of the definition that follows them; no
specification uses them, they show that the properties can fail.

**LinkLadder** applies the engine to one URL: `Check` (an execution or a
scheduled recheck), `ForcedRecheck`, `Contribute`, while `SiteChanges` turns
the site up, down or private. It keeps, from the outcomes alone, the history
that the row is compared with (`lastSuccess`, `failed`).

**LinkCheckService** is the service with its interleavings. A service call is
one READ COMMITTED transaction, split where others can see the difference: a
step that reads, and a step that commits; between the two is the HTTP traffic.
`row`, `stored`, `check` and `occurrence` are the committed tables, `topic` the
messages not yet consumed, `tx` what each open transaction has read.

| Code | Actions |
|---|---|
| `POST /checks`: `submit_check`, commit, publish | `SubmitBegin`, `SubmitCommit` or `SubmitAbort`, `SubmitPublish` |
| `execute_check` | `ExecuteBegin`, `ExecuteLock` (the write of `in_progress` takes the row), `CheckingCommit` |
| `execute_recheck` | `RecheckBegin`, `CheckingCommit` |
| `contribute_results` | `ContributeBegin`, `ContributeCommit` |
| `run_linkcheck_recheck` | `JobBegin`, `JobCommit`, `JobPublish` |
| process death, broker failure, redelivery | `SubmitCrash`, `WorkerFails`, `Redeliver`, `JobCrash` |

Database rules are modelled where they decide something: an insert waits for an
uncommitted insert of the same URL; an update of a check's row waits for its
holder and finds nothing if the row was purged; a foreign key to a deleted row
fails the request; deleting a URL cascades to memberships and occurrences. The
purge of orphaned URLs is judged by the snapshot of its own statement
(`marked`), as in the database, and what it deletes is what was orphaned then.

**LinkCheckRun** is what a polling client is promised: a check is accepted,
its members are resolved one after the other, none ever returns to pending, it is complete
only when none is left, and it stays so until it is purged. `LinkCheckService`
maps its checks to it (`Promised`): a member is unresolved when `_report_url`
would say pending, except for one that the server has found it cannot check
(see finding 1).

**UrlChecker** is a batch of `check()` coroutines. A coroutine runs without
interruption between two awaits, so an action is the code from one await to the
next: `Guard`, `Claim`, `Enqueue`, `Start`, then one of `Redirected`, `Answered`, `Failed`,
`Limited`, `Overflows`, and `Retry`. Time is kept as what is left to wait (`backlog`, `wait`),
so it needs no bound. A URL is its host. `holdOff` is what is left of the delay that a 429 puts in
force: the one that the server asks for, or `RetryCap` where that is less (`_retry_after_delay`). `Overflows` is the
one exception that leaves `check()`: a Retry-After beyond the range of floats. `MCPoliteness` adds a stopwatch per host.

**InventoryCache** is the rows of `intersphinx_inventory` and who reads and
writes them. A process in flight (`flight`) goes from "asking" (what it read is
committed) through "reading" (the origin has answered, at one instant) to
"writing" or "failed". `DateWritten` and the flag `same` stand for the guard
"`date_fetched` is the one that was read": dates have microseconds, so equality
of dates is that nobody wrote one. Ages instead of dates keep the model finite.

| Code | Actions |
|---|---|
| `get_inventory` | `ServeCached`, `Revalidate`, `ColdMiss`, `Refuse` |
| `refresh_inventories`, `get_stale_active_inventories` | `StartJob`, `NextDue` |
| `_refresh_one`, `_fetch_and_store` up to their writes | `Answer`, `FetchEnds`, `FetchFails` |
| `upsert_inventory`, `upsert_fetch_failure` | `StoreFetched`, `StoreFailure` |
| `_write_refresh_columns`, `_serve_current_row` | `WriteRefresh`, `ServeCurrentRow` |
| `update_refresh_failure`, and its refusal | `RecordFailure`, `FailureUnrecorded` |

**InventoryFetch** is what one refresh of a row does on the net:
`_fetch_inventory` follows redirects hop by hop, sends validators only to the URL
that minted them, and takes a 304 to confirm what is held. Pages are published and
repointed, and names re-resolve, between any two hops; `pool` holds the address
of each kept connection. ETags are each page's own: `EtagOf` gives a page one for each content, and
two pages may use the same one for different contents, as the instance's do. `minter` remembers which page the stored bytes and ETag
are from. It starts with an empty row and so leaves out rows from before the column
`resolved_url` existed; ETags are strong, and an origin
gives `If-None-Match` precedence as RFC 9110 has it.

**SourceIngest** is the registry and the ingest over one entity graph. A worker
is a sweep, a trigger, a deletion or a PATCH; its transaction is a sequence of
steps with the registration's row lock and the graph's advisory lock between them,
and its writes are seen at `Commit`. `Apply` is replace, prune and the repair of
containment, as one change of links, entities and `nested`.

| Code | Actions |
|---|---|
| sweep, trigger | `StartSweep`, `StartTrigger`, `ReadCurrent`, `ReadStale`, `ReadFails`, `RecordReadFailure` |
| `_ingest_inventory` under the row lock | `Abandon`, `RecordUnchanged`, `RecordParseFailure`, `LockSource` |
| replacement, prune, containment | `Write`, `Commit`, `Refuse`, `RecordRefusedWrite` |
| `register_source`, `update_source`, `delete_source` | `Register`, `PatchReads`, `PatchWrites`, `StartDelete` |

**SdmLinks** and **Listings** each pair a table with a client that walks its pages.
`SdmLinks` has the two listings ordered by TAP index and name, with NULLs last, and the one by
name; its `Ingest` is a whole release, with any indexes, shared ones included, as no constraint forbids them. `Listings` has the five pagings by one unique key; their
pages are read in two statements, with commits between. **Authors** splits the ingest of
`authordb.yaml` and of a document's contributors at their reads and writes; an administrator's
request is one step. **SigningKeys** is `GitHubOidcVerifier` from await to await.
**DocIndex** has `writes`, the queue of what Algolia has not applied; `Handle` to `Delete` are
`replace_records` with its caller. **Documents** resolves a document by one statement per unique
key, then loads and writes its row (`Load`, `Write`), then relates it (`Relate`: contributors, relations, reading it
again), inside the savepoints of a batch. `Fail` may follow the write of the row too, as a
keyless external reference does; it takes the batch back to the document's `savepoint`.

**Stores** puts the modules that share no state side by side, so that `MCStores` can check them in
one run and `Stores_proofs` prove about them in one module: `StoresInit` chooses a
`part`, and the variables of the others are void. This is a disjoint
union of eight state spaces, not a product; what it says of each part is what
a run of that part alone would say. `Stores` also names what the code presumes of the
parts' constants (`FetchAssumption` to `PagesAssumption`), and TLC evaluates it.

## 3. The runs

| Run | Instance | Asks | Distinct states |
|---|---|---|---|
| `ladder` | one URL, 8 days | does the row tell the truth, in time? | 526,762 |
| `service_safety` | 2 checks sharing a URL, 2 workers, job, client, one complication | is a check forgotten, reported too early, executed twice at once, does any report regress? | 407,838 |
| `service_liveness` | 1 check, 2 workers, job, 1 fault, fairness | does every check end, and is what is due rechecked? | 35,513 |
| `urlchecker` | 2 URLs, 2 hosts, 1 connection | pins, rate limits, an outcome for each, no deadlock | 662,662 |
| `ingest` | 2 sources, 2 URLs, a module and its class, 2 workers, 1 event, fairness | is what a digest lets the ingest skip stored, does the graph stay converged, does every site become current? | 351,756 |
| `stores` | one part at a time, below | honest ages, no reverting, paging, merging, rotation, indexing, identity | 701,389 |
| `complete_means_resolved`, `seen_ok_is_remembered`, `reports_keep_members`, `politeness`, `retitled_is_rebuilt`, `tied_columns` | small | statements of the documentation that the code does not keep | stop at a violation |

Each takes from a few seconds to three minutes with two workers.

**Properties.** The comment above each definition states it. In short:

- `StreakIsHistory`, `BrokenIsEarned`, `FailingIsOpen`: what the row says of
  the past is what the checks witnessed, blocks and outages in between neither
  extending nor forgiving a streak.
- `UnhealthyIsScheduled`, `RecheckIsNear`, `OffScheduleIsNeutral`: the schedule
  cannot be lost or stretched.
- `HealsInTime`, `RotIsNoticed`: with a prompt job the row differs from the
  site for at most a delay of the ladder, or the freshness TTL.
- `NoCheckIsForgotten`, `PublishedIsVisible`, `CompleteIsSettled`,
  `ExecutionsDoNotOverlap`, `KeepsPromise`: the hand-over from handler to topic
  to worker loses nothing, and the reports are honest.
- `EveryCheckEnds`, `DueIsRechecked`: liveness of the above.
- `PinMatchesHost`: every request goes to the address validated for its host.
- `RateLimitIsHonoured`: after a 429, no request for the URL before the server's delay is over, or the cap
  where that is less; a delay beyond the cap is not waited out, and the instance has delays on both sides of it.
- `EveryUrlIsJudged`: every check ends in an outcome, unless a server trickles a response for ever
  (`NoneTricklesForever` is its premise) or a Retry-After is out of range, which raises (`IsOutOfRange`).
- `SkipIsSound`, `DeregisteredIsGone`: the links of a source are those that its
  digest and its registration say, and none outlives it.
- `StaysConverged`, `SweepConverges`: no writer leaves an entity without links or
  a containment that its links do not give, and a sweep repairs an old graph.
- `SitesBecomeCurrent`: liveness: no lock is waited for for ever, no digest
  makes a sweep skip what it should rebuild.
- `AgeIsHonest`: however fetches overlap, content dated d was served by its
  origin at d, or at most a fetch budget before.
- `ContentSurvives`, `RefreshNeverReverts`, `FreshIsNotBlamed`, `DueIsSettled`:
  the guarded writes of the cache's rows.
- `StoredIsServed`: no 304 vouches for other bytes, though pages share ETags; except for a copy that was
  stored without a redirect and that the end of a redirect has confirmed since (`Adopted`, see section 4).
- `SocketsAreGuarded`: no socket goes where the guard did not look.
- `PagesShowWhatStays`: the eight pagings; except for a walk through a listing of columns two of which
  share an index meanwhile, which finding 6 shows to go wrong.
- `MergesLoseNothing`, `RotationIsInvisible`, `SearchFindsTheLatest`: authors, keys, the index.
- `ReingestIsUpdate`: a document that shares a key with a stored one updates it, one that shares none is
  created; except when another request commits meanwhile. It may fail if its keys are those of two rows, if it waits for
  another request (a deadlock), or if what goes with it is refused after its row is written. Whenever it fails it
  leaves no trace in the batch.

**Bounds, and why they are enough.** A ladder of two attempts over two units,
delays of one, two and three and a TTL of four have every order of "attempts
reached", "threshold reached" and "TTL reached"; `MaxTime = 8` is two TTLs, and
`MaxAttempts = 4` goes beyond the attempts that exhaust the ladder and beyond
the doubling that the cap cuts off. The service needs two workers for a
redelivery to race its original, two checks for sharing, one URL because rows
do not interact but through the checks that hold them; `MaxTransactions = 2`
lets every pair of transactions overlap, `MaxFaults = 1` places one fault
anywhere. `service_safety` has one complication at a time (`OneComplication`): a fault, an
off-schedule request (a contribution or a forced recheck) or a second check that shares the URL, and not two of
them; and a URL that is up or down. What two complications do together is not checked but proved:
all properties of that run are theorems. The private addresses are in `service_liveness` and in
`complete_means_resolved`. In `service_*` the clock stops at `MaxTime`, after a TTL and a
retention period have gone by. Two URLs through one connection is the smallest batch
that delays itself; delays of one and three against a cap of two are a delay waited out and one cut short. `MaxOffSchedule` bounds contributions and forcing jobs,
which could be repeated for ever. The `ladder` and `service_*` runs say
`CHECK_DEADLOCK FALSE` because the clock and the bounds stop them; the others check deadlock.
Checks and workers are interchangeable, so the safety runs reduce by symmetry;
liveness runs do not.

In `ingest`, one event (a publication, a request to the API or a refused write) on top of
two concurrent workers and any choice of registered sources at the start: the races of the
registry are of one event with one or two ingests in flight, and the sweep starts
for ever. The two names are the smallest graph with containment; two sources on
two URLs the smallest in which one's prune can meet the other's links; two
titles, the smallest in which a rename shows. `retitled_is_rebuilt` is the same instance with
`PatchesRace = TRUE`, where a PATCH compares with the digest it loaded; the
other properties are about the system without that race.

In `stores`: one inventory, because rows do not interact, with one of each kind of
process, two contents, a TTL and a budget of one unit, so that every date falls before, at and past
each bound. The fetch has two pages on two hosts, one redirect and a private address:
a chain can grow, shrink and move between two fetches. The SDM
listing has three names on pages of one and two indexes or NULL; the other listings
four keys on pages of two, the smallest with a middle page that changes at both
ends. Three names of authors can form a chain of aliases. Two keys and two
requests let one request's refetch serve, or starve, another. Two records and two publications leave
something stale to delete. Of three documents one shares a number with the first
and one a DOI, so that keys can be split over two rows. The names of authors and the two
requests are interchangeable (`SYMMETRY`). `MaxQueue`, `MaxLag`, `MaxBatch`, `MaxDate`,
`MaxRedirects`, `MaxIndex` and `MaxVersion` are the other bounds. Deadlock is checked
in both.

**Assumptions of the models.** A transaction stays open for at most `MaxOpen`
= 1 unit, no longer than the freshness TTL (hours against a day; `PromptAssumption`, which
`CompleteIsSettled` needs: a result that was fresh when it was read may otherwise be
stale when the check is completed). There is one
origin, and the submissions of its default version do not overlap. Commits are
atomic; waiting for the row locks of URLs is left out. The completion date of a
check, which nothing but the report reads, is left out. In `ladder` the job is
prompt: what is due is checked before the clock moves on, one unit being the
job's period. With `PromptRecheck = FALSE` nothing is assumed of it, and all but
`HealsInTime` and `RotIsNoticed` still say the same; the theorems cover both. A page has one entry at
least (`PagesAssumption`; the handlers require `limit` to be at least 1).

**Fairness, and why the code justifies it.** `LinkCheckService`: weak fairness
of commits and publications, as the process runs its coroutines to their end;
strong fairness of `ExecuteLock`, as PostgreSQL grants a row lock to the oldest
waiter; strong fairness per message, as a partition is consumed in order; strong
fairness of the job, a daily cron. Crashes and losses are not fair, and
`EveryCheckEnds` excuses a check whose message a fault lost, which nothing in
the code resubmits; `DueIsRechecked` does not. Weak fairness of a worker's commit takes it that the requests of
its batch end: the timeouts of `_send` start anew with every read, so a server that trickles its response could hold a worker for
ever. `UrlChecker` assumes no such thing: weak fairness of every coroutine that is ready (the event loop runs it, a resolution
ends) and of time, which passes only when nothing is ready, but none of any answer; that requests end is
the stated premise of `EveryUrlIsJudged`. `SourceIngest`: weak fairness of starting sweeps
(a cron job), strong fairness of each worker's progress (PostgreSQL grants a lock to the oldest
waiter, a coroutine that can go on does), and for each source strong fairness of a read that gets
the site's present inventory (an origin asked again and again answers). Crashes, refused
writes and failed reads are not fair; after the last event they no longer change anything that stays.
`MCStores` states no fairness: all of its properties are safety.

## 4. What the checks found

1. **A complete check may report a URL as pending for ever** (`complete_means_resolved`).
   `_is_due` never lets an unsupported row be checked again, and
   `_report_url` reports as pending any result older than the TTL at
   submission. A URL that once resolved to a private address is not due, so the
   check is complete at submission, yet is reported as pending from one TTL later on, by that
   and every later check.
2. **A success may be forgotten** (`seen_ok_is_remembered`). Executions, rechecks
   and contributions read a row, make requests, and overwrite the row, with no lock
   or version check between. When two overlap on a URL never seen OK before, the
   later commit may erase the other's success together with `date_last_ok`, and
   the URL loses the benefit of the ladder.
3. **A report may lose a member** (`reports_keep_members`). The purge of orphaned URLs
   judges by its snapshot; a submission that adopts such a URL and commits
   before the row is deleted loses the membership by the cascade.
4. **The politeness interval is between slots, not requests** (`politeness`). The
   slot is claimed and waited for before the semaphore; requests that the
   concurrency cap held beyond their slots follow each other at once. With a
   cap of at least the size of the batch the property holds.

5. **A renamed source may keep its old title** (`retitled_is_rebuilt`).
   `update_source` loads the row without a lock and assigns `None` to its
   digest. If there was none yet, because the source's first ingest is in its write phase, SQLAlchemy sees no
   change and leaves the column out of the UPDATE; the ingest commits its digest
   with links under the old title, the PATCH changes the title alone, and every
   later ingest recognizes the inventory and skips it.
6. **Columns that share an index are paged wrongly** (`tied_columns`). Going forwards,
   `SdmColumnLinksCollectionCursor` bounds a page by `>=` on `tap_column_index` alone, where the cursor of
   tables uses `>` and then the name, and its docstring orders by both. Nothing makes the indexes of a table's columns
   unique. Entries of one index reappear on the next page, and a page of nothing else has a next link that leads to itself.

**Seen while reading, with no run of their own.** The first three are in the models, as exceptions that the
comments of the properties name; the others are left out of the instances by a named restriction, or
out of the models altogether.

- A row that was stored without a redirect, and whose URL then starts to redirect, sends its ETag to the new page,
  which may confirm it with a false 304. `_revalidate`'s docstring admits this (`services/intersphinx.py`, about line 1165) and
  says "It is once, and only once". It is not: the 304 records the page it came from, so that the next refresh
  asks that very page about the same ETag, and it confirms it again, until its content changes. `StoredIsServed` excepts
  such rows (`Adopted`).
- A document whose handle names one row and whose number or DOI names another fails on a unique constraint,
  where the docstring of `upsert_document` says that "a re-ingest can never fail on a
  document-identity unique constraint" (`storage/resourcestore/_store.py`, line 249). `ReingestIsUpdate` excepts it.
- A Retry-After of more digits than a float can hold raises an `OverflowError` in `_parse_retry_after`
  (`services/linkcheck/_urlchecker.py`, line 600), which `check` does not catch; the `gather` of the batch raises it in turn, and the
  outcomes of the other URLs are lost. `EveryUrlIsJudged` excepts it (`IsOutOfRange`).
- An SDM release that drops a column or table which has a link fails altogether: the foreign keys of the links have no
  ON DELETE. Two ingests within two seconds keep what the second should delete. Links are never deleted.
- `AuthorSearchCursor` bounds by internal ID what is sorted by relevance, so that pages skip or repeat authors.
- An alias that is created between `_filter_aliased_authors` and the upsert leaves an
  internal ID that is both; the model says so in `Forgets`. An author whose affiliations are
  all removed keeps the old ones.
- A listing of entities reads the links in a second statement: an entity that is pruned in
  between is listed with none.
- `in_progress` is never committed on its own, so that no poll can show it; a redelivered execution
  moves the completion date of its check.
- Two overlapping ingests of the glossary leave both sets of rows, or one fails.
- Only the Kafka key keeps two ingests of one URL apart; two at once could delete each
  other's records from the index.

## 5. What is proved

**`LinkLadder_proofs`**, for every ladder, TTL, set of status codes, bound, and
whether or not the job is prompt, from the named assumptions on the constants in
`LinkStatusEngine` and `LinkLadder`: `TypeCorrect`, `StreakCorrect`,
`LadderIsFair` (`BrokenIsEarned`), `LadderIsClimbed` (`FailingIsOpen`),
`NoneIsStranded` (`UnhealthyIsScheduled`), `UnhealthyIsRechecked` (`RecheckIsNear`),
`ForcingIsNeutral` (`OffScheduleIsNeutral`), `VerdictsAreTimely`
(`HealsInTime`) and `RotIsFound` (`RotIsNoticed`). The inductive invariant `LadderInv` is the conjunction
of the run's state invariants on the row and the history, and of `DatesArePast`;
none is inductive alone. `BrokenIsEarned`, for one, needs the stored counters to
be those of the history (`StreakIsHistory`), since the step to "broken" reads
the counters. The last two rest on a second invariant, `Timely`: with a
prompt job an unhealthy row is never past its recheck nor a healthy one past
its TTL, and a verdict of the server that contradicts the site is no younger
than the site's last change. Lemmas state, once for each of the engine's
branches, what the row becomes; each action then cites the branch that applies.

**`UrlChecker_proofs`**, for any number of URLs and hosts, any cap, interval and
delays, and any number of redirects: `TypeCorrect`, `PinsAreRight`, `RateLimitsAreHonoured`. The
inductive invariant is `TypeOK`, `PinMatchesHost`, `HoldIsWaitedOut` (who
sleeps for a rate limit sleeps as long as it lasts, the cap at most; who may send has none to
wait for) and `QueueHoldsWaiters` (the semaphore's queue is exactly of queued
tasks, each once). `RateLimitIsHonoured` is an action property: it follows in one step
from `HoldIsWaitedOut`, which the run's property alone would not give.

**`InventoryCache_proofs`**, for any finite set of URLs, any clients and jobs, any
modes of revalidation, times and number of contents: `AgesAreHonest` (`AgeIsHonest`),
`FreshIsSpared` (`FreshIsNotBlamed`), `ContentIsKept` (`ContentSurvives`),
`RefreshesMoveForward` (`RefreshNeverReverts`) and `JobsSettle` (`DueIsSettled`), all from the
named `CacheAssumption`. None is inductive. That a row's date is honest depends on what is about to
be written to it, so `IInv` says of each process in flight how old its answer may be by
now: at most the time spent while it reads (`spent`, which the budget
bounds), at most its age and a budget while it waits to write. That a refresh reverts nothing
depends on the guard: as long as `same` is up, the row's content is still the one that was held, and
what the origin answered is no older than that. The same part of the invariant, with the row's
age above the TTL, gives `FreshIsNotBlamed`. Three lemmas carry the steps: a
process goes on (`ContinueKeeps`), a column that nobody's read depends on is written
(`ColumnsKeep`), a date is written and who read it is told (`DateWrittenKeeps`).

`CacheIsTyped` (`TypeOK`) needs one thing more, `AgesAreKnown`: every row that is there has a
`date_fetched`, as has every copy in flight, though the column may be NULL. It holds because whatever
inserts a row dates it, and no process revalidates a row that it did not find.

**`LinkCheckService_proofs`**, for any URLs, checks, workers, faults, clock and bounds, from
`ServiceAssumption`, the engine's assumptions and `PromptAssumption`: `TypeCorrect`, `NoneIsForgotten`
(`NoCheckIsForgotten`), `PublicationsAreVisible` (`PublishedIsVisible`), `ExecutionsExclude`
(`ExecutionsDoNotOverlap`), `CompletionSettles` (`CompleteIsSettled`) and `ServiceKeepsPromise`
(`KeepsPromise`). There are two inductive invariants. `HandOver` follows a
check from its handler to the topic to a worker: a message that names a check names one that
was submitted, who holds a check's row has one that nobody is deleting, and no two workers hold one row.
`NoCheckIsForgotten` is part of it and not inductive without the rest: a worker that gives up must know that
the check it drops is purged. `Settling` rests on `HandOver` and says of everybody about to complete a check which of its
members already have a result, namely all that it will not write itself. That the rows
are shared and overwritten is harmless because what a commit writes was found at most `MaxOpen` ago,
and so is fresh for every check that there is (`PromptAssumption`); what the engine makes of an outcome is in
the lemmas of `LinkStatusEngine_proofs`. The refinement goes by actions: each maps, for every check, to a
step of `LinkCheckRun` or to a stutter.

**`SourceIngest_proofs`**, for any sources, sites, titles, names, events and concurrent runs, from
`IngestAssumption`: `TypeCorrect`, `NoneIsResurrected` (`DeregisteredIsGone`), `ConvergenceLasts`
(`StaysConverged`), `SweepsConverge` (`SweepConverges`) and `SkipsAreSound` (`SkipIsSound`). The
inductive invariant `IngestInv` says of each of the two locks that what its holder has
read is what the database still says: the registration an ingest holds has the URL and title it
was compared with (`RowIsHeld`), and the change that the graph's holder is about to commit is the one it would
compute now (`ChangeIsCurrent`). From the second follows that every commit leaves the
graph converged, whoever makes it and however the graph was before: `ApplyConverges`. `SkipsAreSound` has the hypothesis
`~PatchesRace`, and needs it: with the race of finding 5 the property is false, as
`retitled_is_rebuilt` shows. The run `ingest` is an instance where the hypothesis holds.

**`Pages_proofs`**, for any rows, any names and indexes, and any page of one entry or more, from
`PagesAssumption`: `ListingsAreWhole` and `LinkListingsAreWhole`. Both kinds of listing read the first
`limit + 1` entries at or after a cursor, and hand out the last as the next cursor. What that means is
proved once for any finite chain (`PageAndBeyond`): the page is exactly what lies between
the two cursors, the rest is what lies beyond. The invariants (`PagesInv`, `LinksInv`) say that a client has
seen each entry that stayed below its cursor once and none above it, and that the page before, read backwards
from the cursor, is the page just shown, as long as nobody has written since. For the listings of
SDM columns and tables, that the cursor's comparison agrees with the sort order, where an index may be NULL, is a lemma by
cases; for columns it needs that no two share an index, so the invariant speaks of walks that are not `tied`, and
`tied` goes up, for the rest of the walk, as soon as two listed columns share one.

**`Stores_proofs`**, for any values of the constants, from the named assumptions in `Stores`, gives
each other part an inductive invariant, and composes them.

- `FetchIsSound` (`FetchInv`), for any ETags: a copy's ETag is the one that its page, the requested one or the recorded one, gave
  its bytes (`CopyIsMinted`); a copy known only by a date is what its page still holds unless the page's
  date has moved on (`CopyIsDated`); and a chain carries a date only while it is sure to be asked of
  the page that gave it (`WalkIsSound`). Hence `StoredIsWhatWasServed` and `SocketsStayGuarded`. All that is assumed of
  ETags is that a page does not use one for two contents.
- `KeysAreSound` (`KeysInv`): a refetch that a request waits for began after the request came, so its answer has
  the request's key if that stays published (`FetchCovers`). Hence `RotationStaysInvisible`.
- `IndexIsSound` (`IndexInv`): what the index will be, once the writes it has accepted are applied and the ingest has sent the
  rest, is what was saved last (`WillBe`, `WillBeGone`), and no deletion empties it by the way. Hence `SearchStaysLatest`.
- `AuthorsAreSound` (`AuthorsInv`): every alias and every credit is of an author that is stored. Hence
  `MergesKeepEverything`, an action property.
- `DocsAreSound` (`DocsInv`): a row that a batch has found stays; that it shares a key with the
  document, or that no row does, holds until somebody commits, and what the batch has written for it is one row over its
  savepoint (`RequestKnows`). Hence `ReingestStaysUpdate`.
- `StoresAreSound`: `StoresInv` is the conjunction of the parts' invariants, each under its part. Hence
  `StoresAreTyped` (`StoresTypeOK`), `PagesStayWhole` (`PagesShowWhatStays`), and the properties above as the run
  states them. `CacheStaysItself` is the composition the other way round: a behaviour of the stores is one of
  `InventoryCache`, so that what is proved of the cache on its own holds beside the others.

## 6. What is only model-checked

Every invariant and action property that a passing run checks is a theorem. What is left to TLC:

- the liveness properties (`EveryCheckEnds`, `DueIsRechecked`, `EveryUrlIsJudged`, `SitesBecomeCurrent`): the proof
  system does not handle ENABLED, and so no fairness;
- the absence of deadlock in the checker, the ingest and the stores, for the same reason;
- the six violations, which are counterexamples of small instances.

The theorems say what their modules say: the bounds of time and number in the
guards (`MaxTime`, `MaxFaults`, `MaxTransactions`, `MaxQueue`, `MaxLag`, `MaxBatch` and so on) are constants of any
size in them, and the assumptions of section 3 (atomic commits, one origin, prompt transactions) are
theirs too.

## 7. The plan

Done: the modules of section 2, and the proofs of all their safety properties. Left, in this order:

1. The inductive invariants hold more than the runs' properties; the ones a reader would want as promises of their own
   (that two workers never hold one check's row, that the graph's holder commits the change it would compute now)
   could be stated as theorems.
2. An ingest that races with a PATCH, and a walk through columns that share an index: what still holds there.
3. If they prove to be of use: `OriginOccurrences` (overlapping default-version
   submissions of one origin) and `RowLocks` (the order in which transactions
   lock URL rows).

## 8. Not modelled

- **Glossary**: cleared and rewritten in one transaction by one ingest, then searched by SQL ranking; what
  could go wrong is in the list of section 4.
- **Identifiers, pagination and text utilities**: pure functions on strings and integers, which the
  repository's property tests cover. The cursors are modelled with their listings.
- **GitHub repository storage, GitHub metadata, process wiring, configuration, read-only endpoints**:
  I/O, construction and presentation.
- **Parsing**: of `objects.inv`, of pages into records, of `authordb.yaml`, of Felis; and the text of
  errors and logs.
- **Affiliations, relations and external references, search by score**: rows that hang on one parent
  and are replaced with it, and SQL ranking.
- **Rows of inventories from before the column `resolved_url`**, whose validators may be sent to another page than gave them, and **weak ETags**.
- **Row locks of checked URLs, overlapping default-version submissions of one origin**: see the assumptions in section 3.
