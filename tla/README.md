# TLA+ models and proofs for CacheProxyfy

CacheProxyfy is a caching proxy in front of package registries (npm, PyPI,
Maven, Go modules). This directory holds TLA+ modules translated from its Go
code, TLC configurations that check them on small instances, and TLAPS proofs
of the properties that matter most. Source lines named in module comments and
in `PROJECT.json` are those of the repository.

- [1. The system](#1-the-system): parts, state, interactions, hard behaviours
- [2. Modules](#2-modules): which module models what, and how
- [3. Runs](#3-runs): what each run checks, bounds, fairness
- [4. Findings](#4-findings): where the code and its documents disagree
- [5. Proofs](#5-proofs): what is proved, from what, and along which argument
- [6. Not modelled](#6-not-modelled)
- [7. Order of work, and what is left](#7-order-of-work-and-what-is-left)

To run: `tlc -config proxy_core.cfg MCCacheProxy`,
`tlc -config singleflight.cfg MCSingleflight`,
`tlc -config storage_turns.cfg MCLocalStorage`, and so on: `PROJECT.json` has
the module of each run. `tlapm CacheProxyProofs.tla` checks proofs.

## 1. The system

### Components

| component | code | state | operations that change it |
|---|---|---|---|
| request path | `internal/proxy/proxy.go` | none of its own; one goroutine per request plus the goroutines it leaves behind | `ServeHTTP`, `serve` (levels L1, L2, L3), `recordEvent`, `recordCVEAlerts` |
| shared fetch | `internal/singleflight/singleflight.go` | `Group.calls` under a mutex; per call a wait group, `val`, `err` | `Do` |
| fetch loop | `internal/proxy/retry.go`, `fetchFromUpstream` | attempt counter, request context | up to 3 attempts with back-off |
| rate limiter | `internal/ratelimit/ratelimit.go` | a token bucket per ecosystem | `Wait` |
| cache index | `internal/cache/redis.go` | Redis: (ecosystem, name, version) -> checksum, with a TTL | `Get`, `Set`, `Delete`, expiry |
| metadata store | `internal/db/package_store.go` | tables `packages`, `cache_events`, `cve_alerts` | upserts, touch, list expired, delete, inserts |
| artifact storage | `internal/storage/local.go`, `s3.go` | checksum -> bytes | `Put`, `Get`, `Delete`, `Exists` |
| eviction worker | `internal/eviction/eviction.go` | the list its cycle works through | `Run`, `evict`, `evictOne` |
| security check | `internal/security/*.go` | none; asks OSV | `Check` |
| ecosystems, router | `internal/ecosystem/*.go`, `internal/proxy/router.go` | none | `Match`, `Parse`, `CacheKey`, `UpstreamURL`, `RewriteMetadata` |
| migration | `cmd/migrate/main.go` | a worker pool over a snapshot of `packages` | `Get` locally, `Put` to S3 |
| process | `main.go` | the steps of `run`, its deferred calls, two HTTP servers, the `quit` channel | start, signals, shutdown, exit |
| REST API, dashboard | `internal/api`, `dashboard` | none; a walk through pages on the client's side | `COUNT` and `SELECT` of a page |
| authentication, health check | `internal/auth`, `cmd/healthcheck` | the configured users | who is let in |
| metrics, configuration, deployment | `internal/metrics`, `internal/config`, `deploy` | counters; start-up values | |

### How they interact

A request for an artifact goes through `serve`:

1. **L1**: `redis.Get`; if it names a checksum and `storage.Get` finds it, reply
   from the cache and leave a goroutine behind (`TouchPackage`, `RecordEvent`).
2. **L2**: `db.GetPackage`; a blocked row is a 403. A cached row whose artifact
   is in storage is a reply, with a goroutine (`redis.Set`, `RecordEvent`).
3. **L3**: `security.Check`. A block is a 403 with a goroutine that writes a
   blocked row; an error of the check lets the package through. Then
   `singleflight.Do` around limiter and upstream; the leader stores the
   artifact, replies, and leaves a goroutine (`redis.Set`, `UpsertPackage`,
   `RecordEvent`), and callers who joined reply with what the leader fetched.

Every error of a call to Redis, database or storage on this path is logged and
treated as a miss. An error that comes while an artifact is being copied to the
client is logged too, but the 200 has gone out and the copy ends early. Beside it the eviction worker lists expired rows in one query and
then, one row after the other, deletes artifact, Redis key and row. All of it
shares Redis, PostgreSQL and the storage with no lock across them; the only
mutual exclusion is the mutex of the singleflight group, in one process.

The "checksum" that the layers exchange is `CacheKey()`: the name
`ecosystem:name:version:filename`, not a digest. Redis, the packages table and
the singleflight group are keyed by ecosystem, name and version *without* the
file name. A version with several files (a Maven jar and its sources, the
`.tar.gz` and the `.zip` of a PyPI source release) therefore shares one index
entry and one flight.

Inside the flight the leader waits for a token of its ecosystem's bucket and
then asks upstream, up to three times, all under the context of its own
request; callers that joined wait for the outcome and for nothing else.

The migration tool runs beside the proxy. It reads `packages` once, hands the
artifacts to a pool of workers over an unbuffered channel, and each worker
copies a file to the bucket, while the proxy stores and evicts.

The packages table keeps two times of a row, `cached_at` and `last_hit_at`. A
hit through Redis leaves a goroutine that sets the second; a hit through the
table and a fetch that finds its row set neither. The worker goes by the later
of the two, Redis by the time of the last `Set`, and both by the same TTL.

Which request is which is decided by the router and the ecosystem handlers: a
URL is cut into segments, the segments into parts, and the parts make up the
three keys (index, flight, storage) and the upstream URL. Links in npm and PyPI
metadata are rewritten to lead back to the proxy, and are parsed there again.

`run` opens storage, Redis and database, starts the worker and two servers and
waits for a signal or for a listener to fail. Then it shuts both servers down,
one after the other under one context of 15 seconds, and calls what it deferred.

### Hard behaviours, and what correctness means

| behaviour | what must hold |
|---|---|
| callers join, lead and leave a flight while it lands and is deleted from the table | one fetch per key, one outcome for all who shared it, no join of a finished flight, nobody waits for ever |
| each request checks for itself and OSV may change its mind | no artifact gets into a cache or to a client before some check let its package through |
| three indexes keyed by package, storage keyed by file | artifacts of two packages are never mixed up; an object holds its own bytes |
| writes after the reply, in goroutines that ignore errors | replies do not depend on them; what is stored gets a row; each hit and each fetch is counted once |
| eviction in three steps on a stale list, among requests | rows past their TTL go; what else it can delete is a matter of [findings](#4-findings) |
| overlapping `Put`s of one artifact through one `.tmp` file | readers get complete files, or the incomplete one is being completed |
| crash or restart between any two steps | nothing durable breaks the above |
| storage fails while an artifact is on its way to a client | the reply is cut short and nothing else of the request changes |
| the leader's client leaves, with followers waiting; the bucket stays empty; errors that pass and errors that do not | every outcome is explained by the fetch it comes from, no request for who has left, every fetch ends |
| migration on a stale list, with failing uploads, kills and re-runs | a reported success is true, nothing is uploaded twice, the pool drains |
| who sets the times of a row and who reads them, hours apart | no row goes while its package is in use, up to the uses that the code does not record; what nobody uses goes |
| pages of a list that changes between two requests, and between the two queries of one | a walk misses and repeats no more lines than changes account for |
| two signals, failing listeners, hanging handlers and a deadline, in any order | nothing is cut before the deadline, the process ends |
| paths that are parsed into keys and rebuilt into URLs | files are kept apart, a rewritten link leads to what it named |
| severities from two rules, dropped records, thresholds that may be unset | a package is blocked exactly for a vulnerability at or above the threshold |

`PROJECT.json` lists the hazards line by line with the properties that cover
them, and says which are still open.

## 2. Modules

| module | models | kind |
|---|---|---|
| `SharedFetch` | a shared computation as clients see it: `Begin`, `Attach`, `End`, `Answer` | abstract |
| `Singleflight` | `Group.Do`, one critical section per action; implements `SharedFetch` | detailed |
| `ProxyContract` | what a client is promised, with no cache in sight | abstract |
| `CacheProxy` | request path, index, packages table, audit tables, flights (instance of `Singleflight`), background goroutines, eviction worker, ageing, expiry, clients that leave, restart; implements `ProxyContract` and `RowLife` | composition |
| `AtomicStore` | an object store: a `Put` appears at once or not at all | abstract |
| `LocalStorage` | `Local.Put` one system call at a time, `Get` with the copy that reads the file, `Delete`, crash; implements `AtomicStore` when Puts of an artifact take turns | detailed |
| `Fetch` | the function given to `Group.Do`: limiter, retry loop, contexts, around an instance of `Singleflight`, whose fairness it implements | detailed |
| `Migrate` | the migration tool beside a proxy at work | detailed |
| `RowLife` | the packages table with one bit instead of times | abstract |
| `Expiry` | `cached_at`, `last_hit_at`, the TTL of Redis, the worker's query against a clock; implements `RowLife` | detailed |
| `Reports` | the paged lists of the REST API and the walk through them | detailed |
| `Rules` | from the answer of OSV to allow, warn or block | operators |
| `Routes` | router, four ecosystem handlers, keys, upstream URLs, rewritten links | operators |
| `Service` | the process: start, servers, authentication, signals, shutdown; extends `Routes` and `Rules`, which `run` builds its router and checker from | composition |
| `MC*` | constants for TLC | |
| `*Proofs` | theorems and their proofs | |

Definitions whose comment starts with "Mutant" are not part of a model: each is
the form that the definition below it would have after a plausible mistake in
the code, and makes the property that is paired with it in `PROJECT.json` fail.

### Singleflight

`calls` is `g.calls`, keyed by package; a call object is named by the caller
that created it. `wg`, `val` are the object's wait group and outcome; `ret` is
what `Do` returned. `Join` and `Lead` are the critical section of lines 30-42
(a caller that finds its key, or that registers itself); `FnReturns` is line
44, `Land` is `wg.Done`, `Forget` the locked delete and return, `Wake` the
return of a caller that waited. Callers can still join between `Land` and
`Forget`, as in the code. Memory order is given by the mutex and the wait group.

### CacheProxy

A *file* is an artifact URL: it stands for its `CacheKey` and for the bytes
that upstream has under it. `PkgOf` maps it to its package. A step is one call
on a shared service with the local computation up to the next call.

| variables | code |
|---|---|
| `redis`, `db`, `store` | the Redis keys, the packages table (status, checksum, and whether the last access is older than the TTL), the artifact storage |
| `events`, `alerts` | rows of `cache_events` and `cve_alerts`, by the request they come from |
| `want`, `pc`, `found`, `reply` | the request's file, its place in `serve`, the checksum in scope, what was sent |
| `job` | the next call of the goroutine left behind |
| `sfpc` ... `sfret` | the singleflight group |
| `wpc`, `todo`, `victim` | the worker's place, the rest of its list, the package at hand |
| `passed`, `condemned`, `evicted`, `gone`, `crashes` | history: verdicts heard, rows the worker came to, clients that left, restarts |

| actions | code |
|---|---|
| `LookupRedis`, `OpenL1` | `redis.Get`, `storage.Get` (proxy.go:156-171) |
| `LookupRow`, `OpenL2` | `db.GetPackage`, `storage.Get` (173-195) |
| `ScanAllows`, `ScanBlocks` | `security.Check` and its outcome (197-225) |
| `EnterFlight`, `UpstreamAnswers`, `LandFlight`, `LeaveAsLeader`, `LeaveAsFollower` | `sf.Do` (227-257); the fetch is one step with its possible outcomes |
| `PutArtifact` | `storage.Put` and the reply (259-284) |
| `TouchPackage`, `Backfill`, `IndexArtifact`, `UpsertPackage`, `UpsertBlocked`, `RecordEvent`, `RecordCVEAlerts` | the calls of the background goroutines, in order |
| `ListExpired`, `EvictArtifact`, `EvictKey`, `EvictRow` | the eviction worker |
| `Age`, `RedisExpires`, `ClientLeaves`, `Restart` | the environment |

A call on a service in the constant `Faulty` may fail. A call that fails after
it took effect is told apart where the code does so: `storage.Delete`, whose
error makes the worker skip the package. Elsewhere the code goes on in the same
way, so "took effect" and "succeeded" are one case.

`serve` commits the 200 of a hit before it reads the artifact
(`writeArtifactHeaders`, then `io.Copy`, proxy.go:160-161 and 184-185) and only
logs an error of the copy: `Streams` sends a reply whose `whole` is false when
storage fails or the client has left, and the request goes on as after any
other hit. What a miss sends comes from memory.

A handler's calls are made under the context of its request. When its client
leaves (`ClientLeaves`), the handler goes on and each of its calls may fail
(`CallMayFail`), the limiter's wait and the upstream fetch included; a leader
then takes the error back to every caller that joined. Background goroutines
have a context of their own (`context.Background()`) and are not affected.

The rows that `ListExpired` returns are worked off in any order. Only the
worker deletes rows and there is one, so deleting by id deletes the row of the
package that was listed, whatever has been written into it since.

`ProxyContract` is what all this amounts to for a client: an artifact of its
package, let through by a check, cut short only if storage failed or the client
itself left; a 403 after a verdict; a 429 or 502 that it owes to the limiter, to
upstream, or to a client of the same package that left (not necessarily itself).

`store` is atomic here, which is what `LocalStorage` implements as long as
Puts of one artifact take turns, and what an object store offers. They can
overlap: the leader leaves the flight (proxy.go:228) before it stores (261), so
a second leader may fetch and store the same file. `storage_races` and
[finding 4](#4-findings) look at that case. For `CacheProxy` a backend that then
shows a part of a file is a faulty `"storage"`, whose artifacts may be cut short.

### Fetch

One ecosystem: its bucket (`tokens`), its packages, the requests that reach
`sf.Do`. `fpc` is the place of a leader in the function it passes to `Do`,
`attempts` the upstream requests it has made, `gone` the requests whose client
has left and whose context net/http has cancelled.

| actions | code |
|---|---|
| `Enter`, `Leave` | the critical sections of `Do`, steps of the `Singleflight` instance |
| `AskLimiter`, `AwaitToken` | `Limiter.Wait`, which follows the leader's context; `Refused` and `Refill` are `rate.Limiter`'s |
| `AskUpstream` | `doFetch` up to the request, which the transport refuses to a context that is over |
| `UpstreamAnswers` | the answer and what the loop makes of it: data, back-off, or an outcome (`isRetryable` sorts `transient` from `permanent`) |
| `Backoff` | the select over timer and context |
| `ClientGoes`, `Refill` | the environment |

Where `CacheProxy` has the whole fetch as one step with the outcomes that
limiter and upstream allow, `Fetch` says which of them can come about, and that
one of them does (`CacheProxy` lets a client that left cause either error;
`Fetch` tells when it does): `ImplementsSingleflight` includes the fairness that
`Singleflight` assumes of the function it is given.

Tokens come at any rate, and delays end at any time: durations (back-off,
jitter, Retry-After) are left out. An attempt after the first takes no token, as
in the code.

### Migrate

`main` is the place of the main goroutine or how the run ended; `listed` is the
work list, `todo` what has not been handed out; `HandOut` is a send with its
receive, since the channel has no buffer. `wpc` and `holding` are the workers.
The four counters are kept as `verdict`, which counter counted an artifact, so
that the summary can be compared with the bucket. `Kill` ends a run anywhere,
with any of the uploads on their way arriving; `Start` begins another one, dry
or not. `Proxy` is any call that proxy and eviction worker make on the two
stores, in any order, which includes the orders of `CacheProxy`. An upload that
fails may have taken effect.

### LocalStorage

One artifact; every `Put` writes the same `Size` blocks, since all of them have
the bytes of one `CacheKey`. `final` and `tmp` are the two names and hold an
inode, named by the `Put` that created it; `data` is the set of blocks written
to an inode, because each writer has an offset of its own. `Create` is
`os.Create`, which truncates the inode of an existing `.tmp`, so two Puts
can write to one inode, rename it and remove it under each other. With
`DiskMayFail` create, write, close and rename may fail; with `WritersTakeTurns`
a `Put` starts only when none is in progress. `Crash` ends all calls and keeps
the directory.

### Expiry and RowLife

`row` has the two times as ages in ticks, up to `TTL + 1`, "older than the
TTL"; `key` is the age of a Redis key, which goes when it reaches the TTL;
`jobs` are the background goroutines. A request is one step (`HitRedis`,
`HitRow`, `Miss`, `Block`) and leaves its goroutine; services do not fail, a
package has one file: faults and interleavings of requests are `CacheProxy`'s.
`Tick` happens while no goroutine is at work, because a tick is an hour or more
and a goroutine ends within seconds; the worker, whose cycle may be long, can
be anywhere. `used`, `how` and `late` are history: when the package was last
served, by what, and whether that was after the cycle had listed it.

`RowLife` is the table with the one bit `idle` that `CacheProxy` keeps:
its `Write`, `Touch`, `Age`, `List`, `Delete` and `PassOver` (an eviction that
fails, or is cut off by a restart) are what happens to a row. Both detailed
modules implement it, each by an `ImplementsRowLife` of its own: `Expiry` shows
that the times provide the bit, `CacheProxy` that requests, faults and restarts
leave the table to it.

### Reports

`table` is the packages table, newest row first (`Insert`, `Delete`). A list is
given by its `Lines`, their order (`Before`: by the newest of their rows) and
the `Place` that it gives each of them; `Page` is the lines whose places lie
between offset and offset plus size. `Ask`,
`Count`, `List`, `Show` are the steps of a page: the request's parameters as
`parsePage` reads them, the `COUNT`, the `SELECT` with its offset, the answer,
after which the dashboard goes on to the next page. `DatabaseFails` ends a
request. Offsets are in integers of `IntMax`, so that their overflow is that of
Go's `int` at a smaller width.

### Rules and Routes

`Rules` has a vulnerability as what the scan reads of it: the database of its
ID, the severity it states, the impact metrics of its CVSS vector. `Severity`,
`Dropped`, `MaxSeverity`, `Evaluate`, `Check` are the functions of scanner.go,
policy.go and checker.go.

In `Routes` a path is a sequence of segments and a segment the sequence of
parts that the regular expressions cut it into: `<<"@", "types">>` is a scope,
`<<"a", "1.0", ".zip">>` the file `a-1.0.zip`, `Empty` what two slashes have
between them. `Route` is `Router.Match` with
the beginning of `ServeHTTP`; `Parse`, `CacheKey`, `Index`, `UpstreamURL`,
`MetadataUpstreamURL` and `Rewritten` are the handlers. Two names that
`normalise` or the decoding of `!x` take to one are in `MCService`.

### Service

`pc` is where `run` is, `defers` its deferred calls, `status` the exit status.

| actions | code |
|---|---|
| `StepSucceeds`, `StepFails` | config, storage, Redis, database, schema migration (main.go:41-120); the worker starts with the last |
| `Listen`, `ListenFails`, `SendQuit` | the goroutines around `ListenAndServe` |
| `Signal` | SIGINT or SIGTERM, which ends the process before `signal.Notify` |
| `Await`, `CloseListener`, `Stopped`, `DeadlinePasses`, `Return` | the shutdown and the deferred calls |
| `Accept`, `Reply`, `JobEnds`, `WorkerRuns` | a request with its authentication and route, its goroutine, the worker's cycles |

## 3. Runs

All runs finish; state counts are distinct states.

| run | constants | checks | states |
|---|---|---|---|
| `singleflight` | 4 callers, 2 keys, 2 results, fairness | `OneFetchPerKey`, `SharedOutcome`, `FreshFetch`, `ImplementsSharedFetch`, `EveryCallerReturns` | 67,528 |
| `proxy_core` | 3 requests, 3 files of 2 packages, eviction on, no faults, rows may age at any time | `PolicyGate`, `OwnArtifacts`, `ArtifactHasRow` | 3,457,899 |
| `proxy_faults` | 2 requests, 2 files of 1 package, every service but upstream may fail, 1 client leaves, 1 restart | `ProxyInv` (types included), `AuditTrail`, `ImplementsContract` | 829,505 |
| `proxy_live` | 2 requests, 1 file, every service may fail, 1 restart, fairness | `EveryRequestAnswered`, `BackgroundDrains`, `IdleRowsGo` | 121,433 |
| `storage_turns` | 3 writers in turns, 2 readers, 2 blocks, disk may fail, 1 crash | `WholeReads`, `NoTmpLeft`, `ImplementsAtomicStore` | 123,268 |
| `storage_races` | 3 overlapping writers, 2 readers, 2 blocks, working disk | `WillBeWhole`, `ErrorsLoseRaces` | 168,215 |
| `fetch` | 3 requests, 2 packages, 1 token, 2 attempts, limiter on, fairness | `OneUpstreamRequest`, `OutcomesHaveCause`, `NoRequestForGone`, `FetchesEnd`, `GoneLeadersGiveUp`, `ImplementsSingleflight` | 223,847 |
| `migrate` | 2 artifacts, 2 workers, 2 runs, any rows and files to begin with, fairness | `SuccessIsTrue`, `NoSecondUpload`, `DryRunTouchesNothing`, `RunsEnd` | 59,688 |
| `expiry` | 2 packages, TTL of 2 ticks, 2 goroutines at a time, fairness | `EvictedForCause`, `ImplementsRowLife`, `UnusedRowsGo` | 1,155,379 |
| `reports` | 5 rows of 3 packages, pages of 1 and 2, `int` of 4 bits, 2 changes in a walk | `MissesHaveCause`, `RepeatsHaveCause`, `PageFitsTotal` | 1,549,980 |
| `service` | 3 requests, one to the metrics server, authentication on, paths of all four ecosystems, 8 vulnerabilities, fairness | `GracefulExit`, `RouterKeepsFilesApart`, `RouterLeadsBack`, `CheckerBlocksForCause`, `SignalEnds` | 253,661 |

One more run, `proxy_wrong_file`, expects a violation; see
[findings](#4-findings). The type invariants and inductive invariants of the
modules are proved for every instance (section 5), so that most runs need not
check them again.

What they show:

- `OneFetchPerKey`, `SharedOutcome`, `FreshFetch`, `EveryCallerReturns`: the
  deduplication of fetches, in every interleaving of `Do`.
- `PolicyGate`: nothing of a package that no check let through is indexed,
  stored, being fetched or served. It takes one write-back too many, by any
  request, and every later request is served with no check at all.
- `OwnArtifacts`: index, storage, worker list and replies agree on which
  package an artifact belongs to, and no object holds the bytes of another
  file, although files of a version share an index entry and a flight.
- `AuditTrail`: a `cache_events` row matches a reply that was sent; a fetch
  that many callers shared counts as one miss; with a working database and no
  restart no row is missing. The hit rate of `GetStats` rests on this.
- `ArtifactHasRow`: with a working database and no restart, what is in storage
  is known to the packages table or about to be, until the worker comes to its
  row. (What happens then is finding 2.)
- `ImplementsContract`: faults of Redis, database and OSV never reach a client,
  and those of storage only as a 200 whose artifact ends early; a 429 or 502
  comes from limiter or upstream, or from a client of the same package that
  left, which may be another one than the client that gets it; a 403 follows a
  verdict; a 200 follows a check and has an artifact of the package. No error
  comes of a dangling index entry, a write that failed or an eviction at work.
- `IdleRowsGo`: a row past its TTL is evicted, touched or blocked, whatever
  Redis does and also across a restart.
- `WholeReads`, `NoTmpLeft`, `ImplementsAtomicStore`: while Puts take turns, a
  reader gets a whole artifact or none, through disk errors and a crash, and
  without a crash no `.tmp` file outlives the Puts.
- `WillBeWhole`, `ErrorsLoseRaces`: when Puts overlap on a working disk, an
  incomplete file that is visible has a writer that completes it, and a `Put`
  returns an error only because another one renamed the file away.

- `OutcomesHaveCause`: whoever is given an outcome, the fetch that it shared
  explains it; an error that may pass is returned only after all attempts, and
  a cancellation or a 429 comes from the *leader's* context. It follows that a
  caller can be answered 502 or 429 because another client left, which is the
  exception that `ProxyContract` makes.
- `OneUpstreamRequest`: no two requests for one package are out at a time, in
  the loop with its repeated attempts and when clients leave while one is out.
- `FetchesEnd`, `GoneLeadersGiveUp`, `ImplementsSingleflight`: with tokens
  coming, every fetch ends whatever upstream answers; without, it ends when the
  leader's client leaves. The second is what frees callers that joined.
- `SuccessIsTrue`, `NoSecondUpload`: what the migration reports is true of the
  bucket, across failed uploads, kills, re-runs and a proxy at work. It speaks
  of the artifacts that were listed: what the proxy caches after that is not
  copied, although lines 4-5 of `main.go` promise that nothing need be fetched
  again.
- `RunsEnd`: main and workers never wait for each other.
- `EvictedForCause`: whatever the order of hits, misses, blocks, touches and the
  steps of a cycle, a row that is deleted belongs to a package that was not
  served within the TTL, with two exceptions that the property names: the last
  use left no mark in the row, or it came after the cycle had listed the row.
- `ImplementsRowLife`: the table with its times is the table with one bit on
  which `CacheProxy` is built.
- `UnusedRowsGo`: the row of a package that nobody asks for any more is deleted
  in the end, although Redis forgets the package sooner and the row may have been
  written, touched or listed at any time before.
- `MissesHaveCause`, `RepeatsHaveCause`: somebody who walks through the pages
  sees every line that was there throughout, except for one line per change
  that moved a line away (or came in the middle of the last page); and sees a
  line twice only once per change that put a line before it. Deletions by the
  eviction worker are what makes lines be missed.
- `PageFitsTotal`: with a table at rest the page is as long as its total says,
  for every page number, up to the overflow of the offset. It is about the
  arithmetic of one request: what an overflow gives, and what rows that come
  between the two queries do, it leaves out on purpose (the latter is in
  `MissesHaveCause`).
- `GracefulExit`: a handler is cut only after the deadline, the exit status
  shows it if it was a proxy request, and until then Redis and the database are
  open for it. A shutdown of the metrics server that times out leaves the proxy
  server nothing, and is the case that makes the property hard.
- `SignalEnds`: a signal, or a listener that fails, ends the process, whatever
  else happens at the same time: two failing listeners and a channel with room
  for one value, a signal before the channel exists, a handler that hangs.
- `RouterKeepsFilesApart`: which requests the three keys hold to be the same.
  For npm and Maven equal storage keys mean equal upstream URLs; for PyPI and
  Go they need not (the hash part of a PyPI path is not in the key); index and
  flight mix files of a Maven or PyPI version (finding 1).
- `RouterLeadsBack`: every link in npm and PyPI metadata, rewritten, comes back
  to a route, and its request is for what the link named, if the ecosystem is
  enabled and the file of a type that its handler knows.
- `CheckerBlocksForCause`: a package is blocked exactly if the check is on, OSV
  answered, and some vulnerability is as severe as a threshold that is set. The
  records that the scan drops never make a difference.

### Bounds, and why they are enough

- *Three requests* on one package are a leader, a follower and one that comes
  later, or one at each level of the cache; with the worker beside them every
  pair of steps that write the same key interleaves. *Four callers* of
  `Group.Do` allow two flights of one key in sequence beside a flight of the
  other key.
- *Two files of one package* are the case where index and flight mix files;
  `proxy_core` adds a second package, for cross-package mix-ups and for a
  worker list of two entries. Upstream works in `proxy_faults`, so that a 502
  has no excuse but the client that left; failed fetches are the limiter's, and
  upstream's in `proxy_live`.
- *One client that leaves* (`MaxLeavers`), of two, is the leader with a follower
  that stays, or the other way round, at each place of the handler.
  `proxy_live` has none: every service may fail there, so a client that leaves
  adds no behaviour but the record of it. That no run has two packages and
  faults at once leaves one thing unchecked: whether a package whose eviction
  fails keeps the others of its cycle waiting.
- *One restart* (`MaxCrashes`) separates what is durable from what is not; a
  second one finds the same durable states again. The proofs have no bound.
- *One token, two attempts*: two leaders compete for a token, and the loop has a
  first and a last attempt, with a back-off between them. Requests of two
  packages, two of them for the same one, are a flight with a follower beside
  another flight.
- *Two artifacts, two workers, two runs*: workers that compete for a hand-off,
  one that works twice while the other one is idle, a second run after each way
  the first one can end.
- *A TTL of two ticks* tells "just used", "older" and "as old as the TTL" from
  "past it", and lets a key of Redis be written again before a row is past it.
  Two packages make a list of two. Ages stop at `TTL + 1`: nothing tells older
  ones apart. Two goroutines at a time (`MaxJobs`) are a touch that races an
  upsert, or two packages at once.
- *Five rows of three packages*, three versions of one: pages of one and two lines
  are up to three pages, the last of them half full or empty. Two changes in a
  walk are an insertion and a deletion in either order. With four bits, page 7 of
  two lines overflows.
- *Three requests to two servers*: one holds up the metrics server while another
  is at work on the proxy server and a third is refused. `MCService` has
  paths for every alternative of the patterns; a scope, names that are spelled
  in two ways, versions with several files, directories of a dotted group.
- *Size 2* tells an empty file, a part and the whole apart.
- Requests are interchangeable: `RequestSymmetry` is used in the safety runs
  and never with liveness.
- `CHECK_DEADLOCK FALSE` where requests, callers or runs are finitely many and
  the system stops when all are done; `expiry` and `reports` go on for ever and
  are checked for deadlocks.

`TTLExceedsRequests` is `FALSE` in the passing runs: a row may count as expired
at any time, which includes every real schedule. It is `TRUE` where a violation
is looked for: there a row ages only while no request is at work on its
package, since the TTL is at least an hour and a request ends within minutes
(`WriteTimeout`, main.go:162). The counterexamples need no request that lasts
longer than the TTL.

### Fairness

- Every goroutine, once started, keeps taking steps: `WF` on the handler of a
  request that has arrived, on its background goroutine and on its alert
  recorder, and on the worker. The Go scheduler is fair, HTTP client and
  drivers have timeouts, so a call ends with an answer or an error. No fairness
  is assumed for a client that has not sent its request, for ageing, expiry,
  faults or restarts.
- In `Singleflight`, `WF` for each caller that leads or has joined a call,
  including the end of `fn`, which runs under the HTTP client's 5 minute timeout.
- In `Fetch`, `WF` for the leader's steps and for leaving `Do`; none for clients,
  and none for `Refill` in the specification, since `requests_per_second` may
  be 0: `FetchesEnd` and `ImplementsSingleflight` carry `WF_vars(Refill)` as a
  premise and `GoneLeadersGiveUp` does without.
- In `Migrate`, `WF` for main and for each worker; S3 calls return, in any way.
- In `Expiry`, `WF` for time, for the worker, whose ticker keeps starting
  cycles, and for background goroutines; none for requests.
- In `Service`, `WF` for `run`, for the deadline and for the servers'
  goroutines; none for handlers, which may hang, and none for clients, signals
  or listeners that fail.
- `Reports` has no liveness: nobody has to turn a page.
- `IdleRowsGo` carries its own premise: the storage delete and the row delete
  of the package succeed if they are tried again and again (`SF` on `Evicts`
  and `Deletes`). Storage that always fails keeps its rows, by design.

## 4. Findings

Statements that the repository makes about the program and that the code does
not keep. The first one has a run; each of the others is a definition beside
the properties of its module, and the row says how to run it.

| | statement | what the code does | how to see it |
|---|---|---|---|
| 1 | README.md:109, serving by checksum returns what was fetched | the index and the flight have no file name: a request for one file of a version is served another | run `proxy_wrong_file`, `ServedWantedFile` |
| 2 | README.md:173, the deletion order prevents orphans | a request stores the artifact anew between the storage delete and the row delete; the row goes, the artifact stays | `proxy_wrong_file.cfg` with `PROPERTY NoOrphanLeft` |
| 3 | eviction/integration_test.go:19, a blocked package is never deleted | blocked after it was listed, it is deleted, and its block forgotten | the same with `BlockedRowsStay` |
| 4 | README.md:111, `.tmp` and rename prevent partial reads | two Puts share one `.tmp`: one renames the file that the other has just truncated; it heals itself once the last writer is done (`WillBeWhole`) | `storage_races.cfg` with `INVARIANT WholeReads` |
| 5 | README.md:171, packages go whose last access is older than the TTL | a hit through the table (proxy.go:190-193) and a fetch that finds its row (package_store.go:33) leave no mark, so a package served a moment ago may go | `expiry.cfg` with `PROPERTY LastAccessCounts` |

Noted while reading, without a run or a property of their own: the comment of
`serve` (proxy.go:145-147) says that status 200 is written "only once a
successful result is certain", but on a hit it is written before the artifact is
read, so storage that fails in the middle gives a 200 that is cut short (a
`Deliver` of `ProxyContract` that is not whole); the comment of `parseSince`
(handler.go:52) speaks of durations such as "7d", which `time.ParseDuration`
does not know; the summaries count blocked rows among the cached versions
(package_store.go:267, 277).

## 5. Proofs

TLAPS checks the theorems for every value of the constants: any number of
callers, requests, packages, files, restarts, any set of faulty services, any
artifact size. The assumptions are the named `ASSUME`s of the modules: `PkgOf`
maps files (requests) to packages, `Faulty` names services, bounds are numbers,
there is at least one attempt, the TTL is positive, `Known` holds vulnerabilities,
`Paths` and `Links` are made of segments (`PathsAssumption`; the links are such as
the registries publish, `LinksAssumption`), and `None` differs from the values it
stands beside. `Reports` assumes that the sizes are those of the code, that query
parameters are ints, and that the packages can be counted with an int
(`PackagesAssumption`). (`PoolNotEmpty` of `Migrate` serves `RunsEnd` only.)

| theorem | statement |
|---|---|
| `SingleflightProofs!CallTableInvariant` | `Spec => []CallTable` |
| `OneFetch`, `CallersAgree`, `FetchesAreFresh` | `OneFetchPerKey`, `SharedOutcome`, `FreshFetch` |
| `Refinement` | `Singleflight` implements `SharedFetch` |
| `CacheProxyProofs!ProxyInvariant` | `Spec => []ProxyInv` |
| `TypeCorrect`, `GateHolds`, `ArtifactsStayApart` | `TypeOK`, `PolicyGate`, `OwnArtifacts` |
| `ContractKept` | `CacheProxy` implements `ProxyContract`, for any services that fail and any clients that leave |
| `TrailKept`, `StoredIsRecorded` | `AuditTrail`, `ArtifactHasRow` |
| `TableProvidesRowLife`, `WorkListSound` | `CacheProxy` implements `RowLife`, and `Spec => []WorkList` that this rests on |
| `FetchesAreShared`, `ProxyKeepsSingleflight` | `OneFetchPerKey` and `SharedOutcome` in the proxy, restarts included; without a restart, `Spec => SF!Spec` |
| `LocalStorageProofs!TurnsInvariant`, `NoPartialReads`, `AtomicInTurns` | while Puts take turns: `TurnsInv`, `WholeReads`, the refinement of `AtomicStore` |
| `LocalStorageProofs!TypeCorrect`, `NoTmpStays` | `TypeOK`, `NoTmpLeft`, with overlapping Puts too |
| `RacesInvariant`, `DamageHeals`, `LosersLost` | with a disk that works and no crash: `RacesInv`, `WillBeWhole`, `ErrorsLoseRaces` |
| `FetchProofs!FetchInvariant`, `TypeCorrect` | `FetchInv`, `TypeOK` |
| `OneRequest`, `OutcomesCaused`, `GoneNotAskedFor` | `OneUpstreamRequest`, `OutcomesHaveCause`, `NoRequestForGone` |
| `KeepsSingleflight` | `Spec => SF!Spec`, the safety part of `ImplementsSingleflight` |
| `MigrateProofs!MigrateInvariant`, `TypeCorrect` | `MigrateInv`, `TypeOK` |
| `SuccessIsCopied`, `UploadedOnce`, `DryRunIsDry` | `SuccessIsTrue`, `NoSecondUpload`, `DryRunTouchesNothing` |
| `ExpiryProofs!TimesKeepUpAlways` | `Spec => []TimesKeepUp` |
| `RowsGoForCause`, `TimesProvideRowLife` | `EvictedForCause`, `Expiry` implements `RowLife` |
| `ReportsProofs!ReportsInvariant`, `TypeCorrect` | `ReportsInv`, `TypeOK` |
| `MissesExplained`, `RepeatsExplained`, `PagesFit` | `MissesHaveCause`, `RepeatsHaveCause`, `PageFitsTotal`, for any number of changes |
| `ServiceProofs!CheckBlocksForCause`, `CheckNeverMilder` | `BlocksForCause`, and `NeverMilder`: one more vulnerability never makes the outcome milder; for any set of known vulnerabilities |
| `ServiceInvAlways`, `ExitIsGraceful` | `ServiceInv`, `GracefulExit` |
| `CheckerAlwaysBlocksForCause` | `CheckerBlocksForCause`, from the first of these |
| `RouterAlwaysKeepsFilesApart`, `RouterAlwaysLeadsBack` | `RouterKeepsFilesApart`, `RouterLeadsBack`, for any paths and links |

The arguments:

- **`CallTable`.** One fetch per key says nothing about how a leader got there.
  Inductive is: the table has a call exactly for the callers between `Lead` and
  `Forget`, under their own key (`RegisteredCalls`); whoever joined, joined a
  caller of its key that led (`JoinedCalls`); the wait group is up exactly until
  the call has landed (`CallObjects`); who returned has the outcome of the call
  it joined (`Outcomes`).
- **`ProxyInv`.** `PolicyGate` is not inductive: the leader's write-back is
  harmless only because the request was past its check. Where a request is
  decides what it holds (`RequestPlaces`), what a leader brings back is its own
  file (`OwnFetches`), so that what it stores under its own key are its own
  bytes; `SF!CallTable` says that what a follower was given comes from a leader
  of the same package, and its error, if nothing failed, from that leader's
  client having left. `OwnArtifacts` and `PolicyGate` then carry over every
  write, the restart included, which keeps only durable state.
  `BlockedByVerdict` gives the contract its 403s. The proof of
  `SingleflightProofs` is instantiated for the flights, not repeated.
- **`TrailInv`.** `AuditTrail` counts what has been written. Inductive is with it
  that the goroutine which will write an event belongs to a reply of that kind,
  and that the request which will store an artifact led the fetch (`CountedJobs`):
  the goroutine, when its turn comes, writes the one row that was missing.
- **`ArtifactHasRow`** is inductive relative to `ProxyInv`: a store leaves a
  goroutine behind that writes the row, `OwnFetches` makes it the row of the
  package that was stored, and only the worker deletes rows, of packages that it
  has taken from its list.
- **`TurnsInv`.** A file that has the final name is complete and nobody writes
  to it (`ShownWhole`); the Put at work owns `.tmp` (`OwnTmp`) and an inode
  that no reader has open (`NewInodes`, `Aside`).
- **`NoTmpLeft`, `RacesInv`.** The first does not need turns: whoever's name
  `.tmp` is, that Put or one that opened its file is still in progress
  (`TmpHasPut`). For the second, a Put fails only after it has lost `.tmp`: the
  name is gone before it renames, and only a Put that renamed the file, and so
  succeeded, takes it away (`LosersHaveWinner`). And each block that a file with
  either name misses is still ahead of a writer of that file (`BeingCompleted`):
  who truncates the file begins with its first block (`Offsets`).
- **`FetchInv`.** `OutcomesHaveCause` is about callers that have returned, who
  know only whom they joined. Inductive is: a request is in the fetch function
  exactly while its call is running, and where it is bounds its attempts
  (`FetchPlaces`); the outcome in its call object tells how it left
  (`LeaderOutcomes`). The call table, again by the instance of
  `SingleflightProofs`, takes that to the followers.
- **`MigrateInv`.** A success is true if nothing listed was lost on the way:
  each listed artifact is waiting, with exactly one worker, or counted
  (`HandOff`); counters agree with the bucket (`Reckoning`); and what a worker
  means to upload is in nobody else's hands, so it is not in the bucket
  (`NoSecondUpload`, which is part of the invariant).

- **`TimesKeepUp`.** A row that goes was listed some steps earlier, by a time
  that was older than the TTL then; what counts is the last use *now*. Inductive
  is: the times of a row are no older than the last use that left a mark, once
  its touch has landed (`MarksShow`), and whatever the cycle has still to delete
  has its row and had no such use within the TTL, unless it came late
  (`ListIsSound`). `Tick` carries both because no goroutine is at work across
  it. The refinement of `RowLife` needs `ListIsSound` too: a delete of the
  detailed table has to be one of a listed row that is there.
- **`WorkList`.** The same of `CacheProxy`: a step of a request never takes a row
  away (`RequestKeepsList`), so what a cycle listed is there until its turn
  comes; and because the cycle has each package once, a delete takes exactly
  one off the list. A request may have written over the row or touched it
  meanwhile; `RowLife` allows that, as the code does. TLC found no violation of
  `WorkList` and of `CacheProxy`'s `ImplementsRowLife` with the constants of
  `proxy_faults` (829,505 states) before they were proved; no run repeats that.
- **`NeverMilder`, `BlocksForCause`.** The largest severity exists, because it
  is chosen from five numbers of which one occurs, and is at least that of each
  record; a record that is dropped has severity `Unknown`, which no threshold
  that is set lies at or below. So dropping records does not change whether the
  threshold is reached.
- **`ReportsInv`.** Whoever counts the lines that a walk missed at its end cannot
  tell when it passed them. Inductive is a balance at each step: the unseen lines
  above the place that the walk has reached are no more than the changes that took
  a line away (`PassedUnseen`); the lines seen twice so far and the seen lines
  below that place, which it will see again, are together no more than the changes
  that put a line somewhere (`SeenAhead`). A change moves one line (`RemovedRow`,
  `AddedRow`), so at most one line changes sides of any place, and none from above
  to below unless a line was put before it (`FewCross`): if two crossed, the second
  would have moved by two places. A page moves the place and shows exactly what lies
  between, because places number the lines without gaps (`PlacesAreANumbering`);
  the lines below the last page are those by which COUNT is off (`CountIsNear`,
  `LinesBeyond`). An offset that is no int belongs to a first page, which is the
  only one of its walk (`FirstOrInt`).
- **The router.** Two files of one index key in npm or Go have the same name and
  the same version; the version is the file without its extension and, in npm,
  without the last segment of the name, so both files are put together from the
  same parts again (`FileOfVersion`). A link that was rewritten has one segment
  more in front (`Prefixed`): each pattern, which is over positions counted from
  the end, finds the same parts in it, and the upstream URL that is made of these
  parts is the link.
- **`ServiceInv`.** Where `run` is decides what is deferred, which servers may
  have handlers at work and whether the deadline runs; a handler is at work after
  `Stopped` only if the deadline has passed, and on the proxy server only if
  `failed` is set.

Only model-checked: all liveness (`EveryCallerReturns`, `EveryRequestAnswered`,
`BackgroundDrains`, `IdleRowsGo`, `FetchesEnd`, `GoneLeadersGiveUp`, `RunsEnd`,
`UnusedRowsGo`, `SignalEnds`, and the fairness in `ImplementsSingleflight`),
which is beyond the prover. Every invariant that a run checks is proved.

## 6. Not modelled

- Metrics, logging and configuration: no effect on the state above. The
  configuration is read once (a step of `Service` that may fail), and the
  settings that matter are constants of the modules.
- The alert and statistics queries and `handleConfig`: single reads without
  state. The schema migration: one step of `Service` that may fail.
- The answer to a metadata request beyond its URL and its links: one upstream
  GET and no state; it passes by limiter, flights and cache. `RewriteResponse`
  returns the body for all four ecosystems, so its error path never runs.
- Characters: patterns are over segments and parts, so what regular expressions
  do to unusual characters, and the `:` in keys that join their parts, is left
  out.
- A panic in the function given to `Do`, which would leave the flight in the
  table. Nothing in the fetch panics by design.
- The S3 client library, Redis, PostgreSQL, OSV and net/http themselves: each
  call is atomic, and net/http does what its documentation says of `Shutdown`.
- More than one process: the deployment runs one replica, and flights and
  worker are per process. A second replica would be a second leader per key.
- Deployment files, the health-check command (one HTTP GET), the pages of the
  dashboard beyond the walk through a list.
- Reads that fail in `LocalStorage` and `AtomicStore`, whose properties are about
  what a reader that gets to the end has seen: a read that fails is a reply cut
  short in `CacheProxy`.
- The `WriteTimeout` of 10 minutes (main.go:162) and a connection that breaks: for
  the model, a client that leaves, or one that does not read its reply.
- Several artifacts in `LocalStorage`: they have different paths. Rows with equal
  `cached_at` in `Reports`: the database may order them anyhow.
- `migrate --workers 0`, which hangs.

## 7. Order of work, and what is left

What decides whether clients get the right artifact came first: `SharedFetch`,
`Singleflight`, `ProxyContract`, `CacheProxy`, `AtomicStore`, `LocalStorage`,
`Fetch`, `Migrate`; then time: `RowLife`, `Expiry`; then the edges: `Routes`,
`Rules`, `Service`, `Reports`; each with the proofs of section 5.

Not stated as a theorem: that `Fetch` may stand in for the one step
`UpstreamAnswers` of `CacheProxy`. `KeepsSingleflight` says that the fetch
function, from its call to its return, is one `FnReturns` of `Singleflight`,
which is what `UpstreamAnswers` is (`ProxyKeepsSingleflight`); `OutcomesHaveCause`
says of each outcome where it comes from: a 429 from the limiter or from the
leader's context while it waits for a token (`"limited"`); any other error, a
cancellation included, is an error of the fetch (`"failed"`), which `CacheProxy`
allows where upstream may fail or the leader is in `gone`.
