----------------------------- MODULE CacheProxy -----------------------------
(***************************************************************************)
(* The request path of CacheProxyfy together with everything that runs     *)
(* beside it: Proxy.serve (internal/proxy/proxy.go) over the Redis index,  *)
(* the packages table and the artifact storage, the singleflight group     *)
(* that misses go through, the background goroutines a request leaves      *)
(* behind, the eviction worker (internal/eviction/eviction.go), clients    *)
(* that leave before they are answered, and the restart of the process.    *)
(*                                                                         *)
(* A file is an artifact URL: it stands for its CacheKey (ecosystem, name, *)
(* version and filename) and for the bytes upstream serves under it.       *)
(* Several files can belong to one package, the (ecosystem, name, version) *)
(* that keys Redis, the packages table and the singleflight group.         *)
(*                                                                         *)
(* A step is one call on a shared service with the local computation up to *)
(* the next call.  A call on a service in Faulty may fail.  A call that    *)
(* fails after taking effect is told from a success only where the code    *)
(* tells it: for the storage Delete of the eviction worker, and for a read *)
(* from storage that ends early, when part of the reply has been sent.     *)
(***************************************************************************)
EXTENDS FiniteSets, Integers

CONSTANTS
    Requests,           \* client requests for an artifact
    Packages,           \* (ecosystem, name, version)
    Files,              \* artifact files
    PkgOf,              \* the package a file belongs to
    None,               \* no value: nil, an absent key, an absent row
    Faulty,             \* services whose calls may fail
    EvictionEnabled,    \* ttl_hours > 0
    TTLExceedsRequests, \* rows do not age while a request is at work on them
    MaxCrashes,         \* bound on the restarts a behaviour has
    MaxLeavers          \* bound on the clients that leave

Services == {"redis", "db", "storage", "upstream", "limiter"}
FetchErrors == {"limited", "failed"}    \* errRateLimited, any other error
Results == Files \cup FetchErrors       \* what the shared fetch returns

(* Rows of the packages table; what matters of last_hit_at and cached_at   *)
(* is whether the later of them is older than the TTL.                     *)
Rows == [status : {"cached", "blocked"}, checksum : Files \cup {None}, idle : BOOLEAN]

(* Replies: 200 from the cache, 200 from upstream, 403, 429, 502, and the  *)
(* connection lost to a restart.  The body of a 200 may be cut short.      *)
Replies ==
    [kind : {"hit", "miss"}, file : Files, whole : BOOLEAN]
      \cup [kind : {"blocked", "limited", "failed", "aborted"}, file : {None}, whole : {TRUE}]

ASSUME PackageOfFile == PkgOf \in [Files -> Packages]
ASSUME FaultyServices == Faulty \subseteq Services
ASSUME BoundsAndFlags ==
    /\ {EvictionEnabled, TTLExceedsRequests} \subseteq BOOLEAN
    /\ {MaxCrashes, MaxLeavers} \subseteq Nat
ASSUME NilIsNoValue == None \notin Requests \cup Results
ASSUME NilIsNoRecord == None \notin Rows \cup Replies
ASSUME NilIsNoEvent == None \notin {"hit", "miss"}
ASSUME ErrorsAreNotFiles == Files \cap FetchErrors = {}

VARIABLES
    \* the durable state
    redis,      \* Redis: package -> checksum (a CacheKey), or None
    db,         \* packages table: package -> row, or None
    store,      \* artifact storage: CacheKey -> the bytes stored, or None
    events,     \* cache_events rows, by the request that caused them
    alerts,     \* cve_alerts goroutines and rows, by request
    \* a request, in ServeHTTP
    want,       \* the file the request asks for; never changes
    pc,         \* where the request is in serve
    found,      \* the checksum its index lookup returned, while in scope
    reply,      \* what the client was sent
    job,        \* the background goroutine the request left behind
    \* the singleflight group (module Singleflight)
    sfpc, calls, joined, wg, val, sfret,
    \* the eviction worker
    wpc, todo, victim,
    \* what happened so far
    passed,     \* packages a security check let through
    condemned,  \* packages a security check blocked
    evicted,    \* packages whose row the worker has tried to delete
    gone,       \* requests whose client left before it was answered
    crashes     \* restarts so far

index   == <<redis, db>>
audit   == <<events, alerts>>
request == <<pc, found, reply>>
flight  == <<sfpc, calls, joined, wg, val, sfret>>
worker  == <<wpc, todo, victim>>
history == <<passed, condemned, evicted, gone, crashes>>
vars == <<index, store, audit, want, request, job, flight, worker, history>>

Pkg(r) == PkgOf[want[r]]

SF == INSTANCE Singleflight WITH
    Callers <- Requests,
    Keys    <- Packages,
    key     <- [r \in Requests |-> Pkg(r)],
    pc      <- sfpc,
    ret     <- sfret

MayFail(service) == service \in Faulty

\* A handler's calls are made under the context of its request, which is
\* cancelled when the client leaves; each of them may fail for that reason.
CallMayFail(service, r) == MayFail(service) \/ r \in gone

-----------------------------------------------------------------------------
(* The index: a Redis key and a row of the packages table per package.     *)
RedisSet(p, checksum) ==
    \/ redis' = [redis EXCEPT ![p] = checksum]
    \/ MayFail("redis") /\ UNCHANGED redis

RedisDelete(p) ==
    \/ redis' = [redis EXCEPT ![p] = None]
    \/ MayFail("redis") /\ UNCHANGED redis

WriteRow(p, row) ==
    \/ db' = [db EXCEPT ![p] = row]
    \/ MayFail("db") /\ UNCHANGED db

DeletePackage(p) ==
    \/ db' = [db EXCEPT ![p] = None]
    \/ MayFail("db") /\ UNCHANGED db

\* INSERT ... ON CONFLICT DO UPDATE leaves cached_at and last_hit_at alone: a
\* row that was idle for the TTL stays so, a new row is not.
Upserted(row, status, checksum) ==
    [status |-> status, checksum |-> checksum, idle |-> row # None /\ row.idle]

Touched(row) == IF row = None THEN None ELSE [row EXCEPT !.idle = FALSE]

IsCached(p) == db[p] # None /\ db[p].status = "cached"
IsBlocked(p) == db[p] # None /\ db[p].status = "blocked"
IsExpired(p) == IsCached(p) /\ db[p].idle

(* Replying and moving on.                                                 *)
Replied(r, k, f, whole) ==
    /\ reply' = [reply EXCEPT ![r] = [kind |-> k, file |-> f, whole |-> whole]]
    /\ pc' = [pc EXCEPT ![r] = "done"]

Sends(r, k, f) == Replied(r, k, f, TRUE)

\* The status goes out before the artifact is read: an error of io.Copy is
\* logged, and the handler goes on as if all of it had been sent.
Streams(r, f) ==
    \E whole \in BOOLEAN :
        /\ whole \/ CallMayFail("storage", r)
        /\ Replied(r, "hit", f, whole)

Goes(r, label) == pc' = [pc EXCEPT ![r] = label] /\ UNCHANGED reply

Spawns(r, first) == job' = [job EXCEPT ![r] = first]

Served(r) == reply[r] # None /\ reply[r].kind \in {"hit", "miss"}

-----------------------------------------------------------------------------
RequestStates == {"idle", "l1", "l2", "l2store", "scan", "fetch", "put", "done"}
JobStates == {"none", "touch", "backfill", "index", "upsert", "event", "block"}
WorkerStates == {"sleep", "sweep", "redis", "row"}

Init ==
    /\ redis = [p \in Packages |-> None]
    /\ db = [p \in Packages |-> None]
    /\ store = [f \in Files |-> None]
    /\ events = [r \in Requests |-> None]
    /\ alerts = [r \in Requests |-> "none"]
    /\ want \in [Requests -> Files]
    /\ pc = [r \in Requests |-> "idle"]
    /\ found = [r \in Requests |-> None]
    /\ reply = [r \in Requests |-> None]
    /\ job = [r \in Requests |-> "none"]
    /\ sfpc = [r \in Requests |-> "start"]
    /\ calls = [p \in Packages |-> None]
    /\ joined = [r \in Requests |-> None]
    /\ wg = [r \in Requests |-> 0]
    /\ val = [r \in Requests |-> None]
    /\ sfret = [r \in Requests |-> None]
    /\ wpc = "sleep"
    /\ todo = {}
    /\ victim = None
    /\ passed = {}
    /\ condemned = {}
    /\ evicted = {}
    /\ gone = {}
    /\ crashes = 0

-----------------------------------------------------------------------------
(* Definitions whose comment begins with "Mutant" are no part of the       *)
(* model: each is a form that the definition below it could have taken by  *)
(* a mistake in the code, and breaks a property that a run checks.         *)

(* L1: the Redis index, then the artifact it names.                        *)
LookupRedis(r) ==
    /\ pc[r] = "idle"
    /\ \/ /\ redis[Pkg(r)] # None
          /\ found' = [found EXCEPT ![r] = redis[Pkg(r)]]
          /\ Goes(r, "l1")
       \/ /\ redis[Pkg(r)] = None \/ CallMayFail("redis", r)
          /\ Goes(r, "l2")
          /\ UNCHANGED found
    /\ UNCHANGED <<index, store, audit, want, job, flight, worker, history>>

OpenL1(r) ==
    /\ pc[r] = "l1"
    /\ found' = [found EXCEPT ![r] = None]
    /\ \/ /\ store[found[r]] # None
          /\ Streams(r, store[found[r]])
          /\ Spawns(r, "touch")
       \/ /\ store[found[r]] = None \/ CallMayFail("storage", r)
          /\ Goes(r, "l2")
          /\ UNCHANGED job
    /\ UNCHANGED <<index, store, audit, want, flight, worker, history>>

\* Mutant: a row that cannot be read is taken for one already checked.
LookupRowOrTrust(r) ==
    /\ pc[r] = "l2"
    /\ \/ /\ IsBlocked(Pkg(r))
          /\ Sends(r, "blocked", None)
          /\ UNCHANGED found
       \/ /\ IsCached(Pkg(r))
          /\ found' = [found EXCEPT ![r] = db[Pkg(r)].checksum]
          /\ Goes(r, "l2store")
       \/ /\ db[Pkg(r)] = None
          /\ Goes(r, "scan")
          /\ UNCHANGED found
       \/ /\ CallMayFail("db", r)
          /\ Goes(r, "fetch")
          /\ UNCHANGED found
    /\ UNCHANGED <<index, store, audit, want, job, flight, worker, history>>

(* L2: the packages table.  A blocked row ends the request.                *)
LookupRow(r) ==
    /\ pc[r] = "l2"
    /\ \/ /\ IsBlocked(Pkg(r))
          /\ Sends(r, "blocked", None)
          /\ UNCHANGED found
       \/ /\ IsCached(Pkg(r))
          /\ found' = [found EXCEPT ![r] = db[Pkg(r)].checksum]
          /\ Goes(r, "l2store")
       \/ /\ db[Pkg(r)] = None \/ CallMayFail("db", r)
          /\ Goes(r, "scan")
          /\ UNCHANGED found
    /\ UNCHANGED <<index, store, audit, want, job, flight, worker, history>>

\* Mutant: a row whose artifact is gone sends the request back to the index.
OpenL2OrRetry(r) ==
    /\ pc[r] = "l2store"
    /\ \/ /\ store[found[r]] # None
          /\ Streams(r, store[found[r]])
          /\ Spawns(r, "backfill")
          /\ UNCHANGED found
       \/ /\ store[found[r]] = None \/ CallMayFail("storage", r)
          /\ found' = [found EXCEPT ![r] = None]
          /\ Goes(r, "l2")
          /\ UNCHANGED job
    /\ UNCHANGED <<index, store, audit, want, flight, worker, history>>

\* found stays in scope on a hit: the backfill goroutine captures it.
OpenL2(r) ==
    /\ pc[r] = "l2store"
    /\ \/ /\ store[found[r]] # None
          /\ Streams(r, store[found[r]])
          /\ Spawns(r, "backfill")
          /\ UNCHANGED found
       \/ /\ store[found[r]] = None \/ CallMayFail("storage", r)
          /\ found' = [found EXCEPT ![r] = None]
          /\ Goes(r, "scan")
          /\ UNCHANGED job
    /\ UNCHANGED <<index, store, audit, want, flight, worker, history>>

(* L3: the security check.  OSV may answer anything at any time, and a     *)
(* check that fails lets the package through with no records.              *)
ScanAllows(r) ==
    /\ pc[r] = "scan"
    /\ \E records \in {"none", "pending"} : alerts' = [alerts EXCEPT ![r] = records]
    /\ passed' = passed \cup {Pkg(r)}
    /\ Goes(r, "fetch")
    /\ UNCHANGED <<index, store, events, want, found, job, flight, worker,
                   condemned, evicted, gone, crashes>>

\* Mutant: the return after a blocked check is missing.
ScanBlocksAndGoesOn(r) ==
    /\ pc[r] = "scan"
    /\ alerts' = [alerts EXCEPT ![r] = "pending"]
    /\ condemned' = condemned \cup {Pkg(r)}
    /\ Goes(r, "fetch")
    /\ Spawns(r, "block")
    /\ UNCHANGED <<index, store, events, want, found, flight, worker,
                   passed, evicted, gone, crashes>>

ScanBlocks(r) ==
    /\ pc[r] = "scan"
    /\ alerts' = [alerts EXCEPT ![r] = "pending"]
    /\ condemned' = condemned \cup {Pkg(r)}
    /\ Sends(r, "blocked", None)
    /\ Spawns(r, "block")
    /\ UNCHANGED <<index, store, events, want, found, flight, worker,
                   passed, evicted, gone, crashes>>

(* L3: the shared upstream fetch, p.sf.Do(...).                            *)
EnterFlight(r) ==
    /\ pc[r] = "fetch"
    /\ UNCHANGED <<index, store, audit, want, request, job, worker, history>>
    /\ SF!Join(r) \/ SF!Lead(r)

\* The rate limiter's Wait and the upstream fetch with its retries, both under
\* the context of the leader's request.
UpstreamAnswers(r) ==
    /\ UNCHANGED <<index, store, audit, want, request, job, worker, history>>
    /\ \/ SF!FnReturns(r, want[r])
       \/ CallMayFail("limiter", r) /\ SF!FnReturns(r, "limited")
       \/ CallMayFail("upstream", r) /\ SF!FnReturns(r, "failed")

LandFlight(r) ==
    /\ UNCHANGED <<index, store, audit, want, request, job, worker, history>>
    /\ SF!Land(r)

\* The leader returns from Do: an error is its reply, data goes to storage.
LeaveAsLeader(r) ==
    /\ UNCHANGED <<index, store, audit, want, found, job, worker, history>>
    /\ SF!Forget(r)
    /\ \/ sfret'[r] \in FetchErrors /\ Sends(r, sfret'[r], None)
       \/ sfret'[r] \in Files /\ Goes(r, "put")

\* Mutant: every caller of the shared fetch stores what it was given.
LeaveAsFollowerAndStore(r) ==
    /\ UNCHANGED <<index, store, audit, want, found, job, worker, history>>
    /\ SF!Wake(r)
    /\ \/ sfret'[r] \in FetchErrors /\ Sends(r, sfret'[r], None)
       \/ sfret'[r] \in Files /\ Goes(r, "put")

\* Mutant: every caller of the shared fetch records a miss.
LeaveAsFollowerAndCount(r) ==
    /\ UNCHANGED <<index, store, audit, want, found, worker, history>>
    /\ SF!Wake(r)
    /\ \/ sfret'[r] \in FetchErrors /\ Sends(r, sfret'[r], None) /\ UNCHANGED job
       \/ sfret'[r] \in Files /\ Sends(r, "miss", sfret'[r]) /\ Spawns(r, "event")

\* A caller that joined replies with what the leader fetched.
LeaveAsFollower(r) ==
    /\ UNCHANGED <<index, store, audit, want, found, job, worker, history>>
    /\ SF!Wake(r)
    /\ \/ sfret'[r] \in FetchErrors /\ Sends(r, sfret'[r], None)
       \/ sfret'[r] \in Files /\ Sends(r, "miss", sfret'[r])

\* Mutant: an artifact that cannot be stored is an error.
PutArtifactOrFail(r) ==
    /\ pc[r] = "put"
    /\ \/ /\ store' = [store EXCEPT ![want[r]] = IF @ = None THEN sfret[r] ELSE @]
          /\ Sends(r, "miss", sfret[r])
          /\ Spawns(r, "index")
       \/ /\ CallMayFail("storage", r)
          /\ Sends(r, "failed", None)
          /\ UNCHANGED <<store, job>>
    /\ UNCHANGED <<index, audit, want, found, flight, worker, history>>

\* storage.Put does nothing when the object exists; its error is only logged.
PutArtifact(r) ==
    /\ pc[r] = "put"
    /\ \/ store' = [store EXCEPT ![want[r]] = IF @ = None THEN sfret[r] ELSE @]
       \/ CallMayFail("storage", r) /\ UNCHANGED store
    /\ Sends(r, "miss", sfret[r])
    /\ Spawns(r, "index")
    /\ UNCHANGED <<index, audit, want, found, flight, worker, history>>

-----------------------------------------------------------------------------
(* Background goroutines.  Each makes its calls in order and ignores their *)
(* errors.                                                                 *)
Proceeds(r, from, to) == job[r] = from /\ job' = [job EXCEPT ![r] = to]

\* Mutant: a touch that finds no row is repeated until there is one.
TouchPackageAgain(r) ==
    /\ Proceeds(r, "touch", "event")
    /\ db[Pkg(r)] # None
    /\ WriteRow(Pkg(r), Touched(db[Pkg(r)]))
    /\ UNCHANGED <<redis, store, audit, want, request, flight, worker, history>>

TouchPackage(r) ==
    /\ Proceeds(r, "touch", "event")
    /\ WriteRow(Pkg(r), Touched(db[Pkg(r)]))
    /\ UNCHANGED <<redis, store, audit, want, request, flight, worker, history>>

Backfill(r) ==
    /\ Proceeds(r, "backfill", "event")
    /\ RedisSet(Pkg(r), found[r])
    /\ found' = [found EXCEPT ![r] = None]
    /\ UNCHANGED <<db, store, audit, want, pc, reply, flight, worker, history>>

IndexArtifact(r) ==
    /\ Proceeds(r, "index", "upsert")
    /\ RedisSet(Pkg(r), want[r])
    /\ UNCHANGED <<db, store, audit, want, request, flight, worker, history>>

\* Mutant: the write-back updates a row and does not insert one.
UpdatePackage(r) ==
    /\ Proceeds(r, "upsert", "event")
    /\ IF db[Pkg(r)] = None THEN UNCHANGED db
       ELSE WriteRow(Pkg(r), Upserted(db[Pkg(r)], "cached", want[r]))
    /\ UNCHANGED <<redis, store, audit, want, request, flight, worker, history>>

UpsertPackage(r) ==
    /\ Proceeds(r, "upsert", "event")
    /\ WriteRow(Pkg(r), Upserted(db[Pkg(r)], "cached", want[r]))
    /\ UNCHANGED <<redis, store, audit, want, request, flight, worker, history>>

UpsertBlocked(r) ==
    /\ Proceeds(r, "block", "none")
    /\ WriteRow(Pkg(r), Upserted(db[Pkg(r)], "blocked", None))
    /\ UNCHANGED <<redis, store, audit, want, request, flight, worker, history>>

RecordEvent(r) ==
    /\ Proceeds(r, "event", "none")
    /\ \/ events' = [events EXCEPT ![r] = reply[r].kind]
       \/ MayFail("db") /\ UNCHANGED events
    /\ UNCHANGED <<index, store, alerts, want, request, flight, worker, history>>

RecordCVEAlerts(r) ==
    /\ alerts[r] = "pending"
    /\ \/ alerts' = [alerts EXCEPT ![r] = "recorded"]
       \/ MayFail("db") /\ alerts' = [alerts EXCEPT ![r] = "none"]
    /\ UNCHANGED <<index, store, events, want, request, job, flight, worker, history>>

-----------------------------------------------------------------------------
(* The eviction worker.  A cycle works on the rows its query returned: it  *)
(* removes the artifact, the Redis key and the row, in that order.  Only   *)
(* the worker deletes rows and there is one worker, so the row of a        *)
(* package that the cycle deletes by id is still the row it listed.        *)
Expired == {p \in Packages : IsExpired(p)}

ListExpired ==
    /\ EvictionEnabled
    /\ wpc = "sleep"
    /\ Expired # {}
    /\ todo' = {[pkg |-> p, checksum |-> db[p].checksum] : p \in Expired}
    /\ wpc' = "sweep"
    /\ UNCHANGED <<index, store, audit, want, request, job, flight, victim, history>>

NextVictim(rest) == wpc' = IF rest = {} THEN "sleep" ELSE "sweep"

EvictArtifact(v) ==
    /\ wpc = "sweep"
    /\ v \in todo
    /\ todo' = todo \ {v}
    /\ \/ /\ store' = [store EXCEPT ![v.checksum] = None]
          /\ victim' = v.pkg
          /\ wpc' = "redis"
       \/ /\ MayFail("storage")     \* the package is skipped in this cycle
          /\ store' \in {store, [store EXCEPT ![v.checksum] = None]}
          /\ NextVictim(todo')
          /\ UNCHANGED victim
    /\ UNCHANGED <<index, audit, want, request, job, flight, history>>

\* Mutant: a package whose index key cannot be deleted is skipped.
EvictKeyOrSkip ==
    /\ wpc = "redis"
    /\ \/ /\ redis' = [redis EXCEPT ![victim] = None]
          /\ wpc' = "row"
          /\ UNCHANGED victim
       \/ /\ MayFail("redis")
          /\ NextVictim(todo)
          /\ victim' = None
          /\ UNCHANGED redis
    /\ UNCHANGED <<db, store, audit, want, request, job, flight, todo, history>>

EvictKey ==
    /\ wpc = "redis"
    /\ wpc' = "row"
    /\ RedisDelete(victim)
    /\ UNCHANGED <<db, store, audit, want, request, job, flight, todo, victim, history>>

EvictRow ==
    /\ wpc = "row"
    /\ victim' = None
    /\ NextVictim(todo)
    /\ DeletePackage(victim)
    /\ evicted' = evicted \cup {victim}
    /\ UNCHANGED <<redis, store, audit, want, request, job, flight, todo,
                   passed, condemned, gone, crashes>>

-----------------------------------------------------------------------------
(* The environment.                                                        *)

InFlight(r) == pc[r] \notin {"idle", "done"}
Busy(r) == InFlight(r) \/ job[r] # "none"

\* The row's last access falls behind the TTL.  The TTL is a number of hours
\* and a request ends within minutes (WriteTimeout, main.go:162), so no request
\* is at work from the last access until then; without TTLExceedsRequests the
\* row may age at any time, which allows more behaviours.
Age(p) ==
    /\ db[p] # None /\ ~db[p].idle
    /\ TTLExceedsRequests => \A r \in Requests : Pkg(r) = p => ~Busy(r)
    /\ db' = [db EXCEPT ![p].idle = TRUE]
    /\ UNCHANGED <<redis, store, audit, want, request, job, flight, worker, history>>

\* A Redis key reaches the TTL it was set with.
RedisExpires(p) ==
    /\ redis[p] # None
    /\ redis' = [redis EXCEPT ![p] = None]
    /\ UNCHANGED <<db, store, audit, want, request, job, flight, worker, history>>

\* The client leaves, or its connection breaks, before the handler is done:
\* the context of the request is cancelled, the handler goes on.
ClientLeaves(r) ==
    /\ Cardinality(gone) < MaxLeavers
    /\ InFlight(r) /\ r \notin gone
    /\ gone' = gone \cup {r}
    /\ UNCHANGED <<index, store, audit, want, request, job, flight, worker,
                   passed, condemned, evicted, crashes>>

\* The process dies and is started again: handlers, background goroutines,
\* the singleflight group and the worker's cycle are gone.
Restart ==
    /\ crashes < MaxCrashes
    /\ crashes' = crashes + 1
    /\ pc' = [r \in Requests |-> IF InFlight(r) THEN "done" ELSE pc[r]]
    /\ reply' = [r \in Requests |->
                    IF InFlight(r) THEN [kind |-> "aborted", file |-> None, whole |-> TRUE] ELSE reply[r]]
    /\ found' = [r \in Requests |-> None]
    /\ job' = [r \in Requests |-> "none"]
    /\ alerts' = [r \in Requests |-> IF alerts[r] = "pending" THEN "none" ELSE alerts[r]]
    /\ sfpc' = [r \in Requests |-> "start"]
    /\ calls' = [p \in Packages |-> None]
    /\ joined' = [r \in Requests |-> None]
    /\ wg' = [r \in Requests |-> 0]
    /\ val' = [r \in Requests |-> None]
    /\ sfret' = [r \in Requests |-> None]
    /\ wpc' = "sleep"
    /\ todo' = {}
    /\ victim' = None
    /\ UNCHANGED <<index, store, events, want, passed, condemned, evicted, gone>>

-----------------------------------------------------------------------------
Handler(r) ==
    \/ LookupRedis(r) \/ OpenL1(r) \/ LookupRow(r) \/ OpenL2(r)
    \/ ScanAllows(r) \/ ScanBlocks(r)
    \/ EnterFlight(r) \/ UpstreamAnswers(r) \/ LandFlight(r)
    \/ LeaveAsLeader(r) \/ LeaveAsFollower(r) \/ PutArtifact(r)

Background(r) ==
    \/ TouchPackage(r) \/ Backfill(r) \/ IndexArtifact(r) \/ UpsertPackage(r)
    \/ UpsertBlocked(r) \/ RecordEvent(r)

Worker == ListExpired \/ (\E v \in todo : EvictArtifact(v)) \/ EvictKey \/ EvictRow

Environment ==
    \/ \E p \in Packages : Age(p) \/ RedisExpires(p)
    \/ \E r \in Requests : ClientLeaves(r)
    \/ Restart

Next ==
    \/ \E r \in Requests : Handler(r) \/ Background(r) \/ RecordCVEAlerts(r)
    \/ Worker
    \/ Environment

(* Goroutines are scheduled fairly and every service answers or fails in   *)
(* finite time (the HTTP client and the drivers have timeouts).  A client  *)
(* need not send its request or leave, nor must anything age or crash.     *)
Fairness ==
    /\ \A r \in Requests :
          /\ WF_vars(pc[r] # "idle" /\ Handler(r))
          /\ WF_vars(Background(r))
          /\ WF_vars(RecordCVEAlerts(r))
    /\ WF_vars(Worker)

Spec == Init /\ [][Next]_vars
FairSpec == Spec /\ Fairness

-----------------------------------------------------------------------------
Entries == [pkg : Packages, checksum : Files]   \* listed by an eviction cycle

(* Every variable has its type.                                            *)
TypeOK ==
    /\ redis \in [Packages -> Files \cup {None}]
    /\ db \in [Packages -> Rows \cup {None}]
    /\ store \in [Files -> Files \cup {None}]
    /\ events \in [Requests -> {None, "hit", "miss"}]
    /\ alerts \in [Requests -> {"none", "pending", "recorded"}]
    /\ want \in [Requests -> Files]
    /\ pc \in [Requests -> RequestStates]
    /\ found \in [Requests -> Files \cup {None}]
    /\ reply \in [Requests -> Replies \cup {None}]
    /\ job \in [Requests -> JobStates]
    /\ SF!TypeOK
    /\ wpc \in WorkerStates
    /\ todo \subseteq Entries
    /\ victim \in IF wpc \in {"redis", "row"} THEN Packages ELSE {None}
    /\ passed \subseteq Packages
    /\ condemned \subseteq Packages
    /\ evicted \subseteq Packages
    /\ gone \subseteq Requests
    /\ crashes \in 0..MaxCrashes

(* Nothing of a package moves into a cache, a queue of work or a client    *)
(* before a security check let the package through (proxy.go:199-216 is on *)
(* every way to lines 228, 261 and 264): whatever slips into the index is  *)
(* served from then on with no check.                                      *)
PolicyGate ==
    \A p \in Packages \ passed :
        /\ redis[p] = None
        /\ ~IsCached(p)
        /\ \A f \in Files : PkgOf[f] = p => store[f] = None
        /\ \A r \in Requests : Pkg(r) = p =>
              /\ pc[r] \notin {"l1", "l2store", "fetch", "put"}
              /\ job[r] \in {"none", "block"}
              /\ ~Served(r)

(* The index names, the storage holds and the worker deletes only          *)
(* artifacts of the package concerned, and an object's bytes are those     *)
(* that upstream has under the object's own key: a reply shared by two     *)
(* files of one package is never stored for the wrong one.                 *)
OwnArtifacts ==
    /\ \A p \in Packages :
          /\ redis[p] # None => PkgOf[redis[p]] = p
          /\ IsCached(p) => db[p].checksum # None /\ PkgOf[db[p].checksum] = p
    /\ \A f \in Files : store[f] \in {None, f}
    /\ \A v \in todo : PkgOf[v.checksum] = v.pkg
    /\ \A r \in Requests :
          /\ found[r] # None => PkgOf[found[r]] = Pkg(r)
          /\ Served(r) => PkgOf[reply[r].file] = Pkg(r)

(* The inductive invariant behind the theorems of CacheProxyProofs: where  *)
(* a request is decides what it holds, what the shared fetch knows of it   *)
(* and which goroutine it left behind.                                     *)
RequestPlaces ==
    \A r \in Requests :
        /\ reply[r] # None <=> pc[r] = "done"
        /\ pc[r] \in {"l1", "l2store"} \/ job[r] = "backfill" => found[r] # None
        /\ sfpc[r] \notin {"start", "returned"} => pc[r] = "fetch"
        /\ pc[r] = "put" => sfret[r] = want[r]
        /\ job[r] # "none" => pc[r] = "done"
        /\ job[r] \notin {"none", "block"} => Served(r)

\* The leader of a fetch brings back its own file, or an error it may meet.
OwnFetches ==
    \A r \in Requests :
        /\ val[r] \in {None, want[r]} \cup FetchErrors
        /\ val[r] = "limited" => CallMayFail("limiter", r)
        /\ val[r] = "failed" => CallMayFail("upstream", r)

\* A blocked row, and the goroutine that writes one, follow a verdict.
BlockedByVerdict ==
    /\ \A p \in Packages : IsBlocked(p) => p \in condemned
    /\ \A r \in Requests : job[r] = "block" => Pkg(r) \in condemned

ProxyInv ==
    /\ TypeOK /\ SF!CallTable /\ RequestPlaces
    /\ OwnFetches /\ BlockedByVerdict /\ PolicyGate /\ OwnArtifacts

(* cache_events has a row only for a reply that was sent, of its kind, and *)
(* an upstream fetch is one "miss" however many callers shared it; with no *)
(* restart and a database that works, no row is missing once the           *)
(* background goroutine is done.  GetStats derives the hit rate from these *)
(* rows (package_store.go:495-527).                                        *)
Counted(r) ==
    /\ Served(r)
    /\ reply[r].kind = "miss" => joined[r] = r

AuditTrail ==
    \A r \in Requests :
        /\ events[r] # None => Served(r) /\ events[r] = reply[r].kind
        /\ crashes = 0 =>
              /\ events[r] # None => Counted(r)
              /\ Counted(r) /\ job[r] = "none" /\ ~MayFail("db") => events[r] # None

(* What makes AuditTrail inductive: who brings an artifact to storage has  *)
(* led its fetch, and of the goroutines a reply leaves behind, those that  *)
(* end with an event belong to a reply that counts and the one that        *)
(* records a verdict to one that does not.                                 *)
CountedJobs ==
    \A r \in Requests :
        /\ job[r] = "block" => ~Served(r)
        /\ crashes = 0 =>
              /\ pc[r] = "put" => joined[r] = r
              /\ job[r] \notin {"none", "block"} => Counted(r)

TrailInv == AuditTrail /\ CountedJobs

(* Where the database works, nothing restarts and the worker has not come  *)
(* to its row, an artifact in storage is one the packages table knows of,  *)
(* or the goroutine that will record it is on its way (proxy.go:261-276).  *)
ArtifactHasRow ==
    ~MayFail("db") /\ crashes = 0 =>
        \A f \in Files : store[f] # None =>
            \/ db[PkgOf[f]] # None
            \/ \E r \in Requests : want[r] = f /\ job[r] \in {"index", "upsert"}
            \/ PkgOf[f] \in evicted

(* Every request that arrives is answered, through every miss, dangling    *)
(* index entry, fault of a service, shared fetch and restart.              *)
EveryRequestAnswered ==
    \A r \in Requests : pc[r] # "idle" ~> reply[r] # None

(* The goroutines a request leaves behind come to an end.                  *)
BackgroundDrains ==
    \A r \in Requests :
        (job[r] # "none" \/ alerts[r] = "pending")
            ~> (job[r] = "none" /\ alerts[r] # "pending")

(* A cached row whose last access is older than the TTL does not stay so:  *)
(* it is evicted unless it is touched or blocked first, provided that      *)
(* storage and the database do not fail every time; that Redis fails, or   *)
(* that the process restarts, does not matter (eviction.go:98-144).        *)
Evicts(p) == \E v \in todo : v.pkg = p /\ EvictArtifact(v) /\ victim' = p
Deletes(p) == EvictRow /\ victim = p /\ db'[p] = None

IdleRowsGo ==
    \A p \in Packages :
        SF_vars(Evicts(p)) /\ SF_vars(Deletes(p)) => (IsExpired(p) ~> ~IsExpired(p))

-----------------------------------------------------------------------------
(* A client sees a status and a body, not the caches.                      *)
Status(kind) ==
    CASE kind \in {"hit", "miss"} -> 200
      [] kind = "blocked" -> 403
      [] kind = "limited" -> 429
      [] kind = "failed" -> 502
      [] kind = "aborted" -> 0

Answer(r) ==
    IF reply[r] = None THEN None
    ELSE [status |-> Status(reply[r].kind), file |-> reply[r].file, whole |-> reply[r].whole]

Contract == INSTANCE ProxyContract WITH
    answer <- [r \in Requests |-> Answer(r)]

(* What clients see is what ProxyContract promises.                        *)
ImplementsContract == Contract!Spec

-----------------------------------------------------------------------------
(* The packages table with the rest of the program around it: the worker   *)
(* deletes what it listed, and nothing else takes a row or its age away.   *)
RowView(row) ==
    IF row = None THEN None
    ELSE [status |-> row.status, use |-> IF row.idle THEN "idle" ELSE "fresh"]

ASSUME NilIsNoView == None \notin [status : {"cached", "blocked"}, use : {"fresh", "idle"}]

\* What the cycle at work has still to delete.
Listed == {v.pkg : v \in todo} \cup IF wpc \in {"redis", "row"} THEN {victim} ELSE {}

Life == INSTANCE RowLife WITH
    rows   <- [p \in Packages |-> RowView(db[p])],
    listed <- Listed

(* The table goes through what RowLife promises, whatever fails, restarts  *)
(* or is at work on a package that the eviction worker has listed          *)
(* (eviction.go:82-151, package_store.go:28-116).                          *)
ImplementsRowLife == Life!Spec

(* What the refinement rests on: a cycle has each package once and ends    *)
(* with none left, and the row that it deletes by its id is still there.   *)
WorkList ==
    /\ wpc = "sleep" => todo = {}
    /\ \A v, w \in todo : v.pkg = w.pkg => v = w
    /\ wpc \in {"redis", "row"} => \A v \in todo : v.pkg # victim
    /\ \A p \in Listed : db[p] # None

-----------------------------------------------------------------------------
(* What documents and tests of the repository say of the program, and the  *)
(* code does not do.                                                       *)

(* "serving by checksum guarantees the bytes returned match what was       *)
(* originally fetched" (README.md:109): a client gets the file it asked    *)
(* for.                                                                    *)
ServedWantedFile ==
    \A r \in Requests : Served(r) => reply[r].file = want[r]

(* "Deletion order is strict to prevent orphaned data" (README.md:173):    *)
(* when the row of a package goes, its artifact is gone, unless a request  *)
(* that may write the row anew is at work.                                 *)
NoOrphanLeft ==
    [][\A p \in Packages : db[p] # None /\ db'[p] = None =>
          \A f \in Files : PkgOf[f] = p /\ store[f] # None =>
              \E r \in Requests :
                  Pkg(r) = p /\ (InFlight(r) \/ job[r] \in {"index", "upsert"})]_vars

(* The eviction job "never attempts to delete a blocked package from       *)
(* storage, Redis, or the DB" (internal/eviction/integration_test.go:19).  *)
BlockedRowsStay ==
    [][\A p \in Packages : IsBlocked(p) => db'[p] # None]_vars
=============================================================================
