------------------------------- MODULE Expiry -------------------------------
(***************************************************************************)
(* When a cached artifact is old.  The packages table keeps cached_at and  *)
(* last_hit_at (internal/db/package_store.go), Redis drops a key when its  *)
(* TTL is over, and the eviction worker (internal/eviction/eviction.go)    *)
(* deletes the rows for which the later of the two times is older than the *)
(* same TTL.  This module models who sets those times and who reads them.  *)
(* CacheProxy has the faults and the interleavings of requests, and keeps  *)
(* only one bit of the times; here no service fails, a request is one step *)
(* followed by its background goroutine, and a package has one file.       *)
(*                                                                         *)
(* A time is kept as an age in ticks, up to TTL + 1, "older than the TTL": *)
(* nothing in the code tells older ages apart.                             *)
(***************************************************************************)
EXTENDS Integers, FiniteSets

CONSTANTS
    Packages,   \* (ecosystem, name, version)
    TTL,        \* cache.ttl_hours, in ticks
    MaxJobs,    \* bound: background goroutines at work at a time
    None        \* no value: SQL NULL, an absent row or key

ASSUME TTLAssumption == TTL \in Nat \ {0}

Statuses == {"cached", "blocked"}
ASSUME NoneAssumption ==
    None \notin Packages \cup Int \cup [status : Statuses, cached : Int, hit : Int \cup {None}]
                           \cup [status : Statuses, use : {"fresh", "idle"}]

Ages == 0..(TTL + 1)
Rows == [status : Statuses, cached : Ages, hit : Ages \cup {None}]
JobKinds == {"touch", "backfill", "index", "upsert", "block"}
Jobs == [kind : JobKinds, pkg : Packages]

VARIABLES
    row,        \* packages: the row of a package, or None
    key,        \* Redis: the age of a package's key, or None
    stored,     \* packages whose artifact is in storage
    jobs,       \* background goroutines at work
    wpc, todo, victim,  \* the eviction worker, as in CacheProxy
    \* what happened so far
    used,       \* the age of the last reply that served the package, or None
    how,        \* what served it: a hit by "redis" or by "row", a "miss" whose
                \* row was already there, a miss that "inserted" its row
    late        \* packages served, or whose touch landed, after the cycle listed them

index   == <<row, key, stored>>
worker  == <<wpc, todo, victim>>
history == <<used, how, late>>
vars == <<index, jobs, worker, history>>

Older(age) == IF age = None \/ age > TTL THEN age ELSE age + 1
Job(kind, p) == [kind |-> kind, pkg |-> p]
IsCached(p) == row[p] # None /\ row[p].status = "cached"

-----------------------------------------------------------------------------
(* Definitions whose comment begins with "Mutant" are no part of the       *)
(* model: each is a form that the definition below it could have taken by  *)
(* a mistake in the code, and breaks a property that a run checks.         *)

\* Mutant: last_hit_at is not looked at.
CachedAt(r) == r.cached

(* COALESCE(last_hit_at, cached_at)                                        *)
LastAccess(r) == IF r.hit = None THEN r.cached ELSE r.hit

IsExpired(p) == IsCached(p) /\ LastAccess(row[p]) > TTL

Init ==
    /\ row = [p \in Packages |-> None]
    /\ key = [p \in Packages |-> None]
    /\ stored = {}
    /\ jobs = {}
    /\ wpc = "sleep"
    /\ todo = {}
    /\ victim = None
    /\ used = [p \in Packages |-> None]
    /\ how = [p \in Packages |-> "none"]
    /\ late = {}

-----------------------------------------------------------------------------
(* A request: the Redis index, the packages table, or upstream.            *)
RoomForJob == Cardinality(jobs) < MaxJobs

Serves(p, tier) ==
    /\ RoomForJob
    /\ used' = [used EXCEPT ![p] = 0]
    /\ how' = [how EXCEPT ![p] = tier]
    /\ late' = late \cup {p}

HitRedis(p) ==
    /\ key[p] # None /\ p \in stored
    /\ Serves(p, "redis")
    /\ jobs' = jobs \cup {Job("touch", p)}
    /\ UNCHANGED <<index, worker>>

HitRow(p) ==
    /\ key[p] = None /\ IsCached(p) /\ p \in stored
    /\ Serves(p, "row")
    /\ jobs' = jobs \cup {Job("backfill", p)}
    /\ UNCHANGED <<index, worker>>

\* Neither index leads to an artifact, and no row says blocked.
Unknown(p) ==
    /\ p \in stored => key[p] = None
    /\ row[p] # None => IsCached(p) /\ p \notin stored

Miss(p) ==
    /\ Unknown(p)
    /\ stored' = stored \cup {p}
    /\ Serves(p, "miss")
    /\ jobs' = jobs \cup {Job("index", p)}
    /\ UNCHANGED <<row, key, worker>>

Block(p) ==
    /\ Unknown(p) /\ RoomForJob
    /\ jobs' = jobs \cup {Job("block", p)}
    /\ UNCHANGED <<index, worker, history>>

-----------------------------------------------------------------------------
(* The background goroutines.                                              *)
TouchPackage(p) ==
    /\ Job("touch", p) \in jobs
    /\ jobs' = jobs \ {Job("touch", p)}
    /\ row' = IF row[p] = None THEN row ELSE [row EXCEPT ![p].hit = 0]
    /\ UNCHANGED <<key, stored, worker, history>>

Backfill(p) ==
    /\ Job("backfill", p) \in jobs
    /\ jobs' = jobs \ {Job("backfill", p)}
    /\ key' = [key EXCEPT ![p] = 0]
    /\ UNCHANGED <<row, stored, worker, history>>

IndexArtifact(p) ==
    /\ Job("index", p) \in jobs
    /\ jobs' = (jobs \ {Job("index", p)}) \cup {Job("upsert", p)}
    /\ key' = [key EXCEPT ![p] = 0]
    /\ UNCHANGED <<row, stored, worker, history>>

\* Mutant: writing over a row starts its life anew.
Rewritten(r, status) == [status |-> status, cached |-> 0, hit |-> None]

\* INSERT sets cached_at; ON CONFLICT DO UPDATE touches neither time.
Upserted(r, status) ==
    IF r = None THEN [status |-> status, cached |-> 0, hit |-> None]
    ELSE [r EXCEPT !.status = status]

UpsertPackage(p) ==
    /\ Job("upsert", p) \in jobs
    /\ jobs' = jobs \ {Job("upsert", p)}
    /\ row' = [row EXCEPT ![p] = Upserted(@, "cached")]
    /\ how' = IF row[p] = None /\ how[p] = "miss" THEN [how EXCEPT ![p] = "inserted"]
              ELSE how
    /\ UNCHANGED <<key, stored, worker, used, late>>

UpsertBlocked(p) ==
    /\ Job("block", p) \in jobs
    /\ jobs' = jobs \ {Job("block", p)}
    /\ row' = [row EXCEPT ![p] = Upserted(@, "blocked")]
    /\ UNCHANGED <<key, stored, worker, history>>

-----------------------------------------------------------------------------
(* The eviction worker.                                                    *)
ListExpired ==
    /\ wpc = "sleep"
    /\ todo' = {p \in Packages : IsExpired(p)}
    /\ todo' # {}
    /\ wpc' = "sweep"
    /\ late' = {p \in Packages : Job("touch", p) \in jobs}
    /\ UNCHANGED <<index, jobs, victim, used, how>>

EvictArtifact(p) ==
    /\ wpc = "sweep"
    /\ p \in todo
    /\ todo' = todo \ {p}
    /\ stored' = stored \ {p}
    /\ victim' = p
    /\ wpc' = "redis"
    /\ UNCHANGED <<row, key, jobs, history>>

EvictKey ==
    /\ wpc = "redis"
    /\ key' = [key EXCEPT ![victim] = None]
    /\ wpc' = "row"
    /\ UNCHANGED <<row, stored, jobs, todo, victim, history>>

\* Mutant: the worker leaves the row.
KeepRow ==
    /\ wpc = "row"
    /\ victim' = None
    /\ wpc' = IF todo = {} THEN "sleep" ELSE "sweep"
    /\ UNCHANGED <<row, key, stored, jobs, todo, history>>

EvictRow ==
    /\ wpc = "row"
    /\ row' = [row EXCEPT ![victim] = None]
    /\ victim' = None
    /\ wpc' = IF todo = {} THEN "sleep" ELSE "sweep"
    /\ UNCHANGED <<key, stored, jobs, todo, history>>

(* Time passes.  A tick is an hour or more, a background goroutine ends    *)
(* within seconds: none is at work across a tick.  A key goes when its TTL *)
(* is over (internal/cache/redis.go).                                      *)
Tick ==
    /\ jobs = {}
    /\ row' = [p \in Packages |-> IF row[p] = None THEN None
                                  ELSE [row[p] EXCEPT !.cached = Older(@), !.hit = Older(@)]]
    /\ key' = [p \in Packages |-> IF key[p] = None \/ key[p] + 1 >= TTL THEN None
                                  ELSE key[p] + 1]
    /\ used' = [p \in Packages |-> Older(used[p])]
    /\ UNCHANGED <<stored, jobs, worker, how, late>>

-----------------------------------------------------------------------------
Request(p) == HitRedis(p) \/ HitRow(p) \/ Miss(p) \/ Block(p)
Background(p) ==
    TouchPackage(p) \/ Backfill(p) \/ IndexArtifact(p) \/ UpsertPackage(p) \/ UpsertBlocked(p)
Worker == ListExpired \/ (\E p \in todo : EvictArtifact(p)) \/ EvictKey \/ EvictRow

Next == (\E p \in Packages : Request(p) \/ Background(p)) \/ Worker \/ Tick

(* Time passes, the goroutines are scheduled, and the ticker of the worker *)
(* keeps starting cycles.  Nobody has to ask for anything.                 *)
Fairness ==
    /\ WF_vars(Tick)
    /\ WF_vars(Worker)
    /\ \A p \in Packages : WF_vars(Background(p))

Spec == Init /\ [][Next]_vars
FairSpec == Spec /\ Fairness

-----------------------------------------------------------------------------
(* Every variable has its type.                                            *)
TypeOK ==
    /\ row \in [Packages -> Rows \cup {None}]
    /\ key \in [Packages -> 0..(TTL - 1) \cup {None}]
    /\ stored \subseteq Packages
    /\ jobs \subseteq Jobs
    /\ wpc \in {"sleep", "sweep", "redis", "row"}
    /\ todo \subseteq Packages
    /\ victim \in IF wpc \in {"redis", "row"} THEN Packages ELSE {None}
    /\ used \in [Packages -> Ages \cup {None}]
    /\ how \in [Packages -> {"none", "redis", "row", "miss", "inserted"}]
    /\ late \subseteq Packages

\* A use that leaves its mark in the row: the row is no older than the use.
Marked(p) == how[p] \in {"redis", "inserted"}

(* The times of a row keep up with the uses that leave a mark, once the    *)
(* touch has landed.                                                       *)
MarksShow ==
    \A p \in Packages :
        /\ how[p] # "none" => used[p] # None
        /\ Marked(p) /\ row[p] # None /\ Job("touch", p) \notin jobs =>
              LastAccess(row[p]) <= used[p]

(* What a cycle has still to delete has its row, and had no use that left  *)
(* a mark within the TTL, unless it came late.                             *)
Condemned == todo \cup IF victim = None THEN {} ELSE {victim}
ListIsSound ==
    /\ wpc = "sleep" => todo = {}
    /\ victim \notin todo
    /\ \A p \in Condemned : row[p] # None
    /\ \A p \in Condemned \ late : Marked(p) => used[p] > TTL

TimesKeepUp == TypeOK /\ MarksShow /\ ListIsSound

(* The worker deletes a row only if its package was not served within the  *)
(* TTL, except where the last reply left no mark in the row (a hit through *)
(* the packages table, proxy.go:190-193, or a fetch that found its row,    *)
(* package_store.go:33) or where it came after the cycle had listed the    *)
(* row.                                                                    *)
EvictedForCause ==
    [][\A p \in Packages : row[p] # None /\ row'[p] = None =>
          used[p] > TTL \/ ~Marked(p) \/ p \in late]_vars

(* A package nobody asks for any more does not keep its row: the row of    *)
(* one that is not served again is deleted (or is a blocked one).          *)
UnusedRowsGo ==
    \A p \in Packages : <>[](used[p] = TTL + 1) => <>[](~IsCached(p))

RowView(r) ==
    IF r = None THEN None
    ELSE [status |-> r.status, use |-> IF LastAccess(r) > TTL THEN "idle" ELSE "fresh"]

Life == INSTANCE RowLife WITH
    rows   <- [p \in Packages |-> RowView(row[p])],
    listed <- Condemned

(* The times in the table provide what RowLife promises of it: to be idle  *)
(* is to be untouched for longer than the TTL (package_store.go:330-336).  *)
ImplementsRowLife == Life!Spec

(* "removes packages whose last access time is older than the TTL"         *)
(* (README.md:171): a package served within the TTL keeps its row, unless  *)
(* it was served after the cycle had listed it.                            *)
LastAccessCounts ==
    [][\A p \in Packages : row[p] # None /\ row'[p] = None =>
          used[p] = None \/ used[p] > TTL \/ p \in late]_vars
=============================================================================
