------------------------------- MODULE Migrate -------------------------------
(***************************************************************************)
(* The migration tool (cmd/migrate/main.go): the main goroutine lists the  *)
(* packages table once, hands the artifacts of the cached rows over an     *)
(* unbuffered channel to a pool of workers, waits for them and reports.    *)
(* Each worker copies an artifact from the local directory to the bucket.  *)
(* Meanwhile the proxy that still runs on the local directory stores and   *)
(* evicts; calls fail; the tool is killed and run again.                   *)
(*                                                                         *)
(* An artifact stands for a packages row and for the checksum in it.  The  *)
(* checksum is CacheKey(), a name that holds ecosystem, package name and   *)
(* version, so that no two rows share one: removing duplicates from the    *)
(* list (lines 93-96) yields the set of the cached rows.  The order of the *)
(* list is left open.  The four counters are kept as the verdict on each   *)
(* artifact that was counted.                                              *)
(*                                                                         *)
(* Definitions whose comment begins with "Mutant" are what a plausible     *)
(* mistake in the code would make of the definition that follows; nothing  *)
(* here uses them.                                                         *)
(***************************************************************************)
EXTENDS Integers

CONSTANTS
    Artifacts,  \* packages rows, and the checksums they hold
    Workers,    \* goroutines of the pool (--workers)
    None,       \* no artifact, no verdict
    MaxRuns     \* bound on the runs of the tool

RowStates == {"absent", "cached", "blocked"}
Verdicts == {"uploaded", "skipped", "missing", "error"}

ASSUME NoneIsNeither == None \notin Artifacts \cup Verdicts
ASSUME PoolNotEmpty == Workers # {}     \* with --workers 0 the tool hangs
ASSUME RunsBounded == MaxRuns \in Nat

VARIABLES
    rows,       \* packages table: the state of each row
    local,      \* artifacts in the local directory
    bucket,     \* artifacts in the bucket
    runs,       \* runs started
    dryRun,     \* --dry-run of the current run
    main,       \* where the main goroutine is, or how the run ended
    listed,     \* work: the artifacts of the run
    todo,       \* those not handed to a worker yet
    wpc,        \* where each worker is
    holding,    \* e: the artifact a worker is busy with
    verdict     \* which counter counted an artifact

store == <<rows, local>>
run == <<runs, dryRun, listed>>
pool == <<todo, wpc, holding, verdict>>
vars == <<store, bucket, run, main, pool>>

Ended == {"ok", "failed", "killed"}
MainStates == Ended \cup {"idle", "listing", "opening", "handing", "waiting"}
Busy == {"preview", "exists", "get", "put"}
WorkerStates == Busy \cup {"off", "receive", "done"}

\* The proxy may have stored artifacts without their rows, lost artifacts
\* whose rows remain, and blocked packages that it had cached.
Init ==
    /\ rows \in [Artifacts -> RowStates]
    /\ local \in SUBSET Artifacts
    /\ bucket = {}
    /\ runs = 0 /\ dryRun = FALSE /\ listed = {}
    /\ main = "idle"
    /\ todo = {}
    /\ wpc = [w \in Workers |-> "off"]
    /\ holding = [w \in Workers |-> None]
    /\ verdict = [a \in Artifacts |-> None]

-----------------------------------------------------------------------------
(* The main goroutine.                                                     *)

Start ==
    /\ main \in Ended \cup {"idle"}
    /\ runs < MaxRuns
    /\ runs' = runs + 1
    /\ dryRun' \in BOOLEAN
    /\ main' = "listing"
    /\ listed' = {}
    /\ wpc' = [w \in Workers |-> "off"]
    /\ verdict' = [a \in Artifacts |-> None]
    /\ UNCHANGED <<store, bucket, todo, holding>>

\* ListPackages and the selection of its cached rows.
List ==
    /\ main = "listing"
    /\ \/ main' = "failed" /\ UNCHANGED <<listed, todo>>
       \/ /\ listed' = {a \in Artifacts : rows[a] = "cached"}
          /\ todo' = listed'
          /\ main' = IF listed' = {} THEN "ok" ELSE "opening"
    /\ UNCHANGED <<store, bucket, runs, dryRun, wpc, holding, verdict>>

\* NewLocal, NewS3 and the start of the workers.
OpenStores ==
    /\ main = "opening"
    /\ \/ main' = "failed" /\ todo' = {} /\ UNCHANGED wpc
       \/ main' = "handing" /\ wpc' = [w \in Workers |-> "receive"] /\ UNCHANGED todo
    /\ UNCHANGED <<store, bucket, run, holding, verdict>>

\* Mutant: a dry run is not told from a real one.
HandOutInEarnest(w) ==
    /\ main = "handing" /\ wpc[w] = "receive"
    /\ \E a \in todo :
          /\ todo' = todo \ {a}
          /\ holding' = [holding EXCEPT ![w] = a]
          /\ wpc' = [wpc EXCEPT ![w] = "exists"]
    /\ UNCHANGED <<store, bucket, run, main, verdict>>

\* Main sends on the channel, and worker w receives.
HandOut(w) ==
    /\ main = "handing" /\ wpc[w] = "receive"
    /\ \E a \in todo :
          /\ todo' = todo \ {a}
          /\ holding' = [holding EXCEPT ![w] = a]
          /\ wpc' = [wpc EXCEPT ![w] = IF dryRun THEN "preview" ELSE "exists"]
    /\ UNCHANGED <<store, bucket, run, main, verdict>>

CloseChannel ==
    /\ main = "handing" /\ todo = {}
    /\ main' = "waiting"
    /\ UNCHANGED <<store, bucket, run, pool>>

ExitStatus ==
    IF \E a \in listed : verdict[a] = "error" THEN "failed" ELSE "ok"

\* Mutant: the wg.Wait() is missing.
ReportAtOnce ==
    /\ main = "waiting"
    /\ main' = ExitStatus
    /\ UNCHANGED <<store, bucket, run, pool>>

\* wg.Wait() and the summary.
Report ==
    /\ main = "waiting"
    /\ \A w \in Workers : wpc[w] = "done"
    /\ main' = ExitStatus
    /\ UNCHANGED <<store, bucket, run, pool>>

-----------------------------------------------------------------------------
(* A worker.                                                               *)

\* Worker w counts its artifact and receives the next one.
Counts(w, v) ==
    /\ verdict' = [verdict EXCEPT ![holding[w]] = v]
    /\ holding' = [holding EXCEPT ![w] = None]
    /\ wpc' = [wpc EXCEPT ![w] = "receive"]

Goes(w, label) ==
    wpc' = [wpc EXCEPT ![w] = label] /\ UNCHANGED <<holding, verdict>>

Preview(w) ==
    /\ wpc[w] = "preview"
    /\ Counts(w, "uploaded")
    /\ UNCHANGED <<store, bucket, run, main, todo>>

\* Mutant: the check for what is in the bucket is missing.
CheckNothing(w) ==
    /\ wpc[w] = "exists"
    /\ Goes(w, "get")
    /\ UNCHANGED <<store, bucket, run, main, todo>>

\* s3Store.Exists
CheckBucket(w) ==
    /\ wpc[w] = "exists"
    /\ \/ Counts(w, "error")
       \/ holding[w] \in bucket /\ Counts(w, "skipped")
       \/ holding[w] \notin bucket /\ Goes(w, "get")
    /\ UNCHANGED <<store, bucket, run, main, todo>>

\* localStore.Get: the file stays readable once it is open.
OpenArtifact(w) ==
    /\ wpc[w] = "get"
    /\ \/ Counts(w, "error")
       \/ holding[w] \notin local /\ Counts(w, "missing")
       \/ holding[w] \in local /\ Goes(w, "put")
    /\ UNCHANGED <<store, bucket, run, main, todo>>

\* s3Store.Put: an upload that fails may have taken effect.
Upload(w) ==
    /\ wpc[w] = "put"
    /\ \/ Counts(w, "uploaded") /\ bucket' = bucket \cup {holding[w]}
       \/ Counts(w, "error") /\ bucket' \in {bucket, bucket \cup {holding[w]}}
    /\ UNCHANGED <<store, run, main, todo>>

\* Mutant: a worker that finds nothing to receive ends.
WorkerEndsIdle(w) ==
    /\ main \in {"handing", "waiting"} /\ wpc[w] = "receive"
    /\ wpc' = [wpc EXCEPT ![w] = "done"]
    /\ UNCHANGED <<store, bucket, run, main, todo, holding, verdict>>

\* The channel is closed and empty: the range ends.
WorkerEnds(w) ==
    /\ main = "waiting" /\ wpc[w] = "receive"
    /\ wpc' = [wpc EXCEPT ![w] = "done"]
    /\ UNCHANGED <<store, bucket, run, main, todo, holding, verdict>>

-----------------------------------------------------------------------------
(* The surroundings.                                                       *)

\* The tool is killed; uploads on their way may arrive.
Kill ==
    /\ main \notin Ended \cup {"idle"}
    /\ \E arrived \in SUBSET {holding[w] : w \in {v \in Workers : wpc[v] = "put"}} :
          bucket' = bucket \cup arrived
    /\ main' = "killed"
    /\ todo' = {}
    /\ wpc' = [w \in Workers |-> "off"]
    /\ holding' = [w \in Workers |-> None]
    /\ UNCHANGED <<store, run, verdict>>

(* The calls the proxy and its eviction worker make on the two stores, in  *)
(* any order; module CacheProxy has the orders that occur.                 *)
StoreArtifact(a) == a \notin local /\ local' = local \cup {a} /\ UNCHANGED rows
EvictArtifact(a) == a \in local /\ local' = local \ {a} /\ UNCHANGED rows
WriteRow(a, state) ==
    rows[a] # state /\ rows' = [rows EXCEPT ![a] = state] /\ UNCHANGED local

Proxy ==
    /\ \E a \in Artifacts :
          \/ StoreArtifact(a)
          \/ EvictArtifact(a)
          \/ \E state \in RowStates : WriteRow(a, state)
    /\ UNCHANGED <<bucket, run, main, pool>>

Main ==
    \/ List \/ OpenStores \/ CloseChannel \/ Report
    \/ \E w \in Workers : HandOut(w)

Worker(w) ==
    Preview(w) \/ CheckBucket(w) \/ OpenArtifact(w) \/ Upload(w) \/ WorkerEnds(w)

Next == Start \/ Main \/ (\E w \in Workers : Worker(w)) \/ Kill \/ Proxy

\* The goroutines of the tool run, and calls on the services return.
Fairness == WF_vars(Main) /\ \A w \in Workers : WF_vars(Worker(w))

Spec == Init /\ [][Next]_vars
FairSpec == Spec /\ Fairness

-----------------------------------------------------------------------------
(* Every variable has its type, and a worker holds an artifact exactly     *)
(* while it is busy with it.                                               *)
TypeOK ==
    /\ rows \in [Artifacts -> RowStates]
    /\ local \subseteq Artifacts /\ bucket \subseteq Artifacts
    /\ runs \in 0..MaxRuns /\ dryRun \in BOOLEAN
    /\ main \in MainStates
    /\ listed \subseteq Artifacts /\ todo \subseteq listed
    /\ wpc \in [Workers -> WorkerStates]
    /\ holding \in [Workers -> Artifacts \cup {None}]
    /\ \A w \in Workers : holding[w] # None <=> wpc[w] \in Busy
    /\ verdict \in [Artifacts -> Verdicts \cup {None}]

(* A run that reports success has copied: each artifact it listed was      *)
(* counted, is in the bucket if it was counted as uploaded or skipped, and *)
(* was not on disk otherwise (lines 222-242), whatever the proxy, other    *)
(* workers and earlier runs did meanwhile.                                 *)
SuccessIsTrue ==
    main = "ok" => \A a \in listed :
        /\ verdict[a] \in Verdicts \ {"error"}
        /\ ~dryRun => (a \in bucket <=> verdict[a] # "missing")

(* Nothing that is in the bucket is read and sent again, by another worker *)
(* or by a later run ("idempotent - safe to re-run", line 175).            *)
NoSecondUpload ==
    \A w \in Workers : wpc[w] \in {"get", "put"} => holding[w] \notin bucket

(* A dry run does not touch the bucket (lines 10, 224-228), not even with  *)
(* uploads of an earlier run that was killed.                              *)
DryRunTouchesNothing == [][dryRun => UNCHANGED bucket]_vars

(* The inductive invariant behind the theorems of MigrateProofs: each      *)
(* listed artifact is waiting, in the hands of one worker, or counted; and *)
(* what the counters say of the bucket is true.                            *)
HandOff ==
    /\ \A a \in todo : verdict[a] = None
    /\ \A w \in Workers : wpc[w] \in Busy =>
          /\ main \in {"handing", "waiting"}
          /\ holding[w] \in listed \ todo
          /\ verdict[holding[w]] = None
          /\ \A v \in Workers : holding[v] = holding[w] => v = w
    /\ main \in {"opening", "handing", "waiting"} => \A a \in listed :
          a \in todo \/ verdict[a] # None \/ \E w \in Workers : holding[w] = a

Places ==
    /\ main \notin {"opening", "handing"} => todo = {}
    /\ main \in {"idle", "listing"} => listed = {}
    /\ main \in {"idle", "listing", "opening"} =>
          \A a \in Artifacts : verdict[a] = None
    /\ \A w \in Workers :
          /\ wpc[w] = "done" => main \in Ended \cup {"waiting"}
          /\ wpc[w] = "receive" => main \in {"handing", "waiting"}
          /\ wpc[w] \in Busy => (dryRun <=> wpc[w] = "preview")

Reckoning ==
    /\ \A a \in Artifacts : verdict[a] # None => a \in listed
    /\ ~dryRun => \A a \in listed :
          /\ verdict[a] \in {"uploaded", "skipped"} => a \in bucket
          /\ verdict[a] = "missing" => a \notin bucket

MigrateInv ==
    TypeOK /\ HandOff /\ Places /\ Reckoning /\ NoSecondUpload /\ SuccessIsTrue

(* A run of the tool ends: main is never left sending to a pool that has   *)
(* gone, nor waiting for a worker that waits for it.                       *)
RunsEnd == main = "listing" ~> main \in Ended
=============================================================================
