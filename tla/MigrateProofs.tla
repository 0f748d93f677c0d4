---------------------------- MODULE MigrateProofs ----------------------------
(***************************************************************************)
(* Proofs about Migrate for any artifacts, any pool and any number of      *)
(* runs: MigrateInv is inductive, so a run that reports success has copied *)
(* what it listed, nothing is uploaded twice, and a dry run leaves the     *)
(* bucket alone.                                                           *)
(***************************************************************************)
EXTENDS Migrate, TLAPS

(* The initial state.                                                      *)
LEMMA InitMigrateInv == Init => MigrateInv
<1> SUFFICES ASSUME Init PROVE MigrateInv
  OBVIOUS
<1> USE NoneIsNeither, RunsBounded
<1> USE DEF Init, MainStates, Ended, WorkerStates, Busy, Verdicts
<1>1. TypeOK
  <2>1. runs \in 0..MaxRuns
    OBVIOUS
  <2>2. dryRun \in BOOLEAN
    BY Zenon
  <2>3. \A w \in Workers : holding[w] = None /\ wpc[w] = "off"
    OBVIOUS
  <2>4. holding \in [Workers -> Artifacts \cup {None}] /\ wpc \in [Workers -> WorkerStates]
    OBVIOUS
  <2>5. verdict \in [Artifacts -> Verdicts \cup {None}]
    OBVIOUS
  <2>6. QED
    BY <2>1, <2>2, <2>3, <2>4, <2>5 DEF TypeOK
<1>2. HandOff /\ Places /\ Reckoning /\ NoSecondUpload /\ SuccessIsTrue
  BY DEF HandOff, Places, Reckoning, NoSecondUpload, SuccessIsTrue
<1>3. QED
  BY <1>1, <1>2 DEF MigrateInv

(* The steps of the main goroutine other than the hand-off.                *)
LEMMA MainKeepsInv ==
    ASSUME MigrateInv, Start \/ List \/ OpenStores \/ CloseChannel \/ Report
    PROVE  MigrateInv'
<1> USE NoneIsNeither, RunsBounded
<1> USE DEF MigrateInv, RowStates, MainStates, Ended, WorkerStates, Busy, Verdicts,
            store, run, pool
<1>1. CASE Start
  <2>1. \A w \in Workers : wpc[w] \notin Busy /\ holding[w] = None
    BY <1>1 DEF Start, TypeOK, HandOff
  <2>2. todo = {}
    BY <1>1 DEF Start, TypeOK, Places
  <2>3. TypeOK'
    BY <1>1, <2>1, <2>2 DEF Start, TypeOK
  <2>4. HandOff' /\ Places' /\ Reckoning' /\ NoSecondUpload' /\ SuccessIsTrue'
    BY <1>1, <2>2 DEF Start, HandOff, Places, Reckoning, NoSecondUpload, SuccessIsTrue
  <2>5. QED
    BY <2>3, <2>4
<1>2. CASE List
  <2>1. \A w \in Workers : wpc[w] = "off"
    BY <1>2 DEF List, TypeOK, HandOff, Places
  <2>2. \A a \in Artifacts : verdict[a] = None
    BY <1>2 DEF List, Places
  <2>3. TypeOK'
    BY <1>2 DEF List, TypeOK, Places
  <2>4. HandOff' /\ Places' /\ Reckoning' /\ NoSecondUpload' /\ SuccessIsTrue'
    BY <1>2, <2>1, <2>2
       DEF List, TypeOK, HandOff, Places, Reckoning, NoSecondUpload, SuccessIsTrue
  <2>5. QED
    BY <2>3, <2>4
<1>3. CASE OpenStores
  <2>1. \A w \in Workers : wpc[w] = "off" /\ holding[w] = None
    BY <1>3 DEF OpenStores, TypeOK, HandOff, Places
  <2>2. TypeOK'
    BY <1>3, <2>1 DEF OpenStores, TypeOK
  <2>3. HandOff' /\ Places' /\ Reckoning' /\ NoSecondUpload' /\ SuccessIsTrue'
    BY <1>3, <2>1
       DEF OpenStores, TypeOK, HandOff, Places, Reckoning, NoSecondUpload, SuccessIsTrue
  <2>4. QED
    BY <2>2, <2>3
<1>4. CASE CloseChannel
  <2>1. TypeOK'
    BY <1>4 DEF CloseChannel, TypeOK
  <2>2. HandOff' /\ Places' /\ Reckoning' /\ NoSecondUpload' /\ SuccessIsTrue'
    BY <1>4
       DEF CloseChannel, TypeOK, HandOff, Places, Reckoning, NoSecondUpload, SuccessIsTrue
  <2>3. QED
    BY <2>1, <2>2
<1>5. CASE Report
  <2>1. main = "waiting" /\ main' \in {"ok", "failed"} /\ todo = {}
    BY <1>5 DEF Report, ExitStatus, Places
  <2>2. \A w \in Workers : wpc[w] \notin Busy /\ holding[w] = None
    BY <1>5 DEF Report, TypeOK
  <2>3. \A a \in listed : verdict[a] # None
    BY <2>1, <2>2 DEF TypeOK, HandOff
  <2>4. TypeOK'
    BY <1>5, <2>1 DEF Report, TypeOK
  <2>5. HandOff' /\ Places' /\ Reckoning' /\ NoSecondUpload'
    BY <1>5, <2>1, <2>2
       DEF Report, TypeOK, HandOff, Places, Reckoning, NoSecondUpload
  <2>6. SuccessIsTrue'
    <3> SUFFICES ASSUME main' = "ok", NEW a \in listed
                 PROVE  /\ verdict[a] \in Verdicts \ {"error"}
                        /\ ~dryRun => (a \in bucket <=> verdict[a] # "missing")
      BY <1>5 DEF Report, SuccessIsTrue
    <3>1. verdict[a] # "error"
      BY <1>5 DEF Report, ExitStatus
    <3>2. verdict[a] \in Verdicts \ {"error"}
      BY <2>3, <3>1 DEF TypeOK
    <3>3. QED
      BY <3>2 DEF Reckoning
  <2>7. QED
    BY <2>4, <2>5, <2>6
<1>6. QED
  BY <1>1, <1>2, <1>3, <1>4, <1>5

(* The hand-off gives an artifact to one worker.                           *)
LEMMA HandOutKeepsInv ==
    ASSUME MigrateInv, NEW w \in Workers, HandOut(w) PROVE MigrateInv'
<1> USE NoneIsNeither
<1> USE DEF MigrateInv, MainStates, Ended, WorkerStates, Busy, Verdicts, store, run
<1>1. PICK a \in todo :
        /\ todo' = todo \ {a}
        /\ holding' = [holding EXCEPT ![w] = a]
        /\ wpc' = [wpc EXCEPT ![w] = IF dryRun THEN "preview" ELSE "exists"]
  BY DEF HandOut
<1>2. main = "handing" /\ wpc[w] = "receive" /\ holding[w] = None
  BY DEF HandOut, TypeOK
<1>3. a \in listed /\ a \in Artifacts /\ verdict[a] = None
  BY <1>1 DEF TypeOK, HandOff
<1>4. TypeOK'
  BY <1>1, <1>2, <1>3 DEF HandOut, TypeOK
<1>5. \A v \in Workers : holding[v] # a
  BY <1>1, <1>3 DEF TypeOK, HandOff
<1>6. HandOff'
  BY <1>1, <1>2, <1>3, <1>5 DEF HandOut, TypeOK, HandOff
<1>7. Places' /\ Reckoning' /\ NoSecondUpload' /\ SuccessIsTrue'
  BY <1>1, <1>2 DEF HandOut, TypeOK, Places, Reckoning, NoSecondUpload, SuccessIsTrue
<1>8. QED
  BY <1>4, <1>6, <1>7

(* A worker that counts its artifact keeps the invariant, if what it       *)
(* counts is true of the bucket.                                           *)
LEMMA CountsKeepsInv ==
    ASSUME MigrateInv, NEW w \in Workers, NEW v \in Verdicts, wpc[w] \in Busy,
           Counts(w, v), UNCHANGED <<store, run, main, todo>>,
           bucket' \in {bucket, bucket \cup {holding[w]}},
           ~dryRun /\ v \in {"uploaded", "skipped"} => holding[w] \in bucket',
           v = "missing" => holding[w] \notin bucket'
    PROVE  MigrateInv'
<1> USE NoneIsNeither
<1> USE DEF MigrateInv, MainStates, Ended, WorkerStates, Busy, Verdicts, store, run,
            Counts
<1>1. /\ holding[w] \in listed \ todo
      /\ holding[w] \in Artifacts
      /\ main \in {"handing", "waiting"}
      /\ \A u \in Workers : holding[u] = holding[w] => u = w
  BY DEF TypeOK, HandOff
<1>2. \A a \in Artifacts : verdict'[a] = IF a = holding[w] THEN v ELSE verdict[a]
  BY <1>1 DEF TypeOK
<1>3. TypeOK'
  BY <1>1 DEF TypeOK
<1>4. HandOff'
  BY <1>1, <1>2 DEF TypeOK, HandOff
<1>5. Places'
  BY <1>1, <1>2 DEF TypeOK, Places
<1>6. Reckoning'
  <2>1. \A a \in Artifacts : a # holding[w] => (a \in bucket' <=> a \in bucket)
    OBVIOUS
  <2>2. QED
    BY <1>1, <1>2, <2>1 DEF TypeOK, Reckoning
<1>7. NoSecondUpload'
  BY <1>1 DEF TypeOK, NoSecondUpload
<1>8. SuccessIsTrue'
  BY <1>1 DEF SuccessIsTrue
<1>9. QED
  BY <1>3, <1>4, <1>5, <1>6, <1>7, <1>8

(* A worker that goes on with its artifact keeps it.                       *)
LEMMA GoesKeepsInv ==
    ASSUME MigrateInv, NEW w \in Workers, NEW label \in {"get", "put"},
           wpc[w] \in {"exists", "get"}, Goes(w, label), holding[w] \notin bucket,
           UNCHANGED <<store, bucket, run, main, todo>>
    PROVE  MigrateInv'
<1> USE DEF MigrateInv, MainStates, Ended, WorkerStates, Busy, Verdicts, store, run,
            Goes
<1>1. TypeOK'
  BY DEF TypeOK
<1>2. HandOff'
  BY DEF TypeOK, HandOff
<1>3. Places' /\ Reckoning' /\ NoSecondUpload' /\ SuccessIsTrue'
  BY DEF TypeOK, Places, Reckoning, NoSecondUpload, SuccessIsTrue
<1>4. QED
  BY <1>1, <1>2, <1>3

(* Every step of a worker keeps the invariant.                             *)
LEMMA WorkerKeepsInv ==
    ASSUME MigrateInv, NEW w \in Workers, Worker(w) PROVE MigrateInv'
<1> USE DEF Busy, Verdicts
<1>1. CASE Preview(w)
  <2>1. dryRun
    BY <1>1 DEF Preview, MigrateInv, Places
  <2>2. QED
    BY <1>1, <2>1, CountsKeepsInv DEF Preview
<1>2. CASE CheckBucket(w)
  <2>1. CASE Counts(w, "error")
    BY <1>2, <2>1, CountsKeepsInv DEF CheckBucket
  <2>2. CASE holding[w] \in bucket /\ Counts(w, "skipped")
    BY <1>2, <2>2, CountsKeepsInv DEF CheckBucket
  <2>3. CASE holding[w] \notin bucket /\ Goes(w, "get")
    BY <1>2, <2>3, GoesKeepsInv DEF CheckBucket
  <2>4. QED
    BY <1>2, <2>1, <2>2, <2>3 DEF CheckBucket
<1>3. CASE OpenArtifact(w)
  <2>1. holding[w] \notin bucket
    BY <1>3 DEF OpenArtifact, MigrateInv, NoSecondUpload
  <2>2. CASE Counts(w, "error")
    BY <1>3, <2>2, CountsKeepsInv DEF OpenArtifact
  <2>3. CASE holding[w] \notin local /\ Counts(w, "missing")
    BY <1>3, <2>1, <2>3, CountsKeepsInv DEF OpenArtifact
  <2>4. CASE holding[w] \in local /\ Goes(w, "put")
    BY <1>3, <2>1, <2>4, GoesKeepsInv DEF OpenArtifact
  <2>5. QED
    BY <1>3, <2>2, <2>3, <2>4 DEF OpenArtifact
<1>4. CASE Upload(w)
  <2>1. CASE Counts(w, "uploaded") /\ bucket' = bucket \cup {holding[w]}
    BY <1>4, <2>1, CountsKeepsInv DEF Upload
  <2>2. CASE Counts(w, "error") /\ bucket' \in {bucket, bucket \cup {holding[w]}}
    BY <1>4, <2>2, CountsKeepsInv DEF Upload
  <2>3. QED
    BY <1>4, <2>1, <2>2 DEF Upload
<1>5. CASE WorkerEnds(w)
  <2> USE NoneIsNeither
  <2> USE DEF MigrateInv, MainStates, Ended, WorkerStates, WorkerEnds, store, run
  <2>1. TypeOK'
    BY <1>5 DEF TypeOK
  <2>2. HandOff' /\ Places' /\ Reckoning' /\ NoSecondUpload' /\ SuccessIsTrue'
    BY <1>5 DEF TypeOK, HandOff, Places, Reckoning, NoSecondUpload, SuccessIsTrue
  <2>3. QED
    BY <2>1, <2>2
<1>6. QED
  BY <1>1, <1>2, <1>3, <1>4, <1>5 DEF Worker

(* A kill clears the pool, and the proxy touches nothing of the tool's.    *)
LEMMA OutsideKeepsInv ==
    ASSUME MigrateInv, Kill \/ Proxy PROVE MigrateInv'
<1> USE NoneIsNeither
<1> USE DEF MigrateInv, MainStates, Ended, WorkerStates, Busy, Verdicts, store, run, pool
<1>1. CASE Kill
  <2>1. PICK arrived \in SUBSET {holding[w] : w \in {v \in Workers : wpc[v] = "put"}} :
          bucket' = bucket \cup arrived
    BY <1>1 DEF Kill
  <2>2. arrived \subseteq Artifacts /\ \A a \in arrived : verdict[a] = None
    BY <2>1 DEF TypeOK, HandOff
  <2>3. TypeOK'
    BY <1>1, <2>1, <2>2 DEF Kill, TypeOK
  <2>4. Reckoning'
    <3>1. \A a \in Artifacts : verdict[a] # None => (a \in bucket' <=> a \in bucket)
      BY <2>1, <2>2
    <3>2. QED
      BY <1>1, <3>1 DEF Kill, TypeOK, Reckoning
  <2>5. HandOff' /\ Places' /\ NoSecondUpload' /\ SuccessIsTrue'
    BY <1>1 DEF Kill, HandOff, Places, NoSecondUpload, SuccessIsTrue
  <2>6. QED
    BY <2>3, <2>4, <2>5
<1>2. CASE Proxy
  <2>1. TypeOK'
    BY <1>2 DEF Proxy, StoreArtifact, EvictArtifact, WriteRow, TypeOK
  <2>2. HandOff' /\ Places' /\ Reckoning' /\ NoSecondUpload' /\ SuccessIsTrue'
    BY <1>2 DEF Proxy, HandOff, Places, Reckoning, NoSecondUpload, SuccessIsTrue
  <2>3. QED
    BY <2>1, <2>2
<1>3. QED
  BY <1>1, <1>2

(* Every step keeps the invariant.                                         *)
LEMMA NextMigrateInv == MigrateInv /\ [Next]_vars => MigrateInv'
<1> SUFFICES ASSUME MigrateInv, [Next]_vars PROVE MigrateInv'
  OBVIOUS
<1>1. CASE UNCHANGED vars
  BY <1>1 DEF vars, store, run, pool, MigrateInv, TypeOK, HandOff, Places, Reckoning,
              NoSecondUpload, SuccessIsTrue
<1>2. CASE Next
  BY <1>2, MainKeepsInv, HandOutKeepsInv, WorkerKeepsInv, OutsideKeepsInv
     DEF Next, Main
<1>3. QED
  BY <1>1, <1>2

(* Each listed artifact is waiting, with one worker, or counted, and the   *)
(* counters are true of the bucket.                                        *)
THEOREM MigrateInvariant == Spec => []MigrateInv
<1>1. QED
  BY InitMigrateInv, NextMigrateInv, PTL DEF Spec

(* Every variable of the tool has its type.                                *)
THEOREM TypeCorrect == Spec => []TypeOK
<1>1. MigrateInv => TypeOK
  BY DEF MigrateInv
<1>2. QED
  BY <1>1, MigrateInvariant, PTL

(* A run that reports success has copied what it listed and found on disk  *)
(* (lines 222-242).                                                        *)
THEOREM SuccessIsCopied == Spec => []SuccessIsTrue
<1>1. MigrateInv => SuccessIsTrue
  BY DEF MigrateInv
<1>2. QED
  BY <1>1, MigrateInvariant, PTL

(* What is in the bucket is not uploaded again (line 175).                 *)
THEOREM UploadedOnce == Spec => []NoSecondUpload
<1>1. MigrateInv => NoSecondUpload
  BY DEF MigrateInv
<1>2. QED
  BY <1>1, MigrateInvariant, PTL

(* A dry run leaves the bucket alone (lines 10, 224-228).                  *)
THEOREM DryRunIsDry == Spec => DryRunTouchesNothing
<1>1. MigrateInv /\ [Next]_vars => [dryRun => UNCHANGED bucket]_vars
  <2> SUFFICES ASSUME MigrateInv, Next, dryRun PROVE UNCHANGED bucket
    OBVIOUS
  <2>1. \A w \in Workers : wpc[w] # "put"
    BY DEF MigrateInv, Places, Busy
  <2>2. CASE Start \/ Proxy \/ Main
    BY <2>2 DEF Start, Proxy, Main, List, OpenStores, CloseChannel, Report, HandOut
  <2>3. CASE \E w \in Workers : Worker(w)
    BY <2>1, <2>3 DEF Worker, Preview, CheckBucket, OpenArtifact, Upload, WorkerEnds
  <2>4. CASE Kill
    BY <2>1, <2>4 DEF Kill
  <2>5. QED
    BY <2>2, <2>3, <2>4 DEF Next
<1>2. QED
  BY <1>1, MigrateInvariant, PTL DEF Spec, DryRunTouchesNothing
=============================================================================
