---------------------------- MODULE ExpiryProofs ----------------------------
(***************************************************************************)
(* Proofs about Expiry for any packages, any TTL and any number of         *)
(* background goroutines: TimesKeepUp is inductive, so the eviction worker *)
(* deletes no row of a package whose last use left its mark within the     *)
(* TTL, and the times in the table provide what RowLife promises of it.    *)
(***************************************************************************)
EXTENDS Expiry, TLAPS

(* A row is no None, and neither is an age or a package.                   *)
LEMMA NoneIsNothing ==
    /\ None \notin Rows
    /\ \A a \in Int : a # None
    /\ \A p \in Packages : p # None
<1>1. \A a \in Ages : a \in Int
  BY TTLAssumption DEF Ages
<1>2. ASSUME NEW r \in Rows
      PROVE  r \in [status : Statuses, cached : Int, hit : Int \cup {None}]
  BY <1>1, <1>2 DEF Rows
<1>3. None \notin Rows
  BY <1>2, NoneAssumption
<1> QED BY <1>3, NoneAssumption

LEMMA LastAccessType ==
    ASSUME NEW r \in Rows
    PROVE  LastAccess(r) \in Ages
BY DEF Rows, LastAccess

LEMMA OlderType ==
    /\ \A a \in Ages : Older(a) \in Ages /\ a <= Older(a)
    /\ Older(None) = None
    /\ \A a, b \in Ages : a <= b => Older(a) <= Older(b)
    /\ \A a \in Ages : a > TTL => Older(a) = a
<1>1. \A a \in Ages : Older(a) = IF a > TTL THEN a ELSE a + 1
  BY NoneIsNothing, TTLAssumption DEF Older, Ages
<1>2. Older(None) = None
  BY DEF Older
<1> QED BY <1>1, <1>2, TTLAssumption DEF Ages

(* A tick makes every row older by one.                                    *)
LEMMA OlderRow ==
    ASSUME NEW r \in Rows
    PROVE  LET s == [r EXCEPT !.cached = Older(@), !.hit = Older(@)]
           IN  s \in Rows /\ s.status = r.status /\ LastAccess(s) = Older(LastAccess(r))
<1> DEFINE s == [r EXCEPT !.cached = Older(@), !.hit = Older(@)]
<1>1. /\ r = [status |-> r.status, cached |-> r.cached, hit |-> r.hit]
      /\ r.status \in Statuses /\ r.cached \in Ages /\ r.hit \in Ages \cup {None}
  BY DEF Rows
<1> HIDE DEF s
<1>2. s = [status |-> r.status, cached |-> Older(r.cached), hit |-> Older(r.hit)]
  <2> DEFINE t == [r EXCEPT !.cached = Older(@)]
  <2>1. t = [status |-> r.status, cached |-> Older(r.cached), hit |-> r.hit]
    BY <1>1
  <2>2. s = [t EXCEPT !.hit = Older(@)]
    BY <1>1 DEF s
  <2> QED BY <2>1, <2>2
<1>3. Older(r.cached) \in Ages /\ Older(r.hit) \in Ages \cup {None}
  BY <1>1, OlderType
<1>4. s \in Rows
  BY <1>1, <1>2, <1>3 DEF Rows
<1>5. Older(r.hit) = None <=> r.hit = None
  BY <1>1, OlderType, NoneIsNothing DEF Ages
<1>6. s.status = r.status /\ LastAccess(s) = Older(LastAccess(r))
  BY <1>2, <1>5 DEF LastAccess
<1> QED BY <1>4, <1>6 DEF s

LEMMA UpsertedRow ==
    ASSUME NEW r \in Rows \cup {None}, NEW status \in Statuses
    PROVE  LET s == Upserted(r, status)
           IN  /\ s \in Rows /\ s.status = status
               /\ LastAccess(s) = IF r = None THEN 0 ELSE LastAccess(r)
<1>1. 0 \in Ages
  BY TTLAssumption DEF Ages
<1>2. CASE r = None
  BY <1>1, <1>2 DEF Upserted, Rows, LastAccess
<1>3. CASE r \in Rows /\ r # None
  BY <1>3 DEF Upserted, Rows, LastAccess
<1> QED BY <1>2, <1>3

LEMMA InitTimes == Init => TimesKeepUp
BY TTLAssumption, NoneIsNothing DEF Init, TimesKeepUp, TypeOK, MarksShow, ListIsSound, Condemned, Marked, Ages

LEMMA RequestTimes ==
    ASSUME TimesKeepUp, NEW q \in Packages, Request(q)
    PROVE  TimesKeepUp'
<1> USE DEF TimesKeepUp
<1>1. 0 \in Ages /\ \A k \in JobKinds : Job(k, q) \in Jobs
  BY TTLAssumption DEF Ages, Job, Jobs, JobKinds
<1>2. CASE HitRedis(q)
  <2>1. TypeOK'
    BY <1>1, <1>2 DEF HitRedis, Serves, TypeOK, index, worker, JobKinds
  <2>2. MarksShow'
    BY <1>2, NoneIsNothing DEF HitRedis, Serves, TypeOK, index, MarksShow, Marked
  <2>3. ListIsSound'
    BY <1>2 DEF HitRedis, Serves, TypeOK, index, worker, ListIsSound, Condemned, Marked
  <2> QED BY <2>1, <2>2, <2>3
<1>3. CASE HitRow(q)
  <2>1. TypeOK'
    BY <1>1, <1>3 DEF HitRow, Serves, TypeOK, index, worker, JobKinds
  <2>2. MarksShow'
    BY <1>3, NoneIsNothing DEF HitRow, Serves, TypeOK, index, MarksShow, Marked
  <2>3. ListIsSound'
    BY <1>3 DEF HitRow, Serves, TypeOK, index, worker, ListIsSound, Condemned, Marked
  <2> QED BY <2>1, <2>2, <2>3
<1>4. CASE Miss(q)
  <2>1. TypeOK'
    BY <1>1, <1>4 DEF Miss, Serves, TypeOK, worker, JobKinds
  <2>2. MarksShow'
    BY <1>4, NoneIsNothing DEF Miss, Serves, TypeOK, MarksShow, Marked
  <2>3. ListIsSound'
    BY <1>4 DEF Miss, Serves, TypeOK, worker, ListIsSound, Condemned, Marked
  <2> QED BY <2>1, <2>2, <2>3
<1>5. CASE Block(q)
  <2>1. TypeOK'
    BY <1>1, <1>5 DEF Block, TypeOK, index, worker, history, JobKinds
  <2>2. MarksShow'
    BY <1>5 DEF Block, index, history, MarksShow, Marked
  <2>3. ListIsSound'
    BY <1>5 DEF Block, index, worker, history, ListIsSound, Condemned, Marked
  <2> QED BY <2>1, <2>2, <2>3
<1> QED BY <1>2, <1>3, <1>4, <1>5 DEF Request

LEMMA BackgroundTimes ==
    ASSUME TimesKeepUp, NEW q \in Packages, Background(q)
    PROVE  TimesKeepUp'
<1> USE DEF TimesKeepUp
<1>1. 0 \in Ages /\ 0 \in 0..(TTL - 1) /\ \A k \in JobKinds : Job(k, q) \in Jobs
  BY TTLAssumption DEF Ages, Job, Jobs, JobKinds
<1>2. CASE TouchPackage(q)
  <2>1. row[q] # None =>
            /\ [row[q] EXCEPT !.hit = 0] \in Rows
            /\ LastAccess([row[q] EXCEPT !.hit = 0]) = 0
    BY <1>1, NoneIsNothing DEF TypeOK, Rows, LastAccess, Ages
  <2>2. row' = [row EXCEPT ![q] = IF row[q] = None THEN None ELSE [row[q] EXCEPT !.hit = 0]]
    BY <1>2 DEF TouchPackage, TypeOK
  <2>3. TypeOK'
    BY <1>2, <2>1, <2>2 DEF TouchPackage, TypeOK, worker, history
  <2>4. MarksShow'
    <3> SUFFICES ASSUME NEW p \in Packages
                 PROVE  /\ how'[p] # "none" => used'[p] # None
                        /\ Marked(p)' /\ row'[p] # None /\ Job("touch", p) \notin jobs' =>
                              LastAccess(row'[p]) <= used'[p]
      BY DEF MarksShow
    <3>1. CASE p = q
      BY <1>2, <2>1, <2>2, <3>1 DEF TouchPackage, TypeOK, history, MarksShow, Marked, Ages
    <3>2. CASE p # q
      <4>1. Job("touch", p) # Job("touch", q)
        BY <3>2 DEF Job
      <4> QED BY <1>2, <2>2, <3>2, <4>1 DEF TouchPackage, TypeOK, history, MarksShow, Marked
    <3> QED BY <3>1, <3>2
  <2>5. ListIsSound'
    BY <1>2, <2>1, <2>2, NoneIsNothing
    DEF TouchPackage, TypeOK, worker, history, ListIsSound, Condemned, Marked
  <2> QED BY <2>3, <2>4, <2>5
<1>3. CASE Backfill(q)
  <2>1. TypeOK'
    BY <1>1, <1>3 DEF Backfill, TypeOK, worker, history
  <2>2. MarksShow'
    <3>1. \A p : Job("touch", p) # Job("backfill", q)
      BY DEF Job
    <3> QED BY <1>3, <3>1 DEF Backfill, history, MarksShow, Marked
  <2>3. ListIsSound'
    BY <1>3 DEF Backfill, worker, history, ListIsSound, Condemned, Marked
  <2> QED BY <2>1, <2>2, <2>3
<1>4. CASE IndexArtifact(q)
  <2>1. TypeOK'
    BY <1>1, <1>4 DEF IndexArtifact, TypeOK, worker, history, JobKinds
  <2>2. MarksShow'
    <3>1. \A p : Job("touch", p) # Job("index", q) /\ Job("touch", p) # Job("upsert", q)
      BY DEF Job
    <3> QED BY <1>4, <3>1 DEF IndexArtifact, history, MarksShow, Marked
  <2>3. ListIsSound'
    BY <1>4 DEF IndexArtifact, worker, history, ListIsSound, Condemned, Marked
  <2> QED BY <2>1, <2>2, <2>3
<1>5. ASSUME NEW status \in Statuses, NEW k \in {"upsert", "block"},
             row' = [row EXCEPT ![q] = Upserted(@, status)],
             jobs' = jobs \ {Job(k, q)},
             how' = how \/ how' = IF row[q] = None /\ how[q] = "miss"
                                  THEN [how EXCEPT ![q] = "inserted"] ELSE how,
             UNCHANGED <<key, stored, worker, used, late>>
      PROVE  TimesKeepUp'
  <2> DEFINE new == Upserted(row[q], status)
  <2>1. new \in Rows /\ LastAccess(new) = IF row[q] = None THEN 0 ELSE LastAccess(row[q])
    BY UpsertedRow DEF TypeOK
  <2> HIDE DEF new
  <2>2. row' = [row EXCEPT ![q] = new]
    BY <1>5 DEF new
  <2>3. \A p \in Packages : how'[p] = how[p] \/ (p = q /\ row[q] = None /\ how[q] = "miss")
    BY <1>5 DEF TypeOK
  <2>4. TypeOK'
    BY <1>5, <2>1, <2>2 DEF TypeOK, worker
  <2>5. MarksShow'
    <3> SUFFICES ASSUME NEW p \in Packages
                 PROVE  /\ how'[p] # "none" => used'[p] # None
                        /\ Marked(p)' /\ row'[p] # None /\ Job("touch", p) \notin jobs' =>
                              LastAccess(row'[p]) <= used'[p]
      BY DEF MarksShow
    <3>1. Job("touch", p) # Job(k, q)
      BY <1>5 DEF Job
    <3>2. how'[p] # "none" => used'[p] # None
      BY <1>5, <2>3 DEF MarksShow
    <3>3. ASSUME Marked(p)', row'[p] # None, Job("touch", p) \notin jobs'
          PROVE  LastAccess(row'[p]) <= used'[p]
      <4>1. how'[p] # "none" /\ used'[p] \in Ages
        BY <1>5, <3>2, <3>3 DEF Marked, TypeOK
      <4>2. CASE p = q /\ row[q] = None
        BY <2>1, <2>2, <4>1, <4>2 DEF TypeOK, Ages
      <4>3. CASE ~(p = q /\ row[q] = None)
        <5>1. how'[p] = how[p]
          BY <2>3, <4>3
        <5>2. row[p] # None /\ LastAccess(row'[p]) = LastAccess(row[p])
          BY <2>1, <2>2, <3>3, <4>3 DEF TypeOK
        <5> QED BY <1>5, <3>1, <3>3, <5>1, <5>2 DEF MarksShow, Marked
      <4> QED BY <4>2, <4>3
    <3> QED BY <3>2, <3>3
  <2>6. ListIsSound'
    <3>1. \A p \in Condemned : how'[p] = how[p] /\ p \in Packages
      BY <2>3 DEF ListIsSound, Condemned, TypeOK
    <3>2. \A p \in Packages : row[p] # None => row'[p] # None
      BY <2>1, <2>2, NoneIsNothing DEF TypeOK
    <3>3. Condemned' = Condemned
      BY <1>5 DEF Condemned, worker
    <3> QED BY <1>5, <3>1, <3>2, <3>3 DEF ListIsSound, Marked, worker
  <2> QED BY <2>4, <2>5, <2>6
<1>6. CASE UpsertPackage(q)
  BY <1>5, <1>6 DEF UpsertPackage, Statuses, history
<1>7. CASE UpsertBlocked(q)
  BY <1>5, <1>7 DEF UpsertBlocked, Statuses, history
<1> QED BY <1>2, <1>3, <1>4, <1>6, <1>7 DEF Background

LEMMA WorkerTimes ==
    ASSUME TimesKeepUp, Worker
    PROVE  TimesKeepUp'
<1> USE DEF TimesKeepUp
<1>1. CASE ListExpired
  <2>1. TypeOK'
    BY <1>1 DEF ListExpired, TypeOK, index
  <2>2. MarksShow'
    BY <1>1 DEF ListExpired, MarksShow, Marked, index
  <2>3. victim = None
    BY <1>1 DEF ListExpired, TypeOK
  <2>4. ASSUME NEW p \in todo', p \notin late', Marked(p)'
        PROVE  used'[p] > TTL
    <3>1. /\ p \in Packages /\ row[p] # None /\ LastAccess(row[p]) > TTL
          /\ Marked(p) /\ Job("touch", p) \notin jobs /\ used'[p] = used[p]
      BY <1>1, <2>4 DEF ListExpired, IsExpired, IsCached, Marked
    <3>2. used[p] # None /\ LastAccess(row[p]) <= used[p]
      BY <3>1 DEF MarksShow, Marked
    <3>3. used[p] \in Ages /\ LastAccess(row[p]) \in Ages
      BY <3>1, <3>2, LastAccessType DEF TypeOK
    <3> QED BY <3>1, <3>2, <3>3, TTLAssumption DEF Ages
  <2>5. ListIsSound'
    BY <1>1, <2>3, <2>4, NoneIsNothing DEF ListExpired, ListIsSound, Condemned, IsExpired, IsCached, index
  <2> QED BY <2>1, <2>2, <2>5
<1>2. ASSUME NEW p \in todo, EvictArtifact(p) PROVE TimesKeepUp'
  <2>1. p \in Packages /\ victim = None /\ p # None
    BY <1>2, NoneIsNothing DEF EvictArtifact, TypeOK
  <2>2. TypeOK'
    BY <1>2, <2>1 DEF EvictArtifact, TypeOK, history
  <2>3. MarksShow'
    BY <1>2 DEF EvictArtifact, MarksShow, Marked, history
  <2>4. Condemned' = Condemned
    BY <1>2, <2>1 DEF EvictArtifact, Condemned
  <2>5. ListIsSound'
    BY <1>2, <2>4 DEF EvictArtifact, ListIsSound, Marked, history
  <2> QED BY <2>2, <2>3, <2>5
<1>3. CASE EvictKey
  <2>1. TypeOK'
    BY <1>3 DEF EvictKey, TypeOK, history
  <2>2. MarksShow'
    BY <1>3 DEF EvictKey, MarksShow, Marked, history
  <2>3. ListIsSound'
    BY <1>3 DEF EvictKey, ListIsSound, Condemned, Marked, history
  <2> QED BY <2>1, <2>2, <2>3
<1>4. CASE EvictRow
  <2>1. victim \in Packages
    BY <1>4 DEF EvictRow, TypeOK
  <2>2. TypeOK'
    BY <1>4, <2>1 DEF EvictRow, TypeOK, history
  <2>3. MarksShow'
    BY <1>4 DEF EvictRow, TypeOK, MarksShow, Marked, history
  <2>4. Condemned' = todo /\ victim \notin todo /\ todo \subseteq Condemned
    BY <1>4 DEF EvictRow, Condemned, ListIsSound
  <2>5. None \notin todo
    BY NoneIsNothing DEF TypeOK
  <2>6. ListIsSound'
    BY <1>4, <2>1, <2>4, <2>5 DEF EvictRow, TypeOK, ListIsSound, Marked, history
  <2> QED BY <2>2, <2>3, <2>6
<1> QED BY <1>1, <1>2, <1>3, <1>4 DEF Worker

LEMMA TickTimes ==
    ASSUME TimesKeepUp, Tick
    PROVE  TimesKeepUp'
<1> USE DEF TimesKeepUp
<1>1. \A p \in Packages :
          /\ row'[p] \in Rows \cup {None}
          /\ row'[p] = None <=> row[p] = None
          /\ row[p] # None => LastAccess(row'[p]) = Older(LastAccess(row[p]))
  <2> SUFFICES ASSUME NEW p \in Packages
               PROVE  /\ row'[p] \in Rows \cup {None}
                      /\ row'[p] = None <=> row[p] = None
                      /\ row[p] # None => LastAccess(row'[p]) = Older(LastAccess(row[p]))
    OBVIOUS
  <2>1. row'[p] = IF row[p] = None THEN None
                  ELSE [row[p] EXCEPT !.cached = Older(@), !.hit = Older(@)]
    BY DEF Tick
  <2>2. CASE row[p] = None
    BY <2>1, <2>2
  <2>3. CASE row[p] # None
    <3>1. row[p] \in Rows
      BY <2>3 DEF TypeOK
    <3>2. row'[p] \in Rows /\ LastAccess(row'[p]) = Older(LastAccess(row[p]))
      BY <2>1, <2>3, <3>1, OlderRow
    <3> QED BY <2>3, <3>2, NoneIsNothing
  <2> QED BY <2>2, <2>3
<1>2. \A p \in Packages : key'[p] \in 0..(TTL - 1) \cup {None}
  <2> SUFFICES ASSUME NEW p \in Packages
               PROVE  key'[p] \in 0..(TTL - 1) \cup {None}
    OBVIOUS
  <2>1. key'[p] = IF key[p] = None \/ key[p] + 1 >= TTL THEN None ELSE key[p] + 1
    BY DEF Tick
  <2>2. CASE key[p] = None
    BY <2>1, <2>2
  <2>3. CASE key[p] \in 0..(TTL - 1)
    BY <2>1, <2>3, TTLAssumption
  <2> QED BY <2>2, <2>3 DEF TypeOK
<1>3. \A p \in Packages : used'[p] = Older(used[p]) /\ used'[p] \in Ages \cup {None}
  BY OlderType DEF Tick, TypeOK
<1>4. TypeOK'
  BY <1>1, <1>2, <1>3 DEF Tick, TypeOK, worker
<1>5. MarksShow'
  <2> SUFFICES ASSUME NEW p \in Packages
               PROVE  /\ how'[p] # "none" => used'[p] # None
                      /\ Marked(p)' /\ row'[p] # None /\ Job("touch", p) \notin jobs' =>
                            LastAccess(row'[p]) <= used'[p]
    BY DEF MarksShow
  <2>1. how'[p] = how[p] /\ jobs' = jobs
    BY DEF Tick
  <2>2. how[p] # "none" => used[p] \in Ages /\ used'[p] \in Ages
    BY <1>3, OlderType DEF MarksShow, TypeOK
  <2>3. row[p] # None => LastAccess(row[p]) \in Ages
    BY LastAccessType DEF TypeOK
  <2>4. how'[p] # "none" => used'[p] # None
    BY <2>1, <2>2, NoneIsNothing DEF Ages
  <2>5. ASSUME Marked(p)', row'[p] # None, Job("touch", p) \notin jobs'
        PROVE  LastAccess(row'[p]) <= used'[p]
    <3>1. Marked(p) /\ row[p] # None /\ LastAccess(row[p]) <= used[p] /\ how[p] # "none"
      BY <1>1, <2>1, <2>5 DEF Marked, MarksShow
    <3> QED BY <1>1, <1>3, <2>2, <2>3, <3>1, OlderType
  <2> QED BY <2>4, <2>5
<1>6. ListIsSound'
  <2>1. Condemned' = Condemned /\ Condemned \subseteq Packages
    BY DEF Tick, worker, Condemned, TypeOK
  <2>2. ASSUME NEW p \in Condemned \ late, Marked(p) PROVE used'[p] > TTL
    <3>1. used[p] > TTL /\ used[p] \in Ages
      BY <2>1, <2>2 DEF ListIsSound, MarksShow, Marked, TypeOK
    <3> QED BY <1>3, <2>1, <2>2, <3>1, OlderType
  <2> QED BY <1>1, <2>1, <2>2 DEF Tick, worker, ListIsSound, Marked
<1> QED BY <1>4, <1>5, <1>6

LEMMA NextTimes == TimesKeepUp /\ [Next]_vars => TimesKeepUp'
<1> SUFFICES ASSUME TimesKeepUp, [Next]_vars PROVE TimesKeepUp'
  OBVIOUS
<1>1. CASE UNCHANGED vars
  BY <1>1 DEF vars, index, worker, history, TimesKeepUp, TypeOK, MarksShow, ListIsSound, Condemned, Marked
<1> QED BY <1>1, RequestTimes, BackgroundTimes, WorkerTimes, TickTimes DEF Next

(* The types, the times of the rows, and the list of the worker, in every  *)
(* reachable state.                                                        *)
THEOREM TimesKeepUpAlways == Spec => []TimesKeepUp
<1> QED BY InitTimes, NextTimes, PTL DEF Spec

-----------------------------------------------------------------------------
(* Only the worker takes a row away.                                       *)
LEMMA OnlyEvictRow ==
    ASSUME TimesKeepUp, [Next]_vars, NEW p \in Packages, row[p] # None, row'[p] = None
    PROVE  EvictRow /\ p = victim
<1> USE DEF TimesKeepUp
<1>1. ASSUME NEW q \in Packages, Request(q) PROVE FALSE
  BY <1>1 DEF Request, HitRedis, HitRow, Miss, Block, index
<1>2. ASSUME NEW q \in Packages, Background(q) PROVE FALSE
  <2>1. CASE TouchPackage(q)
    <3>1. row[q] # None => [row[q] EXCEPT !.hit = 0] \in Rows
      BY TTLAssumption DEF TypeOK, Rows, Ages
    <3> QED BY <2>1, <3>1, NoneIsNothing DEF TouchPackage, TypeOK
  <2>2. \A status \in Statuses : Upserted(row[q], status) \in Rows
    BY UpsertedRow DEF TypeOK
  <2>3. CASE UpsertPackage(q)
    BY <2>2, <2>3, NoneIsNothing DEF UpsertPackage, TypeOK, Statuses
  <2>4. CASE UpsertBlocked(q)
    BY <2>2, <2>4, NoneIsNothing DEF UpsertBlocked, TypeOK, Statuses
  <2>5. CASE Backfill(q) \/ IndexArtifact(q)
    BY <2>5 DEF Backfill, IndexArtifact
  <2> QED BY <1>2, <2>1, <2>3, <2>4, <2>5 DEF Background
<1>3. CASE Worker
  <2>1. CASE ListExpired \/ (\E q \in todo : EvictArtifact(q)) \/ EvictKey
    BY <2>1 DEF ListExpired, EvictArtifact, EvictKey, index
  <2>2. CASE EvictRow
    BY <2>2 DEF EvictRow, TypeOK
  <2> QED BY <1>3, <2>1, <2>2 DEF Worker
<1>4. CASE Tick
  <2>1. row'[p] = [row[p] EXCEPT !.cached = Older(@), !.hit = Older(@)] /\ row[p] \in Rows
    BY <1>4 DEF Tick, TypeOK
  <2> QED BY <2>1, OlderRow, NoneIsNothing
<1>5. CASE UNCHANGED vars
  BY <1>5 DEF vars, index
<1> QED BY <1>1, <1>2, <1>3, <1>4, <1>5 DEF Next

(* The worker deletes the row of a package only if it was not served       *)
(* within the TTL, or the last reply left no mark, or it came too late.    *)
THEOREM RowsGoForCause == Spec => EvictedForCause
<1>1. ASSUME TimesKeepUp, [Next]_vars, NEW p \in Packages, row[p] # None, row'[p] = None
      PROVE  used[p] > TTL \/ ~Marked(p) \/ p \in late
  <2>1. wpc = "row" /\ p = victim
    BY <1>1, OnlyEvictRow DEF EvictRow
  <2>2. victim # None
    BY <1>1, <2>1, NoneIsNothing
  <2> QED BY <1>1, <2>1, <2>2 DEF TimesKeepUp, ListIsSound, Condemned
<1>2. TimesKeepUp /\ [Next]_vars =>
          [\A p \in Packages : row[p] # None /\ row'[p] = None =>
               used[p] > TTL \/ ~Marked(p) \/ p \in late]_vars
  BY <1>1
<1> QED BY <1>2, TimesKeepUpAlways, PTL DEF Spec, EvictedForCause

-----------------------------------------------------------------------------
(* The refinement of RowLife.                                              *)
LEMMA RowViewType ==
    ASSUME NEW r \in Rows
    PROVE  RowView(r) # None /\ RowView(r) \in [status : Statuses, use : {"fresh", "idle"}]
<1>1. r # None
  BY NoneIsNothing
<1>2. RowView(r) \in [status : Statuses, use : {"fresh", "idle"}]
  BY <1>1 DEF RowView, Rows
<1> QED BY <1>2, NoneAssumption

LEMMA PresentRows ==
    ASSUME TypeOK
    PROVE  Life!Present = {p \in Packages : row[p] # None}
<1>1. ASSUME NEW p \in Packages PROVE RowView(row[p]) = None <=> row[p] = None
  <2>1. CASE row[p] = None
    BY <2>1 DEF RowView
  <2>2. CASE row[p] # None
    BY <2>2, RowViewType DEF TypeOK
  <2> QED BY <2>1, <2>2
<1> QED BY <1>1 DEF Life!Present

LEMMA InitLife == Init => Life!Init
<1> SUFFICES ASSUME Init PROVE Life!Init
  OBVIOUS
<1>1. \A p \in Packages : RowView(row[p]) = None
  BY DEF Init, RowView
<1>2. Condemned = {}
  BY DEF Init, Condemned
<1> QED BY <1>1, <1>2 DEF Life!Init

\* What no row and no list tells apart is a step of nobody.
LEMMA SameLife ==
    ASSUME row' = row, Condemned' = Condemned
    PROVE  UNCHANGED Life!vars
BY DEF Life!vars

LEMMA RequestLife ==
    ASSUME NEW q \in Packages, Request(q)
    PROVE  UNCHANGED Life!vars
<1>1. row' = row /\ Condemned' = Condemned
  BY DEF Request, HitRedis, HitRow, Miss, Block, index, worker, Condemned
<1> QED BY <1>1, SameLife

LEMMA BackgroundLife ==
    ASSUME TimesKeepUp, NEW q \in Packages, Background(q)
    PROVE  [Life!Next]_Life!vars
<1> USE DEF TimesKeepUp
<1> DEFINE rows == [p \in Packages |-> RowView(row[p])]
<1>1. Condemned' = Condemned
  BY DEF Background, TouchPackage, Backfill, IndexArtifact, UpsertPackage, UpsertBlocked, worker, Condemned
<1>2. CASE Backfill(q) \/ IndexArtifact(q) \/ (TouchPackage(q) /\ row[q] = None)
  BY <1>1, <1>2, SameLife DEF Backfill, IndexArtifact, TouchPackage
<1>3. CASE TouchPackage(q) /\ row[q] # None
  <2> DEFINE new == [row[q] EXCEPT !.hit = 0]
  <2>1. row[q] \in Rows
    BY <1>3 DEF TypeOK
  <2>2. new \in Rows /\ new.status = row[q].status /\ LastAccess(new) = 0
    BY <2>1, TTLAssumption, NoneIsNothing DEF Rows, Ages, LastAccess
  <2> HIDE DEF new
  <2>3. RowView(new) = [RowView(row[q]) EXCEPT !.use = "fresh"]
    <3>1. new # None /\ row[q] # None /\ ~(0 > TTL)
      BY <2>1, <2>2, NoneIsNothing, TTLAssumption
    <3> QED BY <2>2, <3>1 DEF RowView
  <2>4. row' = [row EXCEPT ![q] = new]
    BY <1>3 DEF TouchPackage, new
  <2>5. rows' = [rows EXCEPT ![q].use = "fresh"]
    BY <2>3, <2>4 DEF TypeOK
  <2>6. q \in Life!Present
    BY <1>3, PresentRows
  <2> QED BY <1>1, <2>5, <2>6 DEF Life!Touch, Life!Next
<1>4. ASSUME NEW status \in Statuses, row' = [row EXCEPT ![q] = Upserted(@, status)]
      PROVE  Life!Next
  <2> DEFINE new == Upserted(row[q], status)
  <2>1. /\ new \in Rows /\ new.status = status
        /\ LastAccess(new) = IF row[q] = None THEN 0 ELSE LastAccess(row[q])
    BY UpsertedRow DEF TypeOK
  <2> HIDE DEF new
  <2>2. RowView(new) = [status |-> status,
                        use |-> IF RowView(row[q]) = None THEN "fresh" ELSE RowView(row[q]).use]
    <3>1. new # None /\ ~(0 > TTL)
      BY <2>1, NoneIsNothing, TTLAssumption
    <3>2. CASE row[q] = None
      BY <2>1, <3>1, <3>2 DEF RowView
    <3>3. CASE row[q] # None
      <4>1. RowView(row[q]) # None
        BY <3>3, RowViewType DEF TypeOK
      <4> QED BY <2>1, <3>1, <3>3, <4>1 DEF RowView
    <3> QED BY <3>2, <3>3
  <2>3. row' = [row EXCEPT ![q] = new]
    BY <1>4 DEF new
  <2>4. rows' = [rows EXCEPT ![q] =
                     [status |-> status, use |-> IF rows[q] = None THEN "fresh" ELSE rows[q].use]]
    BY <2>2, <2>3 DEF TypeOK
  <2>5. Life!Write(q, status)
    BY <1>1, <2>4 DEF Life!Write
  <2>6. status \in Life!Statuses
    BY DEF Statuses, Life!Statuses
  <2> QED BY <2>5, <2>6 DEF Life!Next
<1>5. CASE UpsertPackage(q) \/ UpsertBlocked(q)
  BY <1>4, <1>5 DEF UpsertPackage, UpsertBlocked, Statuses
<1> QED BY <1>2, <1>3, <1>5 DEF Background

LEMMA WorkerLife ==
    ASSUME TimesKeepUp, Worker
    PROVE  [Life!Next]_Life!vars
<1> USE DEF TimesKeepUp
<1> DEFINE rows == [p \in Packages |-> RowView(row[p])]
<1>1. CASE ListExpired
  <2>1. Condemned = {}
    BY <1>1 DEF ListExpired, TypeOK, ListIsSound, Condemned
  <2>2. Condemned' = {p \in Packages : IsExpired(p)}
    BY <1>1 DEF ListExpired, TypeOK, Condemned
  <2>3. ASSUME NEW p \in Packages
        PROVE  IsExpired(p) <=>
                   p \in Life!Present /\ rows[p].status = "cached" /\ rows[p].use = "idle"
    BY PresentRows DEF IsExpired, IsCached, RowView
  <2>4. Life!Present \subseteq Packages
    BY DEF Life!Present
  <2>5. Condemned' = {p \in Life!Present : rows[p].status = "cached" /\ rows[p].use = "idle"}
    BY <2>2, <2>3, <2>4
  <2>6. rows' = rows
    BY <1>1 DEF ListExpired, index
  <2> QED BY <2>1, <2>5, <2>6 DEF Life!List, Life!Next
<1>2. ASSUME NEW p \in todo, EvictArtifact(p) PROVE UNCHANGED Life!vars
  <2>1. p # None /\ victim = None
    BY <1>2, NoneIsNothing DEF EvictArtifact, TypeOK
  <2>2. row' = row /\ Condemned' = Condemned
    BY <1>2, <2>1 DEF EvictArtifact, Condemned
  <2> QED BY <2>2, SameLife
<1>3. CASE EvictKey
  BY <1>3, SameLife DEF EvictKey, Condemned
<1>4. CASE EvictRow
  <2>1. victim \in Packages /\ victim # None
    BY <1>4, NoneIsNothing DEF EvictRow, TypeOK
  <2>2. victim \in Condemned /\ Condemned' = Condemned \ {victim}
    BY <1>4, <2>1 DEF EvictRow, Condemned, ListIsSound
  <2>3. rows' = [rows EXCEPT ![victim] = None]
    <3>1. RowView(None) = None
      BY DEF RowView
    <3> QED BY <1>4, <3>1 DEF EvictRow, TypeOK
  <2> QED BY <2>1, <2>2, <2>3 DEF Life!Delete, Life!Next
<1> QED BY <1>1, <1>2, <1>3, <1>4 DEF Worker

LEMMA TickLife ==
    ASSUME TimesKeepUp, Tick
    PROVE  Life!Next
<1> USE DEF TimesKeepUp
<1> DEFINE rows == [p \in Packages |-> RowView(row[p])]
           old == {p \in Life!Present : RowView(row'[p]).use = "idle"}
<1>1. Condemned' = Condemned
  BY DEF Tick, worker, Condemned
<1>2. ASSUME NEW p \in Packages
      PROVE  RowView(row'[p]) = IF p \in old THEN [rows[p] EXCEPT !.use = "idle"] ELSE rows[p]
  <2>1. row'[p] = IF row[p] = None THEN None
                  ELSE [row[p] EXCEPT !.cached = Older(@), !.hit = Older(@)]
    BY DEF Tick
  <2>2. CASE row[p] = None
    BY <2>1, <2>2, PresentRows DEF RowView
  <2>3. CASE row[p] # None
    <3> DEFINE a == LastAccess(row[p])
    <3>1. row[p] \in Rows /\ p \in Life!Present
      BY <2>3, PresentRows DEF TypeOK
    <3>2. /\ row'[p] \in Rows /\ row'[p].status = row[p].status
          /\ LastAccess(row'[p]) = Older(a)
      BY <2>1, <2>3, <3>1, OlderRow
    <3>3. a \in Ages /\ (a > TTL => Older(a) > TTL)
      BY <3>1, LastAccessType, OlderType
    <3>4. row'[p] # None
      BY <3>2, NoneIsNothing
    <3> HIDE DEF a
    <3>5. /\ rows[p] = [status |-> row[p].status, use |-> IF a > TTL THEN "idle" ELSE "fresh"]
          /\ RowView(row'[p]) = [status |-> row[p].status,
                                 use |-> IF Older(a) > TTL THEN "idle" ELSE "fresh"]
      BY <2>3, <3>2, <3>4 DEF RowView, a
    <3> QED BY <3>1, <3>3, <3>5
  <2> QED BY <2>2, <2>3
<1>3. rows' = [p \in Packages |-> IF p \in old THEN [rows[p] EXCEPT !.use = "idle"] ELSE rows[p]]
  BY <1>2
<1>4. old \in SUBSET Life!Present
  OBVIOUS
<1> HIDE DEF old
<1>5. Life!Age(old)
  BY <1>1, <1>3 DEF Life!Age
<1> QED BY <1>4, <1>5 DEF Life!Next

(* The times in the table provide what RowLife promises of it.             *)
THEOREM TimesProvideRowLife == Spec => ImplementsRowLife
<1>1. TimesKeepUp /\ [Next]_vars => [Life!Next]_Life!vars
  <2> SUFFICES ASSUME TimesKeepUp, [Next]_vars PROVE [Life!Next]_Life!vars
    OBVIOUS
  <2>1. CASE UNCHANGED vars
    BY <2>1, SameLife DEF vars, index, worker, Condemned
  <2> QED BY <2>1, RequestLife, BackgroundLife, WorkerLife, TickLife DEF Next
<1> QED BY <1>1, InitLife, TimesKeepUpAlways, PTL DEF Spec, ImplementsRowLife, Life!Spec
=============================================================================
