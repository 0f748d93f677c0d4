-------------------------- MODULE CacheProxyProofs --------------------------
(***************************************************************************)
(* Proofs about CacheProxy for any sets of requests, packages and files,   *)
(* any faulty services and any number of restarts: ProxyInv is inductive,  *)
(* so nothing of an unchecked package is cached, stored or served, indexes *)
(* and storage agree on whose artifact is whose; what clients see is what  *)
(* ProxyContract promises, the packages table goes through what RowLife    *)
(* promises, and misses use the singleflight group as Singleflight has it. *)
(***************************************************************************)
EXTENDS CacheProxy, TLAPS

SFP == INSTANCE SingleflightProofs WITH
    Callers <- Requests,
    Keys    <- Packages,
    key     <- [r \in Requests |-> Pkg(r)],
    pc      <- sfpc,
    ret     <- sfret

(* The instance meets the assumption that Singleflight makes.              *)
LEMMA FlightAssumption == None \notin Requests \cup Results
BY NilIsNoValue

(* SF and SFP name the same formulas.                                      *)
LEMMA SameCallTable == SF!CallTable <=> SFP!CallTable
<1>1. SF!TypeOK <=> SFP!TypeOK
  BY DEF SF!TypeOK, SFP!TypeOK, SF!CallerStates, SFP!CallerStates
<1>2. SF!RegisteredCalls <=> SFP!RegisteredCalls
  BY DEF SF!RegisteredCalls, SFP!RegisteredCalls, SF!InDo, SFP!InDo
<1>3. SF!JoinedCalls <=> SFP!JoinedCalls
  BY DEF SF!JoinedCalls, SFP!JoinedCalls
<1>4. SF!CallObjects <=> SFP!CallObjects
  BY DEF SF!CallObjects, SFP!CallObjects
<1>5. SF!Outcomes <=> SFP!Outcomes
  BY DEF SF!Outcomes, SFP!Outcomes
<1>6. QED
  BY <1>1, <1>2, <1>3, <1>4, <1>5 DEF SF!CallTable, SFP!CallTable

LEMMA SameCallTableNext == SF!CallTable' <=> SFP!CallTable'
<1>1. SF!TypeOK' <=> SFP!TypeOK'
  BY DEF SF!TypeOK, SFP!TypeOK, SF!CallerStates, SFP!CallerStates
<1>2. SF!RegisteredCalls' <=> SFP!RegisteredCalls'
  BY DEF SF!RegisteredCalls, SFP!RegisteredCalls, SF!InDo, SFP!InDo
<1>3. SF!JoinedCalls' <=> SFP!JoinedCalls'
  BY DEF SF!JoinedCalls, SFP!JoinedCalls
<1>4. SF!CallObjects' <=> SFP!CallObjects'
  BY DEF SF!CallObjects, SFP!CallObjects
<1>5. SF!Outcomes' <=> SFP!Outcomes'
  BY DEF SF!Outcomes, SFP!Outcomes
<1>6. QED
  BY <1>1, <1>2, <1>3, <1>4, <1>5 DEF SF!CallTable, SFP!CallTable

(* A step of the shared fetch keeps its call table, as SingleflightProofs  *)
(* shows.                                                                  *)
LEMMA FlightKeepsCallTable ==
    ASSUME SF!CallTable, NEW r \in Requests,
           \/ SF!Join(r) \/ SF!Lead(r)
           \/ \E v \in Results : SF!FnReturns(r, v)
           \/ SF!Land(r) \/ SF!Forget(r) \/ SF!Wake(r)
    PROVE  SF!CallTable'
<1>1. SF!Join(r) => SFP!Join(r)
  BY DEF SF!Join, SFP!Join
<1>2. SF!Lead(r) => SFP!Lead(r)
  BY DEF SF!Lead, SFP!Lead
<1>3. \A v \in Results : SF!FnReturns(r, v) => SFP!FnReturns(r, v)
  BY DEF SF!FnReturns, SFP!FnReturns
<1>4. SF!Land(r) => SFP!Land(r)
  BY DEF SF!Land, SFP!Land
<1>5. SF!Forget(r) => SFP!Forget(r)
  BY DEF SF!Forget, SFP!Forget
<1>6. SF!Wake(r) => SFP!Wake(r)
  BY DEF SF!Wake, SFP!Wake
<1>7. SFP!Next
  <2>1. CASE \E v \in Results : SF!FnReturns(r, v)
    BY <2>1, <1>3, Zenon DEF SFP!Next
  <2>2. CASE SF!Join(r) \/ SF!Lead(r) \/ SF!Land(r) \/ SF!Forget(r) \/ SF!Wake(r)
    BY <2>2, <1>1, <1>2, <1>4, <1>5, <1>6, Zenon DEF SFP!Next
  <2>3. QED
    BY <2>1, <2>2
<1>8. SFP!CallTable /\ [SFP!Next]_(SFP!vars)
  BY <1>7, SameCallTable
<1>9. SFP!CallTable'
  BY <1>8, FlightAssumption, SFP!NextCallTable
<1>10. QED
  BY <1>9, SameCallTableNext

(* A step that is none of the shared fetch's business keeps it too.        *)
LEMMA FlightUntouched ==
    ASSUME SF!CallTable, UNCHANGED <<want, flight>> PROVE SF!CallTable'
<1> USE DEF flight, Pkg
<1>1. SF!TypeOK'
  BY DEF SF!CallTable, SF!TypeOK, SF!CallerStates
<1>2. SF!RegisteredCalls' /\ SF!JoinedCalls'
  BY DEF SF!CallTable, SF!RegisteredCalls, SF!InDo, SF!JoinedCalls
<1>3. SF!CallObjects' /\ SF!Outcomes'
  BY DEF SF!CallTable, SF!CallObjects, SF!Outcomes
<1>4. QED
  BY <1>1, <1>2, <1>3 DEF SF!CallTable

(* A process that starts has an empty group.                               *)
LEMMA FreshFlight ==
    ASSUME want \in [Requests -> Files],
           sfpc = [r \in Requests |-> "start"],
           calls = [p \in Packages |-> None],
           joined = [r \in Requests |-> None],
           wg = [r \in Requests |-> 0],
           val = [r \in Requests |-> None],
           sfret = [r \in Requests |-> None]
    PROVE  SF!CallTable
<1> USE NilIsNoValue
<1>1. SF!TypeOK
  BY PackageOfFile DEF SF!TypeOK, SF!CallerStates, Pkg
<1>2. SF!RegisteredCalls /\ SF!JoinedCalls
  BY DEF SF!RegisteredCalls, SF!InDo, SF!JoinedCalls
<1>3. SF!CallObjects /\ SF!Outcomes
  BY DEF SF!CallObjects, SF!Outcomes
<1>4. QED
  BY <1>1, <1>2, <1>3 DEF SF!CallTable

-----------------------------------------------------------------------------
(* The initial state.                                                      *)
LEMMA InitProxyInv == Init => ProxyInv
<1> SUFFICES ASSUME Init PROVE ProxyInv
  OBVIOUS
<1> USE NilIsNoValue DEF Init
<1>1. SF!CallTable
  BY FreshFlight
<1>2. TypeOK
  BY <1>1, BoundsAndFlags
     DEF TypeOK, SF!CallTable, RequestStates, JobStates, WorkerStates
<1>3. RequestPlaces /\ OwnFetches /\ BlockedByVerdict
  BY DEF RequestPlaces, OwnFetches, BlockedByVerdict, IsBlocked, Results, FetchErrors
<1>4. PolicyGate /\ OwnArtifacts
  BY DEF PolicyGate, OwnArtifacts, IsCached, Served
<1>5. QED
  BY <1>1, <1>2, <1>3, <1>4 DEF ProxyInv

-----------------------------------------------------------------------------
(* A reply is never nil, and the state of a request that just sent one.    *)
LEMMA RepliedReply ==
    ASSUME ProxyInv, NEW r \in Requests,
           NEW k, NEW f, NEW whole, Replied(r, k, f, whole),
           \/ k \in {"hit", "miss"} /\ f \in Files /\ whole \in BOOLEAN
           \/ k \in {"blocked", "limited", "failed"} /\ f = None /\ whole = TRUE
    PROVE  /\ reply' \in [Requests -> Replies \cup {None}]
           /\ pc' \in [Requests -> RequestStates]
           /\ reply'[r] # None /\ reply'[r].kind = k /\ reply'[r].file = f
           /\ pc'[r] = "done"
           /\ \A q \in Requests \ {r} : reply'[q] = reply[q] /\ pc'[q] = pc[q]
<1>1. [kind |-> k, file |-> f, whole |-> whole] \in Replies
  BY DEF Replies
<1>2. QED
  BY <1>1, NilIsNoRecord DEF Replied, ProxyInv, TypeOK, RequestStates

(* Most replies are complete.                                              *)
LEMMA SendsReply ==
    ASSUME ProxyInv, NEW r \in Requests,
           NEW k, NEW f, Sends(r, k, f),
           \/ k \in {"hit", "miss"} /\ f \in Files
           \/ k \in {"blocked", "limited", "failed"} /\ f = None
    PROVE  /\ reply' \in [Requests -> Replies \cup {None}]
           /\ pc' \in [Requests -> RequestStates]
           /\ reply'[r] # None /\ reply'[r].kind = k /\ reply'[r].file = f
           /\ pc'[r] = "done"
           /\ \A q \in Requests \ {r} : reply'[q] = reply[q] /\ pc'[q] = pc[q]
BY RepliedReply DEF Sends

(* A hit may be cut short.                                                 *)
LEMMA StreamsReply ==
    ASSUME ProxyInv, NEW r \in Requests, NEW f \in Files, Streams(r, f)
    PROVE  /\ reply' \in [Requests -> Replies \cup {None}]
           /\ pc' \in [Requests -> RequestStates]
           /\ reply'[r] # None /\ reply'[r].kind = "hit" /\ reply'[r].file = f
           /\ pc'[r] = "done"
           /\ \A q \in Requests \ {r} : reply'[q] = reply[q] /\ pc'[q] = pc[q]
<1>1. PICK whole \in BOOLEAN : Replied(r, "hit", f, whole)
  BY DEF Streams
<1>2. QED
  BY <1>1, RepliedReply

(* The request path.                                                       *)

(* Reading the Redis index keeps the invariant.                            *)
LEMMA LookupRedisInv ==
    ASSUME ProxyInv, NEW r \in Requests, LookupRedis(r) PROVE ProxyInv'
<1> USE NilIsNoValue DEF ProxyInv, LookupRedis, Goes, index, audit, flight, worker, history, Pkg
<1>1. SF!CallTable'
  BY FlightUntouched
<1>2. TypeOK'
  BY <1>1, PackageOfFile DEF TypeOK, SF!CallTable, RequestStates
<1>3. RequestPlaces'
  BY DEF RequestPlaces, TypeOK, Served
<1>4. OwnFetches' /\ BlockedByVerdict'
  BY DEF OwnFetches, CallMayFail, BlockedByVerdict, IsBlocked
<1>5. PolicyGate'
  BY PackageOfFile DEF PolicyGate, TypeOK, IsCached, Served
<1>6. OwnArtifacts'
  BY PackageOfFile DEF OwnArtifacts, TypeOK, IsCached, Served
<1>7. QED
  BY <1>1, <1>2, <1>3, <1>4, <1>5, <1>6

(* Serving an artifact found through Redis keeps the invariant.            *)
LEMMA OpenL1Inv ==
    ASSUME ProxyInv, NEW r \in Requests, OpenL1(r) PROVE ProxyInv'
<1> USE NilIsNoValue DEF ProxyInv, index, audit, flight, worker, history, Pkg
<1>1. SF!CallTable'
  BY FlightUntouched DEF OpenL1
<1>2. found[r] \in Files /\ PkgOf[found[r]] = Pkg(r)
  BY DEF OpenL1, RequestPlaces, TypeOK, OwnArtifacts
<1>3. CASE store[found[r]] # None /\ Streams(r, store[found[r]]) /\ Spawns(r, "touch")
  <2>1. store[found[r]] = found[r]
    BY <1>2, <1>3 DEF OwnArtifacts
  <2>2. /\ reply' \in [Requests -> Replies \cup {None}]
        /\ pc' \in [Requests -> RequestStates]
        /\ reply'[r] # None /\ reply'[r].kind = "hit" /\ reply'[r].file = found[r]
        /\ pc'[r] = "done"
        /\ \A q \in Requests \ {r} : reply'[q] = reply[q] /\ pc'[q] = pc[q]
    BY <1>2, <1>3, <2>1, StreamsReply
  <2>3. TypeOK'
    BY <1>1, <1>3, <2>2 DEF OpenL1, Spawns, TypeOK, SF!CallTable, JobStates
  <2>4. RequestPlaces'
    BY <1>3, <2>2 DEF OpenL1, Spawns, RequestPlaces, TypeOK, Served
  <2>5. OwnFetches' /\ BlockedByVerdict'
    BY <1>3 DEF OpenL1, Spawns, OwnFetches, CallMayFail, BlockedByVerdict, IsBlocked, TypeOK
  <2>6. PolicyGate'
    BY <1>3, <2>2 DEF OpenL1, Spawns, PolicyGate, TypeOK, IsCached, Served
  <2>7. OwnArtifacts'
    BY <1>2, <1>3, <2>2 DEF OpenL1, OwnArtifacts, TypeOK, IsCached, Served
  <2>8. QED
    BY <1>1, <2>3, <2>4, <2>5, <2>6, <2>7
<1>4. CASE Goes(r, "l2") /\ UNCHANGED job
  <2>1. TypeOK'
    BY <1>1, <1>4 DEF OpenL1, Goes, TypeOK, SF!CallTable, RequestStates
  <2>2. RequestPlaces'
    BY <1>4 DEF OpenL1, Goes, RequestPlaces, TypeOK, Served
  <2>3. OwnFetches' /\ BlockedByVerdict'
    BY <1>4 DEF OpenL1, OwnFetches, CallMayFail, BlockedByVerdict, IsBlocked
  <2>4. PolicyGate' /\ OwnArtifacts'
    BY <1>4 DEF OpenL1, Goes, PolicyGate, OwnArtifacts, TypeOK, IsCached, Served
  <2>5. QED
    BY <1>1, <2>1, <2>2, <2>3, <2>4
<1>5. QED
  BY <1>3, <1>4 DEF OpenL1

(* Reading the packages table keeps the invariant.                         *)
LEMMA LookupRowInv ==
    ASSUME ProxyInv, NEW r \in Requests, LookupRow(r) PROVE ProxyInv'
<1> USE NilIsNoValue DEF ProxyInv, index, audit, flight, worker, history, Pkg
<1>1. SF!CallTable'
  BY FlightUntouched DEF LookupRow
<1>2. CASE IsBlocked(Pkg(r)) /\ Sends(r, "blocked", None) /\ UNCHANGED found
  <2>1. /\ reply' \in [Requests -> Replies \cup {None}]
        /\ pc' \in [Requests -> RequestStates]
        /\ reply'[r] # None /\ reply'[r].kind = "blocked"
        /\ pc'[r] = "done"
        /\ \A q \in Requests \ {r} : reply'[q] = reply[q] /\ pc'[q] = pc[q]
    BY <1>2, SendsReply
  <2>2. TypeOK'
    BY <1>1, <1>2, <2>1 DEF LookupRow, TypeOK, SF!CallTable
  <2>3. RequestPlaces'
    BY <1>2, <2>1 DEF LookupRow, RequestPlaces, TypeOK, Served
  <2>4. OwnFetches' /\ BlockedByVerdict'
    BY DEF LookupRow, OwnFetches, CallMayFail, BlockedByVerdict, IsBlocked
  <2>5. PolicyGate' /\ OwnArtifacts'
    BY <1>2, <2>1 DEF LookupRow, PolicyGate, OwnArtifacts, TypeOK, IsCached, Served
  <2>6. QED
    BY <1>1, <2>2, <2>3, <2>4, <2>5
<1>3. CASE /\ IsCached(Pkg(r))
           /\ found' = [found EXCEPT ![r] = db[Pkg(r)].checksum]
           /\ Goes(r, "l2store")
  <2>1. Pkg(r) \in Packages
    BY PackageOfFile DEF TypeOK
  <2>2. db[Pkg(r)].checksum \in Files /\ PkgOf[db[Pkg(r)].checksum] = Pkg(r)
    BY <1>3, <2>1 DEF OwnArtifacts, TypeOK, IsCached, Rows
  <2>3. Pkg(r) \in passed
    BY <1>3, <2>1 DEF PolicyGate
  <2>4. TypeOK'
    BY <1>1, <1>3, <2>2 DEF LookupRow, Goes, TypeOK, SF!CallTable, RequestStates
  <2>5. RequestPlaces'
    <3>1. found'[r] # None /\ \A q \in Requests \ {r} : found'[q] = found[q]
      BY <1>3, <2>2 DEF TypeOK, Results
    <3>2. QED
      BY <1>3, <3>1 DEF LookupRow, Goes, RequestPlaces, TypeOK, Served
  <2>6. OwnFetches' /\ BlockedByVerdict'
    BY DEF LookupRow, OwnFetches, CallMayFail, BlockedByVerdict, IsBlocked
  <2>7. PolicyGate'
    BY <1>3, <2>3 DEF LookupRow, Goes, PolicyGate, TypeOK, IsCached, Served
  <2>8. OwnArtifacts'
    BY <1>3, <2>2 DEF LookupRow, Goes, OwnArtifacts, TypeOK, IsCached, Served
  <2>9. QED
    BY <1>1, <2>4, <2>5, <2>6, <2>7, <2>8
<1>4. CASE Goes(r, "scan") /\ UNCHANGED found
  <2>1. TypeOK'
    BY <1>1, <1>4 DEF LookupRow, Goes, TypeOK, SF!CallTable, RequestStates
  <2>2. RequestPlaces'
    BY <1>4 DEF LookupRow, Goes, RequestPlaces, TypeOK, Served
  <2>3. OwnFetches' /\ BlockedByVerdict'
    BY DEF LookupRow, OwnFetches, CallMayFail, BlockedByVerdict, IsBlocked
  <2>4. PolicyGate' /\ OwnArtifacts'
    BY <1>4 DEF LookupRow, Goes, PolicyGate, OwnArtifacts, TypeOK, IsCached, Served
  <2>5. QED
    BY <1>1, <2>1, <2>2, <2>3, <2>4
<1>5. QED
  BY <1>2, <1>3, <1>4 DEF LookupRow

(* Serving an artifact found through the table keeps the invariant.        *)
LEMMA OpenL2Inv ==
    ASSUME ProxyInv, NEW r \in Requests, OpenL2(r) PROVE ProxyInv'
<1> USE NilIsNoValue DEF ProxyInv, index, audit, flight, worker, history, Pkg
<1>1. SF!CallTable'
  BY FlightUntouched DEF OpenL2
<1>2. found[r] \in Files /\ PkgOf[found[r]] = Pkg(r)
  BY DEF OpenL2, RequestPlaces, TypeOK, OwnArtifacts
<1>3. CASE /\ store[found[r]] # None
           /\ Streams(r, store[found[r]])
           /\ Spawns(r, "backfill")
           /\ UNCHANGED found
  <2>1. store[found[r]] = found[r]
    BY <1>2, <1>3 DEF OwnArtifacts
  <2>2. /\ reply' \in [Requests -> Replies \cup {None}]
        /\ pc' \in [Requests -> RequestStates]
        /\ reply'[r] # None /\ reply'[r].kind = "hit" /\ reply'[r].file = found[r]
        /\ pc'[r] = "done"
        /\ \A q \in Requests \ {r} : reply'[q] = reply[q] /\ pc'[q] = pc[q]
    BY <1>2, <1>3, <2>1, StreamsReply
  <2>3. TypeOK'
    BY <1>1, <1>3, <2>2 DEF OpenL2, Spawns, TypeOK, SF!CallTable, JobStates
  <2>4. RequestPlaces'
    BY <1>2, <1>3, <2>2 DEF OpenL2, Spawns, RequestPlaces, TypeOK, Served
  <2>5. OwnFetches' /\ BlockedByVerdict'
    BY <1>3 DEF OpenL2, Spawns, OwnFetches, CallMayFail, BlockedByVerdict, IsBlocked, TypeOK
  <2>6. PolicyGate'
    BY <1>3, <2>2 DEF OpenL2, Spawns, PolicyGate, TypeOK, IsCached, Served
  <2>7. OwnArtifacts'
    BY <1>2, <1>3, <2>2 DEF OpenL2, OwnArtifacts, TypeOK, IsCached, Served
  <2>8. QED
    BY <1>1, <2>3, <2>4, <2>5, <2>6, <2>7
<1>4. CASE /\ found' = [found EXCEPT ![r] = None]
           /\ Goes(r, "scan")
           /\ UNCHANGED job
  <2>1. TypeOK'
    BY <1>1, <1>4 DEF OpenL2, Goes, TypeOK, SF!CallTable, RequestStates
  <2>2. RequestPlaces'
    BY <1>4 DEF OpenL2, Goes, RequestPlaces, TypeOK, Served
  <2>3. OwnFetches' /\ BlockedByVerdict'
    BY <1>4 DEF OpenL2, OwnFetches, CallMayFail, BlockedByVerdict, IsBlocked
  <2>4. PolicyGate' /\ OwnArtifacts'
    BY <1>4 DEF OpenL2, Goes, PolicyGate, OwnArtifacts, TypeOK, IsCached, Served
  <2>5. QED
    BY <1>1, <2>1, <2>2, <2>3, <2>4
<1>5. QED
  BY <1>3, <1>4 DEF OpenL2

(* A check that lets the package through keeps the invariant.              *)
LEMMA ScanAllowsInv ==
    ASSUME ProxyInv, NEW r \in Requests, ScanAllows(r) PROVE ProxyInv'
<1> USE NilIsNoValue
    DEF ProxyInv, ScanAllows, Goes, index, flight, worker, Pkg
<1>1. SF!CallTable'
  BY FlightUntouched
<1>2. TypeOK'
  BY <1>1, PackageOfFile DEF TypeOK, SF!CallTable, RequestStates
<1>3. RequestPlaces'
  BY DEF RequestPlaces, TypeOK, Served
<1>4. OwnFetches' /\ BlockedByVerdict'
  BY DEF OwnFetches, CallMayFail, BlockedByVerdict, IsBlocked
<1>5. PolicyGate'
  BY DEF PolicyGate, TypeOK, IsCached, Served
<1>6. OwnArtifacts'
  BY DEF OwnArtifacts, IsCached, Served
<1>7. QED
  BY <1>1, <1>2, <1>3, <1>4, <1>5, <1>6

(* A check that blocks the package keeps the invariant.                    *)
LEMMA ScanBlocksInv ==
    ASSUME ProxyInv, NEW r \in Requests, ScanBlocks(r) PROVE ProxyInv'
<1> USE NilIsNoValue DEF ProxyInv, ScanBlocks, Spawns, index, flight, worker, Pkg
<1>1. SF!CallTable'
  BY FlightUntouched
<1>2. /\ reply' \in [Requests -> Replies \cup {None}]
      /\ pc' \in [Requests -> RequestStates]
      /\ reply'[r] # None /\ reply'[r].kind = "blocked"
      /\ pc'[r] = "done"
      /\ \A q \in Requests \ {r} : reply'[q] = reply[q] /\ pc'[q] = pc[q]
  BY SendsReply
<1>3. TypeOK'
  <2>1. condemned' \subseteq Packages
    BY PackageOfFile DEF TypeOK
  <2>2. job' \in [Requests -> JobStates] /\ alerts' \in [Requests -> {"none", "pending", "recorded"}]
    BY DEF TypeOK, JobStates
  <2>3. QED
    BY <1>1, <1>2, <2>1, <2>2 DEF TypeOK, SF!CallTable
<1>4. RequestPlaces'
  BY <1>2 DEF RequestPlaces, TypeOK, Served
<1>5. OwnFetches' /\ BlockedByVerdict'
  BY DEF OwnFetches, CallMayFail, BlockedByVerdict, IsBlocked, TypeOK
<1>6. PolicyGate' /\ OwnArtifacts'
  BY <1>2 DEF PolicyGate, OwnArtifacts, TypeOK, IsCached, Served
<1>7. QED
  BY <1>1, <1>3, <1>4, <1>5, <1>6

(* Joining or leading the shared fetch keeps the invariant.                *)
LEMMA EnterFlightInv ==
    ASSUME ProxyInv, NEW r \in Requests, EnterFlight(r) PROVE ProxyInv'
<1> USE NilIsNoValue
    DEF ProxyInv, EnterFlight, index, audit, request, worker, history, Pkg
<1>1. SF!CallTable'
  BY FlightKeepsCallTable
<1>2. UNCHANGED <<val, sfret>> /\ \A q \in Requests \ {r} : sfpc'[q] = sfpc[q]
  BY DEF SF!Join, SF!Lead, TypeOK, SF!TypeOK
<1>3. TypeOK'
  BY <1>1 DEF TypeOK, SF!CallTable
<1>4. RequestPlaces'
  BY <1>2 DEF RequestPlaces, TypeOK, Served
<1>5. OwnFetches' /\ BlockedByVerdict'
  BY <1>2 DEF OwnFetches, CallMayFail, BlockedByVerdict, IsBlocked
<1>6. PolicyGate' /\ OwnArtifacts'
  BY DEF PolicyGate, OwnArtifacts, IsCached, Served
<1>7. QED
  BY <1>1, <1>3, <1>4, <1>5, <1>6

(* The return of the limiter and of upstream keeps the invariant.          *)
LEMMA UpstreamAnswersInv ==
    ASSUME ProxyInv, NEW r \in Requests, UpstreamAnswers(r) PROVE ProxyInv'
<1> USE NilIsNoValue
    DEF ProxyInv, UpstreamAnswers, index, audit, request, worker, history, Pkg
<1>1. PICK v \in Results :
        /\ SF!FnReturns(r, v)
        /\ v \in {want[r]} \cup FetchErrors
        /\ v = "limited" => v = want[r] \/ CallMayFail("limiter", r)
        /\ v = "failed" => v = want[r] \/ CallMayFail("upstream", r)
  BY DEF TypeOK, Results, FetchErrors
<1>2. SF!CallTable'
  BY <1>1, FlightKeepsCallTable
<1>3. /\ val' = [val EXCEPT ![r] = v] /\ UNCHANGED sfret
      /\ sfpc[r] = "running" /\ sfpc'[r] = "finished"
      /\ \A q \in Requests \ {r} : sfpc'[q] = sfpc[q]
  BY <1>1 DEF SF!FnReturns, TypeOK, SF!TypeOK
<1>4. TypeOK'
  BY <1>2 DEF TypeOK, SF!CallTable
<1>5. RequestPlaces'
  BY <1>3 DEF RequestPlaces, TypeOK, Served
<1>6. want[r] \notin FetchErrors
  BY ErrorsAreNotFiles DEF TypeOK
<1>7. OwnFetches'
  <2>1. UNCHANGED gone
    OBVIOUS
  <2>2. QED
    BY <1>1, <1>3, <1>6, <2>1 DEF OwnFetches, CallMayFail, TypeOK, SF!TypeOK, FetchErrors
<1>8. BlockedByVerdict' /\ PolicyGate' /\ OwnArtifacts'
  BY DEF BlockedByVerdict, PolicyGate, OwnArtifacts, IsBlocked, IsCached, Served
<1>9. QED
  BY <1>2, <1>4, <1>5, <1>7, <1>8

(* Releasing the callers that wait keeps the invariant.                    *)
LEMMA LandFlightInv ==
    ASSUME ProxyInv, NEW r \in Requests, LandFlight(r) PROVE ProxyInv'
<1> USE NilIsNoValue
    DEF ProxyInv, LandFlight, index, audit, request, worker, history, Pkg
<1>1. SF!CallTable'
  BY FlightKeepsCallTable
<1>2. /\ UNCHANGED <<val, sfret>> /\ sfpc[r] = "finished"
      /\ \A q \in Requests \ {r} : sfpc'[q] = sfpc[q]
  BY DEF SF!Land, TypeOK, SF!TypeOK
<1>3. TypeOK'
  BY <1>1 DEF TypeOK, SF!CallTable
<1>4. RequestPlaces'
  BY <1>2 DEF RequestPlaces, TypeOK, Served
<1>5. OwnFetches' /\ BlockedByVerdict' /\ PolicyGate' /\ OwnArtifacts'
  BY <1>2 DEF OwnFetches, CallMayFail, BlockedByVerdict, PolicyGate, OwnArtifacts,
              IsBlocked, IsCached, Served
<1>6. QED
  BY <1>1, <1>3, <1>4, <1>5

\* A client that asked for the package of r has left.
SomeoneLeft(r) == \E s \in gone : Pkg(s) = Pkg(r)

(* What the leader takes home is its own file, or an error that it meets   *)
(* when a service fails or its client has left.                            *)
LEMMA LeaderResult ==
    ASSUME ProxyInv, NEW r \in Requests, SF!Forget(r)
    PROVE  /\ pc[r] = "fetch"
           /\ sfpc'[r] = "returned"
           /\ \A q \in Requests \ {r} : sfpc'[q] = sfpc[q] /\ sfret'[q] = sfret[q]
           /\ sfret'[r] \in {want[r]} \cup FetchErrors
           /\ sfret'[r] = "limited" => CallMayFail("limiter", r)
           /\ sfret'[r] = "failed" => CallMayFail("upstream", r)
           /\ UNCHANGED val
<1> USE NilIsNoValue DEF ProxyInv
<1>1. val[r] # None
  BY DEF SF!Forget, SF!CallTable, SF!CallObjects, SF!RegisteredCalls, SF!InDo
<1>2. QED
  BY <1>1 DEF SF!Forget, RequestPlaces, OwnFetches, CallMayFail, TypeOK, SF!TypeOK

(* What a caller that joined takes home is a file of its package, the one  *)
(* the leader asked for, or the leader's error, which it may owe to a      *)
(* client other than its own.                                              *)
LEMMA FollowerResult ==
    ASSUME ProxyInv, NEW r \in Requests, SF!Wake(r)
    PROVE  /\ pc[r] = "fetch"
           /\ sfpc'[r] = "returned"
           /\ \A q \in Requests \ {r} : sfpc'[q] = sfpc[q] /\ sfret'[q] = sfret[q]
           /\ sfret'[r] \in Files \cup FetchErrors
           /\ sfret'[r] \in Files => PkgOf[sfret'[r]] = Pkg(r)
           /\ sfret'[r] = "limited" => MayFail("limiter") \/ SomeoneLeft(r)
           /\ sfret'[r] = "failed" => MayFail("upstream") \/ SomeoneLeft(r)
           /\ UNCHANGED val
<1> USE NilIsNoValue DEF ProxyInv
<1>1. joined[r] \in Requests \ {r} /\ val[joined[r]] \in Results
  <2>1. sfpc[r] = "waiting" /\ wg[joined[r]] = 0
    BY DEF SF!Wake
  <2>2. QED
    BY <2>1, SameCallTable, FlightAssumption, SFP!LandedHasOutcome
<1>2. Pkg(joined[r]) = Pkg(r)
  BY <1>1 DEF SF!CallTable, SF!JoinedCalls
<1>3. sfret'[r] = val[joined[r]]
  BY DEF SF!Wake, TypeOK, SF!TypeOK
<1>4. val[joined[r]] \in {want[joined[r]]} \cup FetchErrors
  BY <1>1 DEF OwnFetches, CallMayFail, Results
<1>5. joined[r] \in gone => SomeoneLeft(r)
  BY <1>2 DEF SomeoneLeft
<1>6. /\ val[joined[r]] = "limited" => MayFail("limiter") \/ SomeoneLeft(r)
      /\ val[joined[r]] = "failed" => MayFail("upstream") \/ SomeoneLeft(r)
  BY <1>1, <1>5 DEF OwnFetches, CallMayFail
<1>7. QED
  BY <1>1, <1>2, <1>3, <1>4, <1>6, ErrorsAreNotFiles
     DEF SF!Wake, RequestPlaces, TypeOK, SF!TypeOK, Pkg

(* The leader's return from the shared fetch keeps the invariant.          *)
LEMMA LeaveAsLeaderInv ==
    ASSUME ProxyInv, NEW r \in Requests, LeaveAsLeader(r) PROVE ProxyInv'
<1> USE NilIsNoValue DEF ProxyInv, index, audit, worker, history, Pkg
<1>1. SF!CallTable'
  BY FlightKeepsCallTable DEF LeaveAsLeader
<1>2. /\ pc[r] = "fetch"
      /\ sfpc'[r] = "returned"
      /\ \A q \in Requests \ {r} : sfpc'[q] = sfpc[q] /\ sfret'[q] = sfret[q]
      /\ sfret'[r] \in {want[r]} \cup FetchErrors
      /\ UNCHANGED val
  BY LeaderResult DEF LeaveAsLeader
<1>3. OwnFetches' /\ BlockedByVerdict'
  BY <1>2 DEF LeaveAsLeader, OwnFetches, CallMayFail, BlockedByVerdict, IsBlocked
<1>4. CASE sfret'[r] \in FetchErrors /\ Sends(r, sfret'[r], None)
  <2>1. /\ reply' \in [Requests -> Replies \cup {None}]
        /\ pc' \in [Requests -> RequestStates]
        /\ reply'[r] # None /\ reply'[r].kind = sfret'[r]
        /\ pc'[r] = "done"
        /\ \A q \in Requests \ {r} : reply'[q] = reply[q] /\ pc'[q] = pc[q]
    BY <1>4, SendsReply DEF FetchErrors
  <2>2. TypeOK'
    BY <1>1, <2>1 DEF LeaveAsLeader, TypeOK, SF!CallTable
  <2>3. RequestPlaces'
    BY <1>2, <2>1 DEF LeaveAsLeader, RequestPlaces, TypeOK, Served
  <2>4. PolicyGate' /\ OwnArtifacts'
    BY <1>4, <2>1 DEF LeaveAsLeader, PolicyGate, OwnArtifacts, IsCached, Served, FetchErrors
  <2>5. QED
    BY <1>1, <1>3, <2>2, <2>3, <2>4
<1>5. CASE sfret'[r] \in Files /\ Goes(r, "put")
  <2>1. sfret'[r] = want[r]
    BY <1>2, <1>5, ErrorsAreNotFiles
  <2>2. TypeOK'
    BY <1>1, <1>5 DEF LeaveAsLeader, Goes, TypeOK, SF!CallTable, RequestStates
  <2>3. RequestPlaces'
    BY <1>2, <1>5, <2>1 DEF LeaveAsLeader, Goes, RequestPlaces, TypeOK, Served
  <2>4. PolicyGate' /\ OwnArtifacts'
    BY <1>2, <1>5 DEF LeaveAsLeader, Goes, PolicyGate, OwnArtifacts, TypeOK,
                      IsCached, Served
  <2>5. QED
    BY <1>1, <1>3, <2>2, <2>3, <2>4
<1>6. QED
  BY <1>4, <1>5 DEF LeaveAsLeader

(* The return of a caller that joined keeps the invariant.                 *)
LEMMA LeaveAsFollowerInv ==
    ASSUME ProxyInv, NEW r \in Requests, LeaveAsFollower(r) PROVE ProxyInv'
<1> USE NilIsNoValue DEF ProxyInv, index, audit, worker, history, Pkg
<1>1. SF!CallTable'
  BY FlightKeepsCallTable DEF LeaveAsFollower
<1>2. /\ pc[r] = "fetch"
      /\ sfpc'[r] = "returned"
      /\ \A q \in Requests \ {r} : sfpc'[q] = sfpc[q] /\ sfret'[q] = sfret[q]
      /\ sfret'[r] \in Files => PkgOf[sfret'[r]] = Pkg(r)
      /\ UNCHANGED val
  BY FollowerResult DEF LeaveAsFollower
<1>3. PICK k \in {"miss", "limited", "failed"}, f \in Files \cup {None} :
        /\ Sends(r, k, f)
        /\ k = "miss" <=> f \in Files
        /\ f \in Files => PkgOf[f] = Pkg(r)
  BY <1>2 DEF LeaveAsFollower, FetchErrors, Results
<1>4. /\ reply' \in [Requests -> Replies \cup {None}]
      /\ pc' \in [Requests -> RequestStates]
      /\ reply'[r] # None /\ reply'[r].kind = k /\ reply'[r].file = f
      /\ pc'[r] = "done"
      /\ \A q \in Requests \ {r} : reply'[q] = reply[q] /\ pc'[q] = pc[q]
  BY <1>3, SendsReply
<1>5. TypeOK'
  BY <1>1, <1>4 DEF LeaveAsFollower, TypeOK, SF!CallTable
<1>6. RequestPlaces'
  BY <1>2, <1>4 DEF LeaveAsFollower, RequestPlaces, TypeOK, Served
<1>7. OwnFetches' /\ BlockedByVerdict'
  BY <1>2 DEF LeaveAsFollower, OwnFetches, CallMayFail, BlockedByVerdict, IsBlocked
<1>8. PolicyGate' /\ OwnArtifacts'
  BY <1>2, <1>3, <1>4 DEF LeaveAsFollower, PolicyGate, OwnArtifacts, IsCached, Served
<1>9. QED
  BY <1>1, <1>5, <1>6, <1>7, <1>8

(* Storing what the leader fetched keeps the invariant.                    *)
LEMMA PutArtifactInv ==
    ASSUME ProxyInv, NEW r \in Requests, PutArtifact(r) PROVE ProxyInv'
<1> USE NilIsNoValue DEF ProxyInv, index, audit, flight, worker, history, Pkg
<1>1. SF!CallTable'
  BY FlightUntouched DEF PutArtifact
<1>2. sfret[r] = want[r] /\ want[r] \in Files
  BY DEF PutArtifact, RequestPlaces, TypeOK
<1>3. /\ reply' \in [Requests -> Replies \cup {None}]
      /\ pc' \in [Requests -> RequestStates]
      /\ reply'[r] # None /\ reply'[r].kind = "miss" /\ reply'[r].file = want[r]
      /\ pc'[r] = "done"
      /\ \A q \in Requests \ {r} : reply'[q] = reply[q] /\ pc'[q] = pc[q]
  BY <1>2, SendsReply DEF PutArtifact
<1>4. /\ store' \in [Files -> Files \cup {None}]
      /\ \A f \in Files : store'[f] = store[f] \/ (f = want[r] /\ store'[f] = f)
  BY <1>2 DEF PutArtifact, TypeOK
<1>5. TypeOK'
  BY <1>1, <1>3, <1>4 DEF PutArtifact, Spawns, TypeOK, SF!CallTable, JobStates
<1>6. RequestPlaces'
  BY <1>3 DEF PutArtifact, Spawns, RequestPlaces, TypeOK, Served
<1>7. OwnFetches' /\ BlockedByVerdict'
  BY DEF PutArtifact, Spawns, OwnFetches, CallMayFail, BlockedByVerdict, IsBlocked, TypeOK
<1>8. Pkg(r) \in passed
  BY PackageOfFile DEF PutArtifact, PolicyGate, TypeOK
<1>9. PolicyGate'
  BY <1>3, <1>4, <1>8 DEF PutArtifact, Spawns, PolicyGate, TypeOK, IsCached, Served
<1>10. OwnArtifacts'
  BY <1>2, <1>3, <1>4 DEF PutArtifact, OwnArtifacts, IsCached, Served
<1>11. QED
  BY <1>1, <1>5, <1>6, <1>7, <1>9, <1>10

-----------------------------------------------------------------------------
(* The background goroutines.                                              *)

(* What a goroutine that writes to an index knows: its request was served, *)
(* so a check let the package through.                                     *)
LEMMA WriterWasCleared ==
    ASSUME ProxyInv, NEW r \in Requests, job[r] \notin {"none", "block"}
    PROVE  /\ Pkg(r) \in passed /\ Pkg(r) \in Packages
           /\ pc[r] = "done" /\ Served(r)
           /\ want[r] \in Files /\ PkgOf[want[r]] = Pkg(r)
BY PackageOfFile DEF ProxyInv, PolicyGate, TypeOK, RequestPlaces, Pkg

(* What the UPDATE of TouchPackage and the two upserts do to a row.        *)
LEMMA TouchedRow ==
    ASSUME NEW row \in Rows \cup {None}
    PROVE  /\ Touched(row) \in Rows \cup {None}
           /\ row = None => Touched(row) = None
           /\ row # None => /\ Touched(row) # None
                            /\ Touched(row).status = row.status
                            /\ Touched(row).checksum = row.checksum
<1>1. CASE row = None
  BY <1>1 DEF Touched
<1>2. CASE row # None
  <2>1. Touched(row) \in Rows
    BY <1>2 DEF Touched, Rows
  <2>2. QED
    BY <1>2, <2>1, NilIsNoRecord DEF Touched, Rows
<1>3. QED
  BY <1>1, <1>2

LEMMA UpsertedRow ==
    ASSUME NEW row \in Rows \cup {None},
           NEW status \in {"cached", "blocked"}, NEW checksum \in Files \cup {None}
    PROVE  /\ Upserted(row, status, checksum) \in Rows
           /\ Upserted(row, status, checksum) # None
           /\ Upserted(row, status, checksum).status = status
           /\ Upserted(row, status, checksum).checksum = checksum
<1>1. (row # None /\ row.idle) \in BOOLEAN
  OBVIOUS
<1>2. Upserted(row, status, checksum) \in Rows
  BY <1>1 DEF Upserted, Rows
<1>3. QED
  BY <1>2, NilIsNoRecord DEF Upserted

(* Recording a hit in the packages table keeps the invariant.              *)
LEMMA TouchPackageInv ==
    ASSUME ProxyInv, NEW r \in Requests, TouchPackage(r) PROVE ProxyInv'
<1> USE NilIsNoValue
    DEF ProxyInv, TouchPackage, WriteRow, Proceeds, request, audit, flight, worker, history, Pkg
<1>1. SF!CallTable'
  BY FlightUntouched
<1>2. /\ db' \in [Packages -> Rows \cup {None}]
      /\ \A p \in Packages :
            \/ db'[p] = db[p]
            \/ /\ db[p] # None /\ db'[p] # None
               /\ db'[p].status = db[p].status /\ db'[p].checksum = db[p].checksum
  <2>1. db[Pkg(r)] \in Rows \cup {None}
    BY WriterWasCleared DEF TypeOK
  <2>2. QED
    BY <2>1, TouchedRow DEF TypeOK
<1>3. TypeOK'
  BY <1>1, <1>2 DEF TypeOK, SF!CallTable, JobStates
<1>4. RequestPlaces'
  BY DEF RequestPlaces, TypeOK, Served
<1>5. OwnFetches' /\ BlockedByVerdict'
  BY <1>2 DEF OwnFetches, CallMayFail, BlockedByVerdict, IsBlocked, TypeOK
<1>6. PolicyGate'
  BY <1>2, WriterWasCleared DEF PolicyGate, TypeOK, IsCached, Served
<1>7. OwnArtifacts'
  BY <1>2 DEF OwnArtifacts, IsCached, Served
<1>8. QED
  BY <1>1, <1>3, <1>4, <1>5, <1>6, <1>7

(* Copying the table's checksum to Redis keeps the invariant.              *)
LEMMA BackfillInv ==
    ASSUME ProxyInv, NEW r \in Requests, Backfill(r) PROVE ProxyInv'
<1> USE NilIsNoValue
    DEF ProxyInv, Backfill, RedisSet, Proceeds, audit, flight, worker, history, Pkg
<1>1. SF!CallTable'
  BY FlightUntouched
<1>2. found[r] \in Files /\ PkgOf[found[r]] = Pkg(r)
  BY DEF RequestPlaces, TypeOK, OwnArtifacts
<1>3. TypeOK'
  BY <1>1, <1>2 DEF TypeOK, SF!CallTable, JobStates
<1>4. RequestPlaces'
  BY DEF RequestPlaces, TypeOK, Served
<1>5. OwnFetches' /\ BlockedByVerdict'
  BY DEF OwnFetches, CallMayFail, BlockedByVerdict, IsBlocked, TypeOK
<1>6. PolicyGate'
  BY <1>2, WriterWasCleared DEF PolicyGate, TypeOK, IsCached, Served
<1>7. OwnArtifacts'
  BY <1>2 DEF OwnArtifacts, TypeOK, IsCached, Served
<1>8. QED
  BY <1>1, <1>3, <1>4, <1>5, <1>6, <1>7

(* Indexing a fetched artifact in Redis keeps the invariant.               *)
LEMMA IndexArtifactInv ==
    ASSUME ProxyInv, NEW r \in Requests, IndexArtifact(r) PROVE ProxyInv'
<1> USE NilIsNoValue
    DEF ProxyInv, IndexArtifact, RedisSet, Proceeds, request, audit, flight, worker, history, Pkg
<1>1. SF!CallTable'
  BY FlightUntouched
<1>2. TypeOK'
  BY <1>1 DEF TypeOK, SF!CallTable, JobStates
<1>3. RequestPlaces'
  BY DEF RequestPlaces, TypeOK, Served
<1>4. OwnFetches' /\ BlockedByVerdict'
  BY DEF OwnFetches, CallMayFail, BlockedByVerdict, IsBlocked, TypeOK
<1>5. PolicyGate'
  BY WriterWasCleared DEF PolicyGate, TypeOK, IsCached, Served
<1>6. OwnArtifacts'
  BY WriterWasCleared DEF OwnArtifacts, TypeOK, IsCached, Served
<1>7. QED
  BY <1>1, <1>2, <1>3, <1>4, <1>5, <1>6

(* Recording a fetched artifact in the packages table keeps the invariant. *)
LEMMA UpsertPackageInv ==
    ASSUME ProxyInv, NEW r \in Requests, UpsertPackage(r) PROVE ProxyInv'
<1> USE NilIsNoValue
    DEF ProxyInv, UpsertPackage, WriteRow, Proceeds, request, audit, flight, worker, history, Pkg
<1>1. SF!CallTable'
  BY FlightUntouched
<1>2. /\ db' \in [Packages -> Rows \cup {None}]
      /\ \A p \in Packages :
            \/ db'[p] = db[p]
            \/ /\ p = Pkg(r) /\ db'[p] # None
               /\ db'[p].status = "cached" /\ db'[p].checksum = want[r]
  <2>1. /\ Pkg(r) \in Packages /\ db[Pkg(r)] \in Rows \cup {None}
        /\ want[r] \in Files \cup {None} /\ "cached" \in {"cached", "blocked"}
    BY WriterWasCleared DEF TypeOK
  <2>2. CASE UNCHANGED db
    BY <2>2 DEF TypeOK
  <2>3. CASE db' = [db EXCEPT ![Pkg(r)] = Upserted(@, "cached", want[r])]
    <3>1. db'[Pkg(r)] = Upserted(db[Pkg(r)], "cached", want[r])
      BY <2>1, <2>3 DEF TypeOK
    <3>2. db[Pkg(r)] \in Rows \cup {None} /\ want[r] \in Files \cup {None}
      BY <2>1
    <3>3. db'[Pkg(r)] \in Rows /\ db'[Pkg(r)] # None
          /\ db'[Pkg(r)].status = "cached" /\ db'[Pkg(r)].checksum = want[r]
      <4> DEFINE row == db[Pkg(r)]
      <4> DEFINE file == want[r]
      <4> DEFINE new == db'[Pkg(r)]
      <4>1. row \in Rows \cup {None} /\ file \in Files \cup {None}
            /\ new = Upserted(row, "cached", file)
        BY <3>1, <3>2
      <4> HIDE DEF row, file, new
      <4>2. new \in Rows /\ new # None /\ new.status = "cached" /\ new.checksum = file
        BY <4>1, UpsertedRow
      <4> QED BY <4>2 DEF file, new
    <3>4. QED
      BY <2>1, <2>3, <3>3 DEF TypeOK
  <2>4. QED
    BY <2>2, <2>3
<1>3. TypeOK'
  BY <1>1, <1>2 DEF TypeOK, SF!CallTable, JobStates
<1>4. RequestPlaces'
  BY DEF RequestPlaces, TypeOK, Served
<1>5. OwnFetches' /\ BlockedByVerdict'
  BY <1>2 DEF OwnFetches, CallMayFail, BlockedByVerdict, IsBlocked, TypeOK
<1>6. PolicyGate'
  BY <1>2, WriterWasCleared DEF PolicyGate, TypeOK, IsCached, Served
<1>7. OwnArtifacts'
  BY <1>2, WriterWasCleared DEF OwnArtifacts, IsCached, Served, Results
<1>8. QED
  BY <1>1, <1>3, <1>4, <1>5, <1>6, <1>7

(* Recording a blocked package keeps the invariant.                        *)
LEMMA UpsertBlockedInv ==
    ASSUME ProxyInv, NEW r \in Requests, UpsertBlocked(r) PROVE ProxyInv'
<1> USE NilIsNoValue
    DEF ProxyInv, UpsertBlocked, WriteRow, Proceeds, request, audit, flight, worker, history, Pkg
<1>1. SF!CallTable'
  BY FlightUntouched
<1>2. /\ db' \in [Packages -> Rows \cup {None}]
      /\ \A p \in Packages :
            \/ db'[p] = db[p]
            \/ p = Pkg(r) /\ db'[p] # None /\ db'[p].status = "blocked"
  <2>1. Pkg(r) \in Packages /\ db[Pkg(r)] \in Rows \cup {None}
    BY PackageOfFile DEF TypeOK
  <2>2. CASE UNCHANGED db
    BY <2>2 DEF TypeOK
  <2>3. CASE db' = [db EXCEPT ![Pkg(r)] = Upserted(@, "blocked", None)]
    <3>1. db'[Pkg(r)] = Upserted(db[Pkg(r)], "blocked", None)
      BY <2>1, <2>3 DEF TypeOK
    <3>2. db'[Pkg(r)] \in Rows /\ db'[Pkg(r)] # None
          /\ db'[Pkg(r)].status = "blocked" /\ db'[Pkg(r)].checksum = None
      BY <2>1, <3>1, UpsertedRow
    <3>3. QED
      BY <2>1, <2>3, <3>2 DEF TypeOK
  <2>4. QED
    BY <2>2, <2>3
<1>3. TypeOK'
  BY <1>1, <1>2 DEF TypeOK, SF!CallTable, JobStates
<1>4. RequestPlaces'
  BY DEF RequestPlaces, TypeOK, Served
<1>5. OwnFetches' /\ BlockedByVerdict'
  BY <1>2 DEF OwnFetches, CallMayFail, BlockedByVerdict, IsBlocked, TypeOK
<1>6. PolicyGate'
  BY <1>2 DEF PolicyGate, TypeOK, IsCached, Served
<1>7. OwnArtifacts'
  BY <1>2 DEF OwnArtifacts, IsCached, Served
<1>8. QED
  BY <1>1, <1>3, <1>4, <1>5, <1>6, <1>7

(* Recording an event, or the alerts of a check, keeps the invariant.      *)
LEMMA AuditInv ==
    ASSUME ProxyInv, NEW r \in Requests, RecordEvent(r) \/ RecordCVEAlerts(r)
    PROVE  ProxyInv'
<1> USE NilIsNoValue
    DEF ProxyInv, RecordEvent, RecordCVEAlerts, Proceeds, index, request, flight,
        worker, history, Pkg
<1>1. SF!CallTable'
  BY FlightUntouched
<1>2. TypeOK'
  <2>1. RecordEvent(r) => reply[r].kind \in {"hit", "miss"}
    BY WriterWasCleared DEF Served
  <2>2. QED
    BY <1>1, <2>1 DEF TypeOK, SF!CallTable, JobStates
<1>3. RequestPlaces'
  BY DEF RequestPlaces, TypeOK, Served
<1>4. OwnFetches' /\ BlockedByVerdict'
  BY DEF OwnFetches, CallMayFail, BlockedByVerdict, IsBlocked, TypeOK
<1>5. PolicyGate'
  BY DEF PolicyGate, TypeOK, IsCached, Served
<1>6. OwnArtifacts'
  BY DEF OwnArtifacts, IsCached, Served
<1>7. QED
  BY <1>1, <1>2, <1>3, <1>4, <1>5, <1>6

-----------------------------------------------------------------------------
(* The eviction worker.                                                    *)

(* Listing the expired rows keeps the invariant.                           *)
LEMMA ListExpiredInv == ASSUME ProxyInv, ListExpired PROVE ProxyInv'
<1> USE NilIsNoValue
    DEF ProxyInv, ListExpired, index, request, audit, flight, history, Pkg
<1>1. SF!CallTable'
  BY FlightUntouched
<1>2. \A p \in Expired : p \in Packages /\ db[p].checksum \in Files /\ PkgOf[db[p].checksum] = p
  BY DEF Expired, IsExpired, IsCached, TypeOK, Rows, OwnArtifacts
<1>3. TypeOK'
  BY <1>1, <1>2 DEF TypeOK, SF!CallTable, Entries, WorkerStates
<1>4. RequestPlaces'
  BY DEF RequestPlaces, Served
<1>5. OwnFetches' /\ BlockedByVerdict' /\ PolicyGate'
  BY DEF OwnFetches, CallMayFail, BlockedByVerdict, PolicyGate, IsBlocked, IsCached, Served
<1>6. OwnArtifacts'
  BY <1>2 DEF OwnArtifacts, IsCached, Served
<1>7. QED
  BY <1>1, <1>3, <1>4, <1>5, <1>6

(* Deleting an artifact keeps the invariant.                               *)
LEMMA EvictArtifactInv ==
    ASSUME ProxyInv, NEW v \in todo, EvictArtifact(v) PROVE ProxyInv'
<1> USE NilIsNoValue
    DEF ProxyInv, EvictArtifact, NextVictim, index, request, audit, flight, history, Pkg
<1>1. SF!CallTable'
  BY FlightUntouched
<1>2. v.pkg \in Packages
  BY DEF TypeOK, Entries
<1>3. /\ store' \in [Files -> Files \cup {None}]
      /\ \A f \in Files : store'[f] \in {store[f], None}
  BY DEF TypeOK
<1>4. /\ wpc' \in WorkerStates /\ todo' \subseteq todo
      /\ victim' \in IF wpc' \in {"redis", "row"} THEN Packages ELSE {None}
  BY <1>2 DEF TypeOK, WorkerStates
<1>5. TypeOK'
  BY <1>1, <1>3, <1>4 DEF TypeOK, SF!CallTable
<1>6. RequestPlaces'
  BY DEF RequestPlaces, Served
<1>7. OwnFetches' /\ BlockedByVerdict' /\ PolicyGate'
  BY <1>3 DEF OwnFetches, CallMayFail, BlockedByVerdict, PolicyGate, IsBlocked, IsCached, Served
<1>8. OwnArtifacts'
  BY <1>3, <1>4 DEF OwnArtifacts, IsCached, Served
<1>9. QED
  BY <1>1, <1>5, <1>6, <1>7, <1>8

(* Losing an index entry keeps the invariant, whoever removes it.          *)
LEMMA EntryLost ==
    ASSUME ProxyInv,
           UNCHANGED <<store, audit, want, request, job, flight, passed, condemned, gone, crashes>>,
           evicted' \subseteq Packages,
           redis' \in [Packages -> Files \cup {None}],
           \A p \in Packages : redis'[p] \in {redis[p], None},
           db' \in [Packages -> Rows \cup {None}],
           \A p \in Packages :
              db'[p] # None => /\ db[p] # None
                               /\ db'[p].status = db[p].status
                               /\ db'[p].checksum = db[p].checksum,
           wpc' \in WorkerStates, UNCHANGED todo,
           victim' \in IF wpc' \in {"redis", "row"} THEN Packages ELSE {None}
    PROVE  ProxyInv'
<1> USE NilIsNoValue DEF ProxyInv, request, audit, flight, Pkg
<1>1. SF!CallTable'
  BY FlightUntouched
<1>2. TypeOK'
  BY <1>1 DEF TypeOK, SF!CallTable
<1>3. RequestPlaces'
  BY DEF RequestPlaces, Served
<1>4. OwnFetches' /\ BlockedByVerdict'
  BY DEF OwnFetches, CallMayFail, BlockedByVerdict, IsBlocked
<1>5. PolicyGate'
  BY DEF PolicyGate, IsCached, Served
<1>6. OwnArtifacts'
  BY DEF OwnArtifacts, IsCached, Served
<1>7. QED
  BY <1>1, <1>2, <1>3, <1>4, <1>5, <1>6

(* Deleting the Redis key and then the row keeps the invariant.            *)
LEMMA EvictEntryInv == ASSUME ProxyInv, EvictKey \/ EvictRow PROVE ProxyInv'
<1>1. /\ UNCHANGED <<store, audit, want, request, job, flight, todo,
                      passed, condemned, gone, crashes>>
      /\ wpc' \in WorkerStates
      /\ victim' \in IF wpc' \in {"redis", "row"} THEN Packages ELSE {None}
      /\ evicted' \subseteq Packages
  BY DEF EvictKey, EvictRow, RedisDelete, DeletePackage, NextVictim, ProxyInv, TypeOK,
         WorkerStates, history
<1>2. /\ redis' \in [Packages -> Files \cup {None}]
      /\ \A p \in Packages : redis'[p] \in {redis[p], None}
  BY DEF EvictKey, EvictRow, RedisDelete, DeletePackage, ProxyInv, TypeOK
<1>3. /\ db' \in [Packages -> Rows \cup {None}]
      /\ \A p \in Packages : db'[p] \in {db[p], None}
  BY DEF EvictKey, EvictRow, RedisDelete, DeletePackage, ProxyInv, TypeOK
<1>4. QED
  BY <1>1, <1>2, <1>3, EntryLost

-----------------------------------------------------------------------------
(* The environment.                                                        *)

(* Ageing rows and expiring keys keep the invariant.                       *)
LEMMA AgingInv ==
    ASSUME ProxyInv, NEW p \in Packages, Age(p) \/ RedisExpires(p) PROVE ProxyInv'
<1>1. UNCHANGED <<store, audit, want, request, job, flight, passed, condemned, evicted,
                  gone, crashes, wpc, victim, todo>>
  BY DEF Age, RedisExpires, worker, history
<1>2. /\ redis' \in [Packages -> Files \cup {None}]
      /\ \A q \in Packages : redis'[q] \in {redis[q], None}
  BY DEF Age, RedisExpires, ProxyInv, TypeOK
<1>3. /\ db' \in [Packages -> Rows \cup {None}]
      /\ \A q \in Packages :
            db'[q] # None => /\ db[q] # None
                             /\ db'[q].status = db[q].status
                             /\ db'[q].checksum = db[q].checksum
  <2>1. CASE RedisExpires(p)
    BY <2>1 DEF RedisExpires, ProxyInv, TypeOK
  <2>2. CASE Age(p)
    <3>1. db[p] \in Rows
      BY <2>2 DEF Age, ProxyInv, TypeOK
    <3>2. [db[p] EXCEPT !.idle = TRUE] \in Rows
      BY <3>1 DEF Rows
    <3>3. /\ [db[p] EXCEPT !.idle = TRUE].status = db[p].status
          /\ [db[p] EXCEPT !.idle = TRUE].checksum = db[p].checksum
      BY <3>1 DEF Rows
    <3>4. db' = [db EXCEPT ![p] = [db[p] EXCEPT !.idle = TRUE]]
      BY <2>2 DEF Age
    <3>5. QED
      BY <2>2, <3>2, <3>3, <3>4 DEF Age, ProxyInv, TypeOK
  <2>3. QED
    BY <2>1, <2>2
<1>4. QED
  BY <1>1, <1>2, <1>3, EntryLost DEF ProxyInv, TypeOK

(* A client that leaves changes what may fail, and nothing else.           *)
LEMMA ClientLeavesInv ==
    ASSUME ProxyInv, NEW r \in Requests, ClientLeaves(r) PROVE ProxyInv'
<1> USE DEF ClientLeaves, index, audit, request, worker, Pkg
<1>1. SF!CallTable'
  BY FlightUntouched DEF ProxyInv
<1>2. TypeOK'
  BY <1>1 DEF ProxyInv, TypeOK, SF!CallTable
<1>3. RequestPlaces' /\ OwnFetches'
  BY DEF ProxyInv, RequestPlaces, OwnFetches, CallMayFail, MayFail, Served, flight
<1>4. BlockedByVerdict' /\ PolicyGate' /\ OwnArtifacts'
  BY DEF ProxyInv, BlockedByVerdict, PolicyGate, OwnArtifacts, IsBlocked, IsCached, Served
<1>5. QED
  BY <1>1, <1>2, <1>3, <1>4 DEF ProxyInv

(* A restart keeps the invariant: what is durable was cleared by a check.  *)
LEMMA RestartInv == ASSUME ProxyInv, Restart PROVE ProxyInv'
<1> USE NilIsNoValue DEF ProxyInv, Restart, InFlight, index, Pkg
<1>1. SF!CallTable'
  <2>1. want' \in [Requests -> Files]
    BY DEF TypeOK
  <2>2. SF!TypeOK'
    BY <2>1, PackageOfFile DEF SF!TypeOK, SF!CallerStates
  <2>3. SF!RegisteredCalls' /\ SF!JoinedCalls' /\ SF!CallObjects' /\ SF!Outcomes'
    BY DEF SF!RegisteredCalls, SF!InDo, SF!JoinedCalls, SF!CallObjects, SF!Outcomes
  <2>4. QED
    BY <2>2, <2>3 DEF SF!CallTable
<1>2. [kind |-> "aborted", file |-> None, whole |-> TRUE] \in Replies
  BY DEF Replies
<1>3. TypeOK'
  BY <1>1, <1>2, BoundsAndFlags
     DEF TypeOK, SF!CallTable, RequestStates, JobStates, WorkerStates
<1>4. RequestPlaces'
  BY <1>2, NilIsNoRecord DEF RequestPlaces, TypeOK, Served
<1>5. OwnFetches' /\ BlockedByVerdict'
  BY DEF OwnFetches, CallMayFail, BlockedByVerdict, IsBlocked, Results, FetchErrors
<1>6. \A r \in Requests : Served(r)' => Served(r) /\ reply'[r] = reply[r]
  BY DEF Served
<1>7. PolicyGate'
  BY <1>6 DEF PolicyGate, IsCached
<1>8. OwnArtifacts'
  BY <1>6 DEF OwnArtifacts, IsCached
<1>9. QED
  BY <1>1, <1>3, <1>4, <1>5, <1>7, <1>8

-----------------------------------------------------------------------------
(* Every step keeps the invariant.                                         *)
LEMMA NextProxyInv == ASSUME ProxyInv, [Next]_vars PROVE ProxyInv'
<1>1. CASE UNCHANGED vars
  <2>1. UNCHANGED <<redis, db, store, events, alerts, want, pc, found, reply, job,
                    wpc, todo, victim, passed, condemned, evicted, gone, crashes,
                    flight>>
    BY <1>1 DEF vars, index, audit, request, worker, history
  <2>2. SF!CallTable' /\ UNCHANGED <<sfpc, val, sfret>>
    BY <2>1, FlightUntouched DEF ProxyInv, flight
  <2>3. TypeOK'
    BY <2>1, <2>2 DEF ProxyInv, TypeOK, SF!CallTable
  <2>4. RequestPlaces' /\ OwnFetches' /\ BlockedByVerdict'
    BY <2>1, <2>2 DEF ProxyInv, RequestPlaces, OwnFetches, CallMayFail,
                      BlockedByVerdict, IsBlocked, Served, Pkg
  <2>5. PolicyGate' /\ OwnArtifacts'
    BY <2>1 DEF ProxyInv, PolicyGate, OwnArtifacts, IsCached, Served, Pkg
  <2>6. QED
    BY <2>2, <2>3, <2>4, <2>5 DEF ProxyInv
<1>2. ASSUME NEW r \in Requests, Handler(r) PROVE ProxyInv'
  BY <1>2, LookupRedisInv, OpenL1Inv, LookupRowInv, OpenL2Inv, ScanAllowsInv,
     ScanBlocksInv, EnterFlightInv, UpstreamAnswersInv, LandFlightInv,
     LeaveAsLeaderInv, LeaveAsFollowerInv, PutArtifactInv DEF Handler
<1>3. ASSUME NEW r \in Requests, Background(r) \/ RecordCVEAlerts(r) PROVE ProxyInv'
  BY <1>3, TouchPackageInv, BackfillInv, IndexArtifactInv, UpsertPackageInv,
     UpsertBlockedInv, AuditInv DEF Background
<1>4. CASE Worker
  BY <1>4, ListExpiredInv, EvictArtifactInv, EvictEntryInv DEF Worker
<1>5. CASE Environment
  BY <1>5, AgingInv, ClientLeavesInv, RestartInv DEF Environment
<1>6. QED
  BY <1>1, <1>2, <1>3, <1>4, <1>5 DEF Next

(* The inductive invariant of the request path, its background goroutines, *)
(* the eviction worker and restarts.                                       *)
THEOREM ProxyInvariant == Spec => []ProxyInv
BY InitProxyInv, NextProxyInv, PTL DEF Spec

(* Every variable keeps its type.                                          *)
THEOREM TypeCorrect == Spec => []TypeOK
<1>1. ProxyInv => TypeOK
  BY DEF ProxyInv
<1>2. QED
  BY <1>1, ProxyInvariant, PTL

(* Nothing of a package is indexed, stored, fetched or served before some  *)
(* security check let the package through.                                 *)
THEOREM GateHolds == Spec => []PolicyGate
<1>1. ProxyInv => PolicyGate
  BY DEF ProxyInv
<1>2. QED
  BY <1>1, ProxyInvariant, PTL

(* Redis, the packages table, storage, the worker's list and the replies   *)
(* never mix up the artifacts of two packages, and an object holds its own *)
(* bytes.                                                                  *)
THEOREM ArtifactsStayApart == Spec => []OwnArtifacts
<1>1. ProxyInv => OwnArtifacts
  BY DEF ProxyInv
<1>2. QED
  BY <1>1, ProxyInvariant, PTL

-----------------------------------------------------------------------------
(* The events of served requests.  TrailInv, request by request.           *)
TrailOf(r) ==
    /\ events[r] # None => Served(r) /\ events[r] = reply[r].kind
    /\ job[r] = "block" => ~Served(r)
    /\ crashes = 0 =>
          /\ events[r] # None => Counted(r)
          /\ Counted(r) /\ job[r] = "none" /\ ~MayFail("db") => events[r] # None
          /\ pc[r] = "put" => joined[r] = r
          /\ job[r] \notin {"none", "block"} => Counted(r)

LEMMA TrailByRequest == TrailInv <=> \A r \in Requests : TrailOf(r)
BY DEF TrailInv, AuditTrail, CountedJobs, TrailOf

(* A step of one request leaves the trail of the others alone.             *)
LEMMA OthersKeepTrail ==
    ASSUME TrailInv, NEW r \in Requests, UNCHANGED crashes,
           \A q \in Requests \ {r} :
              /\ events'[q] = events[q] /\ reply'[q] = reply[q] /\ job'[q] = job[q]
              /\ pc'[q] = pc[q] /\ joined'[q] = joined[q],
           TrailOf(r)'
    PROVE  TrailInv'
<1>1. ASSUME NEW q \in Requests \ {r} PROVE TrailOf(q)'
  BY <1>1, TrailByRequest DEF TrailOf, Served, Counted
<1>2. \A q \in Requests : TrailOf(q)'
  BY <1>1
<1>3. QED
  BY <1>2 DEF TrailInv, AuditTrail, CountedJobs, TrailOf

(* A request that is not done has no event, no goroutine and no reply.     *)
LEMMA UnansweredHasNoTrail ==
    ASSUME ProxyInv, TrailInv, NEW r \in Requests, pc[r] # "done"
    PROVE  events[r] = None /\ job[r] = "none" /\ reply[r] = None
BY DEF ProxyInv, RequestPlaces, TrailInv, AuditTrail, Served

(* A step that moves a request on, sends no reply and keeps what it joined *)
(* has nothing to record.                                                  *)
LEMMA MovesKeepTrail ==
    ASSUME ProxyInv, TrailInv, NEW r \in Requests, pc[r] # "done",
           NEW label \in RequestStates \ {"done", "put"}, Goes(r, label),
           UNCHANGED <<events, job, joined, crashes>>
    PROVE  TrailInv'
<1>1. TrailOf(r)'
  BY UnansweredHasNoTrail DEF Goes, TrailOf, Served, Counted, ProxyInv, TypeOK
<1>2. QED
  BY <1>1, OthersKeepTrail DEF Goes, ProxyInv, TypeOK

(* A hit leaves a goroutine behind that counts it.                         *)
LEMMA HitsKeepTrail ==
    ASSUME ProxyInv, TrailInv, NEW r \in Requests, pc[r] # "done",
           NEW f \in Files, Streams(r, f),
           NEW first \in {"touch", "backfill"}, Spawns(r, first),
           UNCHANGED <<events, joined, crashes>>
    PROVE  TrailInv'
<1> USE DEF Spawns, ProxyInv, TypeOK
<1>1. /\ reply'[r].kind = "hit" /\ reply'[r] # None /\ pc'[r] = "done"
      /\ \A q \in Requests \ {r} : reply'[q] = reply[q] /\ pc'[q] = pc[q]
  BY StreamsReply
<1>2. job'[r] = first /\ \A q \in Requests \ {r} : job'[q] = job[q]
  OBVIOUS
<1>3. TrailOf(r)'
  BY <1>1, <1>2, UnansweredHasNoTrail DEF TrailOf, Served, Counted
<1>4. QED
  BY <1>1, <1>2, <1>3, OthersKeepTrail

(* A refusal or an error is not counted.                                   *)
LEMMA RefusalsKeepTrail ==
    ASSUME ProxyInv, TrailInv, NEW r \in Requests, pc[r] # "done",
           NEW k \in {"blocked", "limited", "failed"}, Sends(r, k, None),
           Spawns(r, "block") \/ UNCHANGED job,
           UNCHANGED <<events, crashes>>,
           \A q \in Requests \ {r} : joined'[q] = joined[q]
    PROVE  TrailInv'
<1> USE DEF Spawns, ProxyInv, TypeOK
<1>1. /\ reply'[r].kind = k /\ reply'[r] # None /\ pc'[r] = "done"
      /\ \A q \in Requests \ {r} : reply'[q] = reply[q] /\ pc'[q] = pc[q]
  BY SendsReply
<1>2. job'[r] \in {"none", "block"} /\ \A q \in Requests \ {r} : job'[q] = job[q]
  BY UnansweredHasNoTrail
<1>3. TrailOf(r)'
  BY <1>1, <1>2, UnansweredHasNoTrail DEF TrailOf, Served, Counted
<1>4. QED
  BY <1>1, <1>2, <1>3, OthersKeepTrail

(* The way to the shared fetch keeps the trail.                            *)
LEMMA LookupTrail ==
    ASSUME ProxyInv, TrailInv, NEW r \in Requests,
           \/ LookupRedis(r) \/ OpenL1(r) \/ LookupRow(r) \/ OpenL2(r)
           \/ ScanAllows(r) \/ ScanBlocks(r)
    PROVE  TrailInv'
<1> USE DEF audit, flight, history, RequestStates
<1>1. pc[r] # "done" /\ UNCHANGED <<events, joined, crashes>>
  BY DEF LookupRedis, OpenL1, LookupRow, OpenL2, ScanAllows, ScanBlocks
<1>2. CASE LookupRedis(r)
  BY <1>1, <1>2, MovesKeepTrail DEF LookupRedis
<1>3. CASE OpenL1(r)
  <2>1. found[r] \in Files /\ store[found[r]] \in Files \cup {None}
    BY <1>3 DEF OpenL1, ProxyInv, RequestPlaces, TypeOK
  <2>2. QED
    BY <1>1, <1>3, <2>1, MovesKeepTrail, HitsKeepTrail DEF OpenL1
<1>4. CASE LookupRow(r)
  BY <1>1, <1>4, MovesKeepTrail, RefusalsKeepTrail DEF LookupRow
<1>5. CASE OpenL2(r)
  <2>1. found[r] \in Files /\ store[found[r]] \in Files \cup {None}
    BY <1>5 DEF OpenL2, ProxyInv, RequestPlaces, TypeOK
  <2>2. QED
    BY <1>1, <1>5, <2>1, MovesKeepTrail, HitsKeepTrail DEF OpenL2
<1>6. CASE ScanAllows(r)
  BY <1>1, <1>6, MovesKeepTrail DEF ScanAllows
<1>7. CASE ScanBlocks(r)
  BY <1>1, <1>7, RefusalsKeepTrail DEF ScanBlocks
<1>8. QED
  BY <1>2, <1>3, <1>4, <1>5, <1>6, <1>7

(* Joining, leading and the leader's work leave no trail.                  *)
LEMMA FlightTrail ==
    ASSUME ProxyInv, TrailInv, NEW r \in Requests,
           EnterFlight(r) \/ UpstreamAnswers(r) \/ LandFlight(r)
    PROVE  TrailInv'
<1>1. pc[r] = "fetch"
  BY DEF EnterFlight, UpstreamAnswers, LandFlight, SF!FnReturns, SF!Land, ProxyInv, RequestPlaces
<1>2. UNCHANGED <<events, reply, job, pc, crashes>>
  BY DEF EnterFlight, UpstreamAnswers, LandFlight, audit, request, history
<1>3. \A q \in Requests \ {r} : joined'[q] = joined[q]
  BY DEF EnterFlight, UpstreamAnswers, LandFlight, SF!Join, SF!Lead, SF!FnReturns, SF!Land,
         ProxyInv, TypeOK, SF!TypeOK
<1>4. TrailOf(r)'
  BY <1>1, <1>2, UnansweredHasNoTrail DEF TrailOf, Served, Counted
<1>5. QED
  BY <1>2, <1>3, <1>4, OthersKeepTrail

(* The leader goes on to storage as the one that led; its error is not     *)
(* counted.                                                                *)
LEMMA LeaveAsLeaderTrail ==
    ASSUME ProxyInv, TrailInv, NEW r \in Requests, LeaveAsLeader(r) PROVE TrailInv'
<1> USE DEF LeaveAsLeader, audit, history
<1>1. pc[r] = "fetch" /\ UNCHANGED <<events, job, joined, crashes>>
  BY LeaderResult DEF SF!Forget
<1>2. joined[r] = r
  BY DEF SF!Forget, ProxyInv, SF!CallTable, SF!RegisteredCalls, SF!InDo
<1>3. CASE sfret'[r] \in FetchErrors /\ Sends(r, sfret'[r], None)
  BY <1>1, <1>3, RefusalsKeepTrail DEF FetchErrors
<1>4. CASE Goes(r, "put")
  <2>1. TrailOf(r)'
    BY <1>1, <1>2, <1>4, UnansweredHasNoTrail DEF Goes, TrailOf, Served, Counted
  <2>2. QED
    BY <1>1, <1>4, <2>1, OthersKeepTrail DEF Goes, ProxyInv, TypeOK
<1>5. QED
  BY <1>3, <1>4

(* A caller that joined replies with a miss that its leader counts.        *)
LEMMA LeaveAsFollowerTrail ==
    ASSUME ProxyInv, TrailInv, NEW r \in Requests, LeaveAsFollower(r) PROVE TrailInv'
<1> USE DEF LeaveAsFollower, audit, history
<1>1. pc[r] = "fetch" /\ UNCHANGED <<events, job, joined, crashes>>
  BY FollowerResult DEF SF!Wake
<1>2. joined[r] # r
  BY DEF SF!Wake, ProxyInv, SF!CallTable, SF!JoinedCalls
<1>3. CASE sfret'[r] \in FetchErrors /\ Sends(r, sfret'[r], None)
  BY <1>1, <1>3, RefusalsKeepTrail DEF FetchErrors
<1>4. CASE sfret'[r] \in Files /\ Sends(r, "miss", sfret'[r])
  <2>1. /\ reply'[r].kind = "miss" /\ reply'[r] # None /\ pc'[r] = "done"
        /\ \A q \in Requests \ {r} : reply'[q] = reply[q] /\ pc'[q] = pc[q]
    BY <1>4, SendsReply
  <2>2. TrailOf(r)'
    BY <1>1, <1>2, <2>1, UnansweredHasNoTrail DEF TrailOf, Served, Counted
  <2>3. QED
    BY <1>1, <2>1, <2>2, OthersKeepTrail
<1>5. QED
  BY <1>3, <1>4

(* The leader's reply is the one that counts.                              *)
LEMMA PutArtifactTrail ==
    ASSUME ProxyInv, TrailInv, NEW r \in Requests, PutArtifact(r) PROVE TrailInv'
<1> USE DEF PutArtifact, audit, flight, history
<1>1. pc[r] = "put" /\ UNCHANGED <<events, joined, crashes>>
  OBVIOUS
<1>2. sfret[r] \in Files
  BY DEF ProxyInv, RequestPlaces, TypeOK
<1>3. /\ reply'[r].kind = "miss" /\ reply'[r] # None /\ pc'[r] = "done"
      /\ \A q \in Requests \ {r} : reply'[q] = reply[q] /\ pc'[q] = pc[q]
  BY <1>2, SendsReply
<1>4. job'[r] = "index" /\ \A q \in Requests \ {r} : job'[q] = job[q]
  BY DEF Spawns, ProxyInv, TypeOK
<1>5. TrailOf(r)'
  BY <1>1, <1>3, <1>4, UnansweredHasNoTrail
     DEF TrailOf, Served, Counted, TrailInv, CountedJobs
<1>6. QED
  BY <1>1, <1>3, <1>4, <1>5, OthersKeepTrail

(* A goroutine goes on to its event, and writes that of its reply.         *)
LEMMA BackgroundTrail ==
    ASSUME ProxyInv, TrailInv, NEW r \in Requests, Background(r) PROVE TrailInv'
<1>1. UNCHANGED <<pc, reply, joined, crashes>>
  BY DEF Background, TouchPackage, Backfill, IndexArtifact, UpsertPackage, UpsertBlocked,
         RecordEvent, request, flight, history
<1>2. \A q \in Requests \ {r} : job'[q] = job[q] /\ events'[q] = events[q]
  BY DEF Background, TouchPackage, Backfill, IndexArtifact, UpsertPackage, UpsertBlocked,
         RecordEvent, Proceeds, audit, ProxyInv, TypeOK
<1>3. CASE job'[r] # "none"
  <2>1. UNCHANGED events /\ job[r] \notin {"none", "block"} /\ job'[r] # "block"
    BY <1>3 DEF Background, TouchPackage, Backfill, IndexArtifact, UpsertPackage,
                UpsertBlocked, RecordEvent, Proceeds, audit, ProxyInv, TypeOK
  <2>2. TrailOf(r)'
    BY <1>1, <1>3, <2>1 DEF TrailOf, Served, Counted, TrailInv, AuditTrail, CountedJobs
  <2>3. QED
    BY <1>1, <1>2, <2>2, OthersKeepTrail
<1>4. CASE job'[r] = "none"
  <2>1. UpsertBlocked(r) \/ RecordEvent(r)
    BY <1>4 DEF Background, TouchPackage, Backfill, IndexArtifact, UpsertPackage, Proceeds,
                ProxyInv, TypeOK
  <2>2. CASE UpsertBlocked(r)
    <3>1. job[r] = "block" /\ UNCHANGED events
      BY <2>2 DEF UpsertBlocked, Proceeds, audit
    <3>2. TrailOf(r)'
      BY <1>1, <1>4, <3>1 DEF TrailOf, Served, Counted, TrailInv, AuditTrail, CountedJobs
    <3>3. QED
      BY <1>1, <1>2, <3>2, OthersKeepTrail
  <2>3. CASE RecordEvent(r)
    <3>1. /\ job[r] = "event"
          /\ \/ events'[r] = reply[r].kind
             \/ MayFail("db") /\ UNCHANGED events
      BY <2>3 DEF RecordEvent, Proceeds, ProxyInv, TypeOK
    <3>2. Served(r) /\ (crashes = 0 => Counted(r))
      BY <3>1, WriterWasCleared DEF TrailInv, CountedJobs
    <3>3. reply[r].kind # None
      BY <3>2, NilIsNoEvent DEF Served
    <3>4. /\ events'[r] # None => Served(r) /\ events'[r] = reply[r].kind
          /\ events'[r] = None => MayFail("db")
      BY <3>1, <3>2, <3>3 DEF TrailInv, AuditTrail
    <3>5. UNCHANGED <<reply[r], pc[r], joined[r]>> /\ job'[r] = "none"
      BY <1>1, <1>4
    <3>6. TrailOf(r)'
      BY <1>1, <3>2, <3>4, <3>5 DEF TrailOf, Served, Counted, TrailInv, CountedJobs, MayFail
    <3>7. QED
      BY <1>1, <1>2, <3>6, OthersKeepTrail
  <2>4. QED
    BY <2>1, <2>2, <2>3
<1>5. QED
  BY <1>3, <1>4

(* A restart loses goroutines, but an event that is written stays true.    *)
LEMMA RestartTrail == ASSUME ProxyInv, TrailInv, Restart PROVE TrailInv'
<1>1. crashes' # 0
  BY BoundsAndFlags DEF Restart, ProxyInv, TypeOK
<1>2. ASSUME NEW r \in Requests PROVE TrailOf(r)'
  <2>1. job'[r] = "none" /\ events'[r] = events[r]
    BY DEF Restart
  <2>2. Served(r) => reply'[r] = reply[r]
    BY DEF Restart, ProxyInv, RequestPlaces, Served, InFlight
  <2>3. QED
    BY <1>1, <2>1, <2>2 DEF TrailOf, Served, TrailInv, AuditTrail
<1>3. QED
  BY <1>2 DEF TrailInv, AuditTrail, CountedJobs, TrailOf

LEMMA NextTrail == ASSUME ProxyInv, TrailInv, [Next]_vars PROVE TrailInv'
<1>1. CASE UNCHANGED <<events, pc, reply, job, joined, crashes>>
  BY <1>1 DEF TrailInv, AuditTrail, CountedJobs, Served, Counted
<1>2. CASE UNCHANGED vars
  BY <1>1, <1>2 DEF vars, audit, request, flight, history
<1>3. ASSUME NEW r \in Requests, Handler(r) PROVE TrailInv'
  BY <1>3, LookupTrail, FlightTrail, LeaveAsLeaderTrail, LeaveAsFollowerTrail,
     PutArtifactTrail DEF Handler
<1>4. ASSUME NEW r \in Requests, Background(r) \/ RecordCVEAlerts(r) PROVE TrailInv'
  BY <1>1, <1>4, BackgroundTrail DEF RecordCVEAlerts, request, flight, history
<1>5. CASE Worker
  BY <1>1, <1>5 DEF Worker, ListExpired, EvictArtifact, EvictKey, EvictRow,
                    audit, request, flight, history
<1>6. CASE Environment
  BY <1>1, <1>6, RestartTrail DEF Environment, Age, RedisExpires, ClientLeaves,
                                  audit, request, flight, history
<1>7. QED
  BY <1>2, <1>3, <1>4, <1>5, <1>6 DEF Next

(* The events table tells the truth: an event is the kind of a reply that  *)
(* was sent, an upstream fetch is counted once, and without restarts and   *)
(* with a working database no served request goes uncounted.               *)
THEOREM TrailKept == Spec => []AuditTrail
<1>1. Init => TrailInv
  BY DEF Init, TrailInv, AuditTrail, CountedJobs, Served, Counted
<1>2. TrailInv => AuditTrail
  BY DEF TrailInv
<1>3. QED
  BY <1>1, <1>2, ProxyInvariant, NextTrail, PTL DEF Spec

-----------------------------------------------------------------------------
(* Stored artifacts and their rows.  A goroutine that will record an       *)
(* artifact is only replaced by the row it writes.                         *)
LEMMA NextHasRow ==
    ASSUME ProxyInv, ArtifactHasRow, [Next]_vars PROVE ArtifactHasRow'
<1> SUFFICES ASSUME ~MayFail("db"), crashes' = 0,
                    NEW f \in Files, store'[f] # None
             PROVE  \/ db'[PkgOf[f]] # None
                    \/ \E r \in Requests : want'[r] = f /\ job'[r] \in {"index", "upsert"}
                    \/ PkgOf[f] \in evicted'
  BY DEF ArtifactHasRow, MayFail
<1> USE DEF index, audit, request, worker, history
<1> DEFINE p == PkgOf[f]
<1>1. p \in Packages /\ want \in [Requests -> Files] /\ UNCHANGED want
  BY PackageOfFile
     DEF ProxyInv, TypeOK, Next, vars, Handler, Background, Worker, Environment,
         LookupRedis, OpenL1, LookupRow, OpenL2, ScanAllows, ScanBlocks, EnterFlight,
         UpstreamAnswers, LandFlight, LeaveAsLeader, LeaveAsFollower, PutArtifact,
         TouchPackage, Backfill, IndexArtifact, UpsertPackage, UpsertBlocked, RecordEvent,
         RecordCVEAlerts, ListExpired, EvictArtifact, EvictKey, EvictRow, Age,
         RedisExpires, ClientLeaves, Restart
<1>2. ASSUME store[f] # None, crashes = 0, evicted \subseteq evicted',
             db[p] # None => db'[p] # None,
             \A r \in Requests : job[r] \in {"index", "upsert"} =>
                \/ job'[r] \in {"index", "upsert"}
                \/ db'[Pkg(r)] # None
      PROVE  \/ db'[PkgOf[f]] # None
             \/ \E r \in Requests : want'[r] = f /\ job'[r] \in {"index", "upsert"}
             \/ PkgOf[f] \in evicted'
  BY <1>1, <1>2 DEF ArtifactHasRow, Pkg
<1>3. CASE UNCHANGED vars
  BY <1>2, <1>3 DEF vars
<1>4. ASSUME NEW r \in Requests, Handler(r)
      PROVE  \/ db'[PkgOf[f]] # None
             \/ \E q \in Requests : want'[q] = f /\ job'[q] \in {"index", "upsert"}
             \/ PkgOf[f] \in evicted'
  <2>1. UNCHANGED <<db, evicted, crashes>>
    BY <1>4 DEF Handler, LookupRedis, OpenL1, LookupRow, OpenL2, ScanAllows, ScanBlocks,
                EnterFlight, UpstreamAnswers, LandFlight, LeaveAsLeader, LeaveAsFollower,
                PutArtifact
  <2>2. ASSUME NEW q \in Requests, job[q] # "none" PROVE job'[q] = job[q]
    <3>1. q = r => pc[r] = "done"
      BY <2>2 DEF ProxyInv, RequestPlaces
    <3>2. UNCHANGED job \/ \E first : pc[r] # "done" /\ Spawns(r, first)
      BY <1>4 DEF Handler, LookupRedis, OpenL1, LookupRow, OpenL2, ScanAllows, ScanBlocks,
                  EnterFlight, UpstreamAnswers, LandFlight, LeaveAsLeader,
                  LeaveAsFollower, PutArtifact
    <3>3. QED
      BY <3>1, <3>2 DEF Spawns, ProxyInv, TypeOK
  <2>3. CASE store[f] # None
    BY <1>2, <2>1, <2>2, <2>3
  <2>4. CASE store[f] = None
    <3>1. PutArtifact(r)
      BY <1>4, <2>4 DEF Handler, LookupRedis, OpenL1, LookupRow, OpenL2, ScanAllows,
                        ScanBlocks, EnterFlight, UpstreamAnswers, LandFlight,
                        LeaveAsLeader, LeaveAsFollower
    <3>2. want[r] = f /\ job'[r] = "index"
      BY <2>4, <3>1 DEF PutArtifact, Spawns, ProxyInv, TypeOK
    <3>3. QED
      BY <1>1, <3>2
  <2>5. QED
    BY <2>3, <2>4
<1>5. ASSUME NEW r \in Requests, Background(r) \/ RecordCVEAlerts(r)
      PROVE  \/ db'[PkgOf[f]] # None
             \/ \E q \in Requests : want'[q] = f /\ job'[q] \in {"index", "upsert"}
             \/ PkgOf[f] \in evicted'
  <2>1. UNCHANGED <<store, evicted, crashes>>
    BY <1>5 DEF Background, TouchPackage, Backfill, IndexArtifact, UpsertPackage,
                UpsertBlocked, RecordEvent, RecordCVEAlerts
  <2>2. db[p] # None => db'[p] # None
    <3>1. Pkg(r) \in Packages /\ db[Pkg(r)] \in Rows \cup {None} /\ want[r] \in Files
      BY <1>1, PackageOfFile DEF ProxyInv, TypeOK, Pkg
    <3>2. \/ UNCHANGED db
          \/ WriteRow(Pkg(r), Touched(db[Pkg(r)]))
          \/ WriteRow(Pkg(r), Upserted(db[Pkg(r)], "cached", want[r]))
          \/ WriteRow(Pkg(r), Upserted(db[Pkg(r)], "blocked", None))
      BY <1>5 DEF Background, TouchPackage, Backfill, IndexArtifact, UpsertPackage,
                  UpsertBlocked, RecordEvent, RecordCVEAlerts
    <3>3. /\ db[Pkg(r)] # None => Touched(db[Pkg(r)]) # None
          /\ Upserted(db[Pkg(r)], "cached", want[r]) # None
          /\ Upserted(db[Pkg(r)], "blocked", None) # None
      <4> DEFINE row == db[Pkg(r)]
      <4>1. row \in Rows \cup {None} /\ want[r] \in Files \cup {None} /\ None \in Files \cup {None}
        BY <3>1
      <4> HIDE DEF row
      <4>2. row # None => Touched(row) # None
        BY <4>1, TouchedRow
      <4>3. Upserted(row, "cached", want[r]) # None
        BY <4>1, UpsertedRow
      <4>4. Upserted(row, "blocked", None) # None
        BY <4>1, UpsertedRow
      <4> QED BY <4>2, <4>3, <4>4 DEF row
    <3>4. \A row : row # None /\ WriteRow(Pkg(r), row) => (db[p] # None => db'[p] # None)
      BY <1>1, <3>1 DEF WriteRow, ProxyInv, TypeOK
    <3>5. WriteRow(Pkg(r), Touched(db[Pkg(r)])) => (db[p] # None => db'[p] # None)
      BY <1>1, <3>1, <3>3, <3>4 DEF WriteRow, ProxyInv, TypeOK
    <3>6. QED
      BY <3>2, <3>3, <3>4, <3>5
  <2>3. ASSUME NEW q \in Requests, job[q] \in {"index", "upsert"}
        PROVE  job'[q] \in {"index", "upsert"} \/ db'[Pkg(q)] # None
    <3>1. CASE UpsertPackage(r) /\ q = r
      <4>1. Pkg(r) \in Packages /\ db[Pkg(r)] \in Rows \cup {None} /\ want[r] \in Files \cup {None}
        BY <1>1, PackageOfFile DEF ProxyInv, TypeOK, Pkg
      <4>2. db' = [db EXCEPT ![Pkg(r)] = Upserted(db[Pkg(r)], "cached", want[r])]
        BY <3>1 DEF UpsertPackage, WriteRow
      <4>3. Upserted(db[Pkg(r)], "cached", want[r]) # None
        BY <4>1, UpsertedRow
      <4>4. QED
        BY <3>1, <4>1, <4>2, <4>3 DEF ProxyInv, TypeOK
    <3>2. CASE ~(UpsertPackage(r) /\ q = r)
      BY <1>5, <2>3, <3>2
         DEF Background, TouchPackage, Backfill, IndexArtifact, UpsertPackage,
             UpsertBlocked, RecordEvent, RecordCVEAlerts, Proceeds, ProxyInv, TypeOK
    <3>3. QED
      BY <3>1, <3>2
  <2>4. QED
    BY <1>2, <2>1, <2>2, <2>3
<1>6. CASE Worker
  <2>1. UNCHANGED <<job, crashes>> /\ evicted \subseteq evicted' /\ store[f] # None
    BY <1>6 DEF Worker, ListExpired, EvictArtifact, EvictKey, EvictRow, ProxyInv, TypeOK
  <2>2. db'[p] # None \/ db[p] = None \/ p \in evicted'
    BY <1>1, <1>6 DEF Worker, ListExpired, EvictArtifact, EvictKey, EvictRow, DeletePackage,
                      ProxyInv, TypeOK
  <2>3. QED
    BY <1>2, <2>1, <2>2
<1>7. CASE Environment
  <2>1. ~Restart
    BY BoundsAndFlags DEF Restart, ProxyInv, TypeOK
  <2>2. CASE \E r \in Requests : ClientLeaves(r)
    BY <1>2, <2>2 DEF ClientLeaves
  <2>3. ASSUME NEW o \in Packages, Age(o) \/ RedisExpires(o)
        PROVE  \/ db'[PkgOf[f]] # None
               \/ \E r \in Requests : want'[r] = f /\ job'[r] \in {"index", "upsert"}
               \/ PkgOf[f] \in evicted'
    <3>1. UNCHANGED <<store, job, evicted, crashes>>
      BY <2>3 DEF Age, RedisExpires
    <3>2. db[p] # None => db'[p] # None
      <4>1. CASE RedisExpires(o)
        BY <4>1 DEF RedisExpires
      <4>2. CASE Age(o)
        <5>1. db[o] \in Rows /\ [db[o] EXCEPT !.idle = TRUE] \in Rows
          BY <4>2 DEF Age, ProxyInv, TypeOK, Rows
        <5>2. db' = [db EXCEPT ![o] = [db[o] EXCEPT !.idle = TRUE]]
          BY <4>2 DEF Age
        <5>3. db'[o] # None
          BY <5>1, <5>2, NilIsNoRecord DEF ProxyInv, TypeOK
        <5>4. QED
          BY <5>2, <5>3 DEF ProxyInv, TypeOK
      <4>3. QED
        BY <2>3, <4>1, <4>2
    <3>3. QED
      BY <1>2, <3>1, <3>2
  <2>4. QED
    BY <1>7, <2>1, <2>2, <2>3 DEF Environment
<1>8. QED
  BY <1>3, <1>4, <1>5, <1>6, <1>7 DEF Next

(* With a working database and no restart, an artifact in storage is one   *)
(* that the packages table knows of or is about to know of, until the      *)
(* eviction worker has been at its row.                                    *)
THEOREM StoredIsRecorded == Spec => []ArtifactHasRow
<1>1. Init => ArtifactHasRow
  BY DEF Init, ArtifactHasRow
<1>2. QED
  BY <1>1, ProxyInvariant, NextHasRow, PTL DEF Spec

-----------------------------------------------------------------------------
(* The refinement.  A step that sends no reply and hears no verdict is     *)
(* invisible to the contract.                                              *)
LEMMA Invisible ==
    ASSUME UNCHANGED <<want, reply, passed, condemned, gone>>
    PROVE  [Contract!Next]_(Contract!vars)
BY DEF Contract!vars, Answer

(* A reply of the proxy is an answer of the contract.                      *)
LEMMA RepliesAnswer ==
    ASSUME ProxyInv, NEW r \in Requests, pc[r] # "done",
           NEW k, NEW f, NEW whole, Replied(r, k, f, whole),
           \/ k \in {"hit", "miss"} /\ f \in Files /\ whole \in BOOLEAN
           \/ k \in {"blocked", "limited", "failed"} /\ f = None /\ whole = TRUE
    PROVE  Contract!Answers(r, Status(k), f, whole)
<1>1. reply[r] = None
  BY DEF ProxyInv, RequestPlaces
<1>2. /\ reply' = [reply EXCEPT ![r] = [kind |-> k, file |-> f, whole |-> whole]]
      /\ reply \in [Requests -> Replies \cup {None}]
  BY DEF Replied, ProxyInv, TypeOK
<1>3. reply'[r] = [kind |-> k, file |-> f, whole |-> whole] /\ reply'[r] # None
  BY <1>2, RepliedReply
<1>4. Answer(r) = None /\ Answer(r)' = [status |-> Status(k), file |-> f, whole |-> whole]
  BY <1>1, <1>3 DEF Answer
<1>5. \A q \in Requests \ {r} : Answer(q)' = Answer(q)
  BY <1>2 DEF Answer
<1>6. QED
  BY <1>4, <1>5 DEF Contract!Answers

(* A refusal or an error carries no artifact.                              *)
LEMMA RefusalAnswers ==
    ASSUME ProxyInv, NEW r \in Requests, pc[r] # "done",
           NEW k \in {"blocked", "limited", "failed"}, Sends(r, k, None),
           NEW status, status = Status(k)
    PROVE  Contract!Answers(r, status, None, TRUE)
<1>1. Replied(r, k, None, TRUE)
  BY DEF Sends
<1>2. Contract!Answers(r, Status(k), None, TRUE)
  BY <1>1, RepliesAnswer
<1>3. QED
  BY <1>2 DEF Contract!Answers

(* An artifact that a handler delivers, whole or cut short by a read that  *)
(* failed, is one the contract allows.                                     *)
LEMMA DeliverRefines ==
    ASSUME ProxyInv, NEW r \in Requests, pc[r] # "done",
           NEW k \in {"hit", "miss"}, NEW f \in Files, NEW whole \in BOOLEAN,
           Replied(r, k, f, whole), whole \/ CallMayFail("storage", r),
           PkgOf[f] = Pkg(r), Pkg(r) \in passed,
           UNCHANGED <<want, passed, condemned, gone>>
    PROVE  Contract!Next
<1>1. Status(k) = 200
  BY DEF Status
<1>2. Contract!Answers(r, Status(k), f, whole)
  BY RepliesAnswer, Zenon
<1>3. Contract!Answers(r, 200, f, whole)
  BY <1>1, <1>2, Zenon
<1>4. whole \/ "storage" \in Faulty \/ r \in gone
  BY DEF CallMayFail, MayFail
<1>5. Contract!Deliver(r, f, whole)
  BY <1>3, <1>4, Zenon DEF Contract!Deliver, Pkg
<1>6. QED
  BY <1>5, Zenon DEF Contract!Next

(* An error that the shared fetch brings back is one the contract allows.  *)
LEMMA ErrorRefines ==
    ASSUME ProxyInv, NEW r \in Requests, pc[r] # "done",
           NEW k \in FetchErrors, Sends(r, k, None),
           k = "limited" => MayFail("limiter") \/ SomeoneLeft(r),
           k = "failed" => MayFail("upstream") \/ SomeoneLeft(r),
           UNCHANGED <<want, passed, condemned, gone>>
    PROVE  Contract!Next
<1>1. k \in {"blocked", "limited", "failed"}
  BY DEF FetchErrors
<1>2. SomeoneLeft(r) <=> Contract!OneHasLeft(r)
  BY DEF SomeoneLeft, Contract!OneHasLeft, Pkg
<1>3. CASE k = "limited"
  <2>1. Status(k) = 429
    BY <1>3 DEF Status
  <2>2. Contract!Answers(r, 429, None, TRUE)
    BY <1>1, <2>1, RefusalAnswers DEF Contract!Answers
  <2>3. Contract!TooMany(r)
    BY <1>2, <1>3, <2>2, Zenon DEF Contract!TooMany, MayFail
  <2>4. QED
    BY <2>3, Zenon DEF Contract!Next
<1>4. CASE k = "failed"
  <2>1. Status(k) = 502
    BY <1>4 DEF Status
  <2>2. Contract!Answers(r, 502, None, TRUE)
    BY <1>1, <2>1, RefusalAnswers DEF Contract!Answers
  <2>3. Contract!BadGateway(r)
    BY <1>2, <1>4, <2>2, Zenon DEF Contract!BadGateway, MayFail
  <2>4. QED
    BY <2>3, Zenon DEF Contract!Next
<1>5. QED
  BY <1>3, <1>4 DEF FetchErrors

(* Every step of a handler is a step of the contract or invisible.         *)
LEMMA HandlerRefines ==
    ASSUME ProxyInv, NEW r \in Requests, Handler(r)
    PROVE  [Contract!Next]_(Contract!vars)
<1> USE DEF history
<1>1. CASE LookupRedis(r) \/ EnterFlight(r) \/ UpstreamAnswers(r) \/ LandFlight(r)
  BY <1>1, Invisible
     DEF LookupRedis, EnterFlight, UpstreamAnswers, LandFlight, Goes, request
<1>2. pc[r] \in {"l1", "l2store", "put"} => Pkg(r) \in passed
  BY PackageOfFile DEF ProxyInv, PolicyGate, TypeOK, Pkg
<1>3. CASE OpenL1(r) \/ OpenL2(r)
  <2>1. UNCHANGED <<want, passed, condemned, gone>>
    BY <1>3 DEF OpenL1, OpenL2
  <2>2. found[r] \in Files /\ PkgOf[found[r]] = Pkg(r)
    BY <1>3 DEF OpenL1, OpenL2, ProxyInv, RequestPlaces, TypeOK, OwnArtifacts
  <2>3. CASE store[found[r]] # None /\ Streams(r, store[found[r]])
    <3>1. store[found[r]] = found[r]
      BY <2>2, <2>3 DEF ProxyInv, OwnArtifacts
    <3>2. PICK whole \in BOOLEAN :
            /\ whole \/ CallMayFail("storage", r)
            /\ Replied(r, "hit", found[r], whole)
      BY <2>3, <3>1 DEF Streams
    <3>3. pc[r] # "done" /\ Pkg(r) \in passed
      BY <1>2, <1>3 DEF OpenL1, OpenL2
    <3>4. QED
      BY <2>1, <2>2, <3>2, <3>3, DeliverRefines
  <2>4. CASE UNCHANGED reply
    BY <2>1, <2>4, Invisible
  <2>5. QED
    BY <1>3, <2>3, <2>4 DEF OpenL1, OpenL2, Goes
<1>4. CASE LookupRow(r)
  <2>1. CASE IsBlocked(Pkg(r)) /\ Sends(r, "blocked", None)
    <3>1. Status("blocked") = 403
      BY DEF Status
    <3>2. pc[r] # "done"
      BY <1>4 DEF LookupRow
    <3>3. Contract!Answers(r, 403, None, TRUE)
      BY <2>1, <3>1, <3>2, RefusalAnswers DEF Contract!Answers
    <3>4. Pkg(r) \in condemned
      BY <2>1, PackageOfFile DEF ProxyInv, BlockedByVerdict, TypeOK, Pkg
    <3>5. Contract!Refuse(r)
      BY <1>4, <3>3, <3>4, Zenon DEF LookupRow, history, Contract!Refuse, Pkg
    <3>6. QED
      BY <3>5, Zenon DEF Contract!Next
  <2>2. CASE UNCHANGED reply
    BY <1>4, <2>2, Invisible DEF LookupRow
  <2>3. QED
    BY <1>4, <2>1, <2>2 DEF LookupRow, Goes
<1>5. CASE ScanAllows(r)
  <2>1. Answer(r) = None /\ \A q \in Requests : Answer(q)' = Answer(q)
    BY <1>5 DEF ScanAllows, Goes, Answer, ProxyInv, RequestPlaces
  <2>2. Contract!Pass(r)
    BY <1>5, <2>1 DEF ScanAllows, Contract!Pass, Pkg
  <2>3. QED
    BY <2>2 DEF Contract!Next
<1>6. CASE ScanBlocks(r)
  <2>1. Status("blocked") = 403
    BY DEF Status
  <2>2. pc[r] # "done" /\ Sends(r, "blocked", None)
    BY <1>6 DEF ScanBlocks
  <2>3. Contract!Answers(r, 403, None, TRUE)
    BY <2>1, <2>2, RefusalAnswers DEF Contract!Answers
  <2>4. Contract!Condemn(r)
    BY <1>6, <2>3 DEF ScanBlocks, Contract!Condemn, Pkg
  <2>5. QED
    BY <2>4, Zenon DEF Contract!Next
<1>7. CASE LeaveAsLeader(r)
  <2>1. r \in gone => SomeoneLeft(r)
    BY DEF SomeoneLeft
  <2>2. /\ pc[r] = "fetch"
        /\ sfret'[r] = "limited" => MayFail("limiter") \/ SomeoneLeft(r)
        /\ sfret'[r] = "failed" => MayFail("upstream") \/ SomeoneLeft(r)
        /\ UNCHANGED <<want, passed, condemned, gone>>
    BY <1>7, <2>1, LeaderResult DEF LeaveAsLeader, CallMayFail
  <2>3. CASE sfret'[r] \in FetchErrors /\ Sends(r, sfret'[r], None)
    BY <2>2, <2>3, ErrorRefines
  <2>4. CASE UNCHANGED reply
    BY <2>2, <2>4, Invisible
  <2>5. QED
    BY <1>7, <2>3, <2>4 DEF LeaveAsLeader, Goes
<1>8. CASE LeaveAsFollower(r)
  <2>1. /\ pc[r] = "fetch"
        /\ sfret'[r] \in Files => PkgOf[sfret'[r]] = Pkg(r)
        /\ sfret'[r] = "limited" => MayFail("limiter") \/ SomeoneLeft(r)
        /\ sfret'[r] = "failed" => MayFail("upstream") \/ SomeoneLeft(r)
        /\ UNCHANGED <<want, passed, condemned, gone>>
    BY <1>8, FollowerResult DEF LeaveAsFollower
  <2>2. Pkg(r) \in passed
    BY <2>1, PackageOfFile DEF ProxyInv, PolicyGate, TypeOK, Pkg
  <2>3. CASE sfret'[r] \in FetchErrors /\ Sends(r, sfret'[r], None)
    BY <2>1, <2>3, ErrorRefines
  <2>4. CASE sfret'[r] \in Files /\ Sends(r, "miss", sfret'[r])
    BY <2>1, <2>2, <2>4, DeliverRefines DEF Sends
  <2>5. QED
    BY <1>8, <2>3, <2>4 DEF LeaveAsFollower
<1>9. CASE PutArtifact(r)
  <2>1. sfret[r] = want[r] /\ want[r] \in Files
    BY <1>9 DEF PutArtifact, ProxyInv, RequestPlaces, TypeOK
  <2>2. QED
    BY <1>2, <1>9, <2>1, DeliverRefines DEF PutArtifact, Sends, Pkg
<1>10. QED
  BY <1>1, <1>3, <1>4, <1>5, <1>6, <1>7, <1>8, <1>9 DEF Handler

(* Everything else is invisible, but a client that leaves and a restart,   *)
(* which drops requests.                                                   *)
LEMMA NextRefines ==
    ASSUME ProxyInv, [Next]_vars PROVE [Contract!Next]_(Contract!vars)
<1>1. CASE UNCHANGED vars
  BY <1>1, Invisible DEF vars, request, history
<1>2. CASE \E r \in Requests : Handler(r)
  BY <1>2, HandlerRefines
<1>3. CASE \E r \in Requests : Background(r) \/ RecordCVEAlerts(r)
  BY <1>3, Invisible
     DEF Background, TouchPackage, Backfill, IndexArtifact, UpsertPackage, UpsertBlocked,
         RecordEvent, RecordCVEAlerts, request, history
<1>4. CASE Worker
  BY <1>4, Invisible
     DEF Worker, ListExpired, EvictArtifact, EvictKey, EvictRow, request, history
<1>5. CASE \E p \in Packages : Age(p) \/ RedisExpires(p)
  BY <1>5, Invisible DEF Age, RedisExpires, request, history
<1>6. CASE Restart
  <2> DEFINE lost == {r \in Requests : InFlight(r)}
  <2>1. Status("aborted") = 0
    BY DEF Status
  <2>2. \A r \in lost : Answer(r) = None
    BY DEF Answer, InFlight, ProxyInv, RequestPlaces
  <2>3. [kind |-> "aborted", file |-> None, whole |-> TRUE] # None
    <3>1. [kind |-> "aborted", file |-> None, whole |-> TRUE] \in Replies
      BY DEF Replies
    <3>2. QED
      BY <3>1, NilIsNoRecord
  <2>4. \A r \in Requests :
          Answer(r)' = IF r \in lost THEN [status |-> 0, file |-> None, whole |-> TRUE]
                       ELSE Answer(r)
    BY <1>6, <2>1, <2>3 DEF Restart, Answer
  <2>5. Contract!Drop(lost)
    BY <1>6, <2>2, <2>4 DEF Restart, Contract!Drop
  <2>6. lost \in SUBSET Requests
    OBVIOUS
  <2>7. QED
    BY <2>5, <2>6 DEF Contract!Next
<1>7. ASSUME NEW r \in Requests, ClientLeaves(r) PROVE Contract!Next
  <2>1. Answer(r) = None
    BY <1>7 DEF ClientLeaves, InFlight, Answer, ProxyInv, RequestPlaces
  <2>2. \A q \in Requests : Answer(q)' = Answer(q)
    BY <1>7 DEF ClientLeaves, Answer, request
  <2>3. Contract!Leave(r)
    BY <1>7, <2>1, <2>2 DEF ClientLeaves, Contract!Leave
  <2>4. QED
    BY <2>3 DEF Contract!Next
<1>8. QED
  BY <1>1, <1>2, <1>3, <1>4, <1>5, <1>6, <1>7 DEF Next, Environment

(* The proxy keeps its contract: caches, shared fetches, background work   *)
(* and eviction are invisible, a fault of Redis or the database is, one of *)
(* storage shows only as an artifact cut short, and an error comes from    *)
(* upstream, from the limiter, or from a client of the package that left.  *)
THEOREM ContractKept == Spec => ImplementsContract
<1>1. Init => Contract!Init
  BY DEF Init, Contract!Init, Answer
<1>2. QED
  BY <1>1, ProxyInvariant, NextRefines, PTL
     DEF Spec, ImplementsContract, Contract!Spec

-----------------------------------------------------------------------------
(* The eviction worker's list, and the refinement of RowLife.              *)
LEMMA WorkTypes ==
    ASSUME ProxyInv
    PROVE  /\ db \in [Packages -> Rows \cup {None}]
           /\ todo \subseteq Entries /\ Listed \subseteq Packages
           /\ wpc \in WorkerStates /\ (wpc \in {"redis", "row"} => victim \in Packages)
<1>1. /\ db \in [Packages -> Rows \cup {None}] /\ todo \subseteq Entries
      /\ wpc \in WorkerStates /\ (wpc \in {"redis", "row"} => victim \in Packages)
  BY DEF ProxyInv, TypeOK
<1>2. \A v \in todo : v.pkg \in Packages
  BY <1>1 DEF Entries
<1> QED BY <1>1, <1>2 DEF Listed

\* A step of another goroutine that takes no row away leaves the list sound.
LEMMA ListUntouched ==
    ASSUME WorkList, worker' = worker, \A p \in Listed : db'[p] # None
    PROVE  WorkList' /\ Listed' = Listed
<1>1. wpc' = wpc /\ todo' = todo /\ victim' = victim
  BY DEF worker
<1>2. Listed' = Listed
  BY <1>1 DEF Listed
<1> QED BY <1>1, <1>2 DEF WorkList

\* A request's goroutine touches the row of its package or writes over it.
LEMMA RowsWritten ==
    ASSUME ProxyInv, NEW r \in Requests, Handler(r) \/ Background(r) \/ RecordCVEAlerts(r)
    PROVE  /\ worker' = worker
           /\ \/ db' = db
              \/ db' = [db EXCEPT ![Pkg(r)] = Touched(@)]
              \/ \E status \in {"cached", "blocked"}, checksum \in Files \cup {None} :
                    db' = [db EXCEPT ![Pkg(r)] = Upserted(@, status, checksum)]
<1>1. Pkg(r) \in Packages /\ want[r] \in Files
  BY PackageOfFile DEF ProxyInv, TypeOK, Pkg
<1>2. CASE Handler(r)
  BY <1>2 DEF Handler, LookupRedis, OpenL1, LookupRow, OpenL2, ScanAllows, ScanBlocks,
              EnterFlight, UpstreamAnswers, LandFlight, LeaveAsLeader, LeaveAsFollower,
              PutArtifact, index
<1>3. CASE Backfill(r) \/ IndexArtifact(r) \/ RecordEvent(r) \/ RecordCVEAlerts(r)
  BY <1>3 DEF Backfill, IndexArtifact, RecordEvent, RecordCVEAlerts, index
<1>4. CASE TouchPackage(r)
  BY <1>4 DEF TouchPackage, WriteRow
<1>5. CASE UpsertPackage(r)
  BY <1>1, <1>5 DEF UpsertPackage, WriteRow
<1>6. CASE UpsertBlocked(r)
  BY <1>6 DEF UpsertBlocked, WriteRow
<1> QED BY <1>2, <1>3, <1>4, <1>5, <1>6 DEF Background

LEMMA RequestKeepsList ==
    ASSUME ProxyInv, WorkList, NEW r \in Requests,
           Handler(r) \/ Background(r) \/ RecordCVEAlerts(r)
    PROVE  WorkList' /\ Listed' = Listed
<1>1. db \in [Packages -> Rows \cup {None}] /\ Listed \subseteq Packages
  BY WorkTypes
<1>2. \A p \in Packages : db[p] # None => db'[p] # None
  <2> SUFFICES ASSUME NEW p \in Packages, db[p] # None PROVE db'[p] # None
    OBVIOUS
  <2>1. CASE db' = db
    BY <2>1
  <2>2. CASE db' = [db EXCEPT ![Pkg(r)] = Touched(@)]
    BY <1>1, <2>2, TouchedRow
  <2>3. ASSUME NEW status \in {"cached", "blocked"}, NEW checksum \in Files \cup {None},
               db' = [db EXCEPT ![Pkg(r)] = Upserted(@, status, checksum)]
        PROVE  db'[p] # None
    BY <1>1, <2>3, UpsertedRow
  <2> QED BY <2>1, <2>2, <2>3, RowsWritten
<1>3. \A p \in Listed : db'[p] # None
  BY <1>1, <1>2 DEF WorkList
<1> QED BY <1>3, ListUntouched, RowsWritten

LEMMA ListExpiredWork ==
    ASSUME ProxyInv, WorkList, ListExpired
    PROVE  WorkList' /\ Listed = {} /\ Listed' = Expired /\ db' = db
<1>1. /\ wpc = "sleep" /\ wpc' = "sweep" /\ db' = db
      /\ todo' = {[pkg |-> p, checksum |-> db[p].checksum] : p \in Expired}
  BY DEF ListExpired, index
<1>2. Listed = {}
  BY <1>1 DEF Listed, WorkList
<1>3. Listed' = Expired
  <2>1. Listed' = {v.pkg : v \in todo'}
    BY <1>1 DEF Listed
  <2>2. ASSUME NEW p \in Expired PROVE \E v \in todo' : v.pkg = p
    <3> DEFINE v == [pkg |-> p, checksum |-> db[p].checksum]
    <3>1. v \in todo'
      BY <1>1
    <3>2. v.pkg = p
      OBVIOUS
    <3> HIDE DEF v
    <3> QED BY <3>1, <3>2
  <2>3. \A v \in todo' : v.pkg \in Expired
    BY <1>1
  <2> QED BY <2>1, <2>2, <2>3
<1>4. \A p \in Expired : db[p] # None
  BY DEF Expired, IsExpired, IsCached
<1>5. \A v, w \in todo' : v.pkg = w.pkg => v = w
  BY <1>1
<1> QED BY <1>1, <1>2, <1>3, <1>4, <1>5 DEF WorkList

\* The package at work leaves the list, or stays on it as the victim.
LEMMA EvictArtifactWork ==
    ASSUME ProxyInv, WorkList, NEW v \in todo, EvictArtifact(v)
    PROVE  WorkList' /\ Listed' \subseteq Listed /\ db' = db
<1>1. /\ wpc = "sweep" /\ todo' = todo \ {v} /\ db' = db
      /\ \/ wpc' = "redis" /\ victim' = v.pkg
         \/ wpc' = (IF todo' = {} THEN "sleep" ELSE "sweep") /\ victim' = victim
  BY DEF EvictArtifact, NextVictim, index
<1>2. Listed = {w.pkg : w \in todo}
  BY <1>1 DEF Listed
<1>3. CASE wpc' = "redis" /\ victim' = v.pkg
  <2>1. Listed' = Listed
    BY <1>1, <1>2, <1>3 DEF Listed
  <2>2. \A w \in todo' : w.pkg # victim'
    BY <1>1, <1>3 DEF WorkList
  <2> QED BY <1>1, <1>3, <2>1, <2>2 DEF WorkList
<1>4. CASE wpc' = IF todo' = {} THEN "sleep" ELSE "sweep"
  <2>1. Listed' \subseteq Listed
    BY <1>1, <1>2, <1>4 DEF Listed
  <2> QED BY <1>1, <1>4, <2>1 DEF WorkList
<1> QED BY <1>1, <1>3, <1>4

LEMMA EvictKeyWork ==
    ASSUME ProxyInv, WorkList, EvictKey
    PROVE  WorkList' /\ Listed' = Listed /\ db' = db
<1>1. wpc = "redis" /\ wpc' = "row" /\ todo' = todo /\ victim' = victim /\ db' = db
  BY DEF EvictKey
<1>2. Listed' = Listed
  BY <1>1 DEF Listed
<1> QED BY <1>1, <1>2 DEF WorkList

LEMMA EvictRowWork ==
    ASSUME ProxyInv, WorkList, EvictRow
    PROVE  /\ WorkList'
           /\ victim \in Packages /\ victim \in Listed /\ Listed' = Listed \ {victim}
           /\ db' = db \/ db' = [db EXCEPT ![victim] = None]
<1>1. /\ wpc = "row" /\ todo' = todo
      /\ wpc' = IF todo = {} THEN "sleep" ELSE "sweep"
      /\ db' = db \/ db' = [db EXCEPT ![victim] = None]
  BY DEF EvictRow, NextVictim, DeletePackage
<1>2. db \in [Packages -> Rows \cup {None}] /\ Listed \subseteq Packages /\ victim \in Packages
  BY <1>1, WorkTypes
<1>3. /\ Listed = {v.pkg : v \in todo} \cup {victim}
      /\ Listed' = {v.pkg : v \in todo}
  BY <1>1 DEF Listed
<1>4. \A v \in todo : v.pkg # victim
  BY <1>1 DEF WorkList
<1>5. victim \in Listed /\ Listed' = Listed \ {victim}
  BY <1>3, <1>4
<1>6. \A p \in Listed' : db'[p] # None
  BY <1>1, <1>2, <1>5 DEF WorkList
<1> QED BY <1>1, <1>2, <1>5, <1>6 DEF WorkList

LEMMA EnvironmentWork ==
    ASSUME ProxyInv, WorkList, Environment
    PROVE  WorkList' /\ (~Restart => Listed' = Listed) /\ Listed' \subseteq Listed
<1>1. CASE Restart
  <2>1. wpc' = "sleep" /\ todo' = {}
    BY <1>1 DEF Restart
  <2>2. Listed' = {}
    BY <2>1 DEF Listed
  <2> QED BY <1>1, <2>1, <2>2 DEF WorkList
<1>2. ASSUME NEW p \in Packages, Age(p) PROVE WorkList' /\ Listed' = Listed
  <2>1. worker' = worker /\ db' = [db EXCEPT ![p].idle = TRUE] /\ db[p] # None
    BY <1>2 DEF Age
  <2>2. db \in [Packages -> Rows \cup {None}] /\ Listed \subseteq Packages
    BY WorkTypes
  <2>3. [db[p] EXCEPT !.idle = TRUE] \in Rows
    BY <2>1, <2>2 DEF Rows
  <2>4. db'[p] # None
    BY <2>1, <2>2, <2>3, NilIsNoRecord
  <2>5. \A q \in Listed : db'[q] # None
    BY <2>1, <2>2, <2>4 DEF WorkList
  <2> QED BY <2>1, <2>5, ListUntouched
<1>3. ASSUME NEW p \in Packages, RedisExpires(p) PROVE WorkList' /\ Listed' = Listed
  <2>1. worker' = worker /\ db' = db
    BY <1>3 DEF RedisExpires
  <2>2. \A q \in Listed : db'[q] # None
    BY <2>1 DEF WorkList
  <2> QED BY <2>1, <2>2, ListUntouched
<1>4. ASSUME NEW r \in Requests, ClientLeaves(r) PROVE WorkList' /\ Listed' = Listed
  <2>1. worker' = worker /\ db' = db
    BY <1>4 DEF ClientLeaves, index
  <2>2. \A q \in Listed : db'[q] # None
    BY <2>1 DEF WorkList
  <2> QED BY <2>1, <2>2, ListUntouched
<1> QED BY <1>1, <1>2, <1>3, <1>4 DEF Environment

LEMMA NextWorkList == ASSUME ProxyInv, WorkList, [Next]_vars PROVE WorkList'
<1>1. CASE UNCHANGED vars
  <2>1. worker' = worker /\ db' = db
    BY <1>1 DEF vars, index
  <2>2. \A q \in Listed : db'[q] # None
    BY <2>1 DEF WorkList
  <2> QED BY <2>1, <2>2, ListUntouched
<1>2. CASE Worker
  BY <1>2, ListExpiredWork, EvictArtifactWork, EvictKeyWork, EvictRowWork DEF Worker
<1> QED BY <1>1, <1>2, RequestKeepsList, EnvironmentWork DEF Next

(* What the worker deletes is what it listed, one row per package.         *)
THEOREM WorkListSound == Spec => []WorkList
<1>1. Init => WorkList
  BY DEF Init, WorkList, Listed
<1>2. QED
  BY <1>1, ProxyInvariant, NextWorkList, PTL DEF Spec

-----------------------------------------------------------------------------
LEMMA ViewOfRow ==
    ASSUME NEW row \in Rows
    PROVE  /\ RowView(row) # None
           /\ RowView(row) = [status |-> row.status, use |-> IF row.idle THEN "idle" ELSE "fresh"]
<1>1. row # None
  BY NilIsNoRecord
<1>2. RowView(row) = [status |-> row.status, use |-> IF row.idle THEN "idle" ELSE "fresh"]
  BY <1>1 DEF RowView
<1>3. RowView(row) \in [status : {"cached", "blocked"}, use : {"fresh", "idle"}]
  BY <1>2 DEF Rows
<1> QED BY <1>2, <1>3, NilIsNoView

LEMMA ViewOfTable ==
    ASSUME ProxyInv
    PROVE  /\ \A p \in Packages : RowView(db[p]) = None <=> db[p] = None
           /\ Life!Present = {p \in Packages : db[p] # None}
<1>1. ASSUME NEW p \in Packages PROVE RowView(db[p]) = None <=> db[p] = None
  <2>1. CASE db[p] = None
    BY <2>1 DEF RowView
  <2>2. CASE db[p] # None
    BY <2>2, ViewOfRow, WorkTypes
  <2> QED BY <2>1, <2>2
<1> QED BY <1>1 DEF Life!Present

\* A step that changes one row changes one row of the view.
LEMMA ViewOfChange ==
    ASSUME ProxyInv, NEW p \in Packages, NEW row, db' = [db EXCEPT ![p] = row]
    PROVE  [q \in Packages |-> RowView(db'[q])]
               = [[q \in Packages |-> RowView(db[q])] EXCEPT ![p] = RowView(row)]
<1>1. \A q \in Packages : RowView(db'[q]) = IF q = p THEN RowView(row) ELSE RowView(db[q])
  <2>1. \A q \in Packages : db'[q] = IF q = p THEN row ELSE db[q]
    BY WorkTypes
  <2> QED BY <2>1
<1> QED BY <1>1

LEMMA SameLife ==
    ASSUME db' = db, Listed' = Listed
    PROVE  UNCHANGED Life!vars
BY DEF Life!vars

LEMMA TouchLife ==
    ASSUME ProxyInv, NEW p \in Packages, db' = [db EXCEPT ![p] = Touched(@)], Listed' = Listed
    PROVE  [Life!Next]_(Life!vars)
<1> DEFINE rows == [q \in Packages |-> RowView(db[q])]
<1>1. db \in [Packages -> Rows \cup {None}]
  BY WorkTypes
<1>2. CASE db[p] = None
  <2>1. db' = db
    BY <1>1, <1>2 DEF Touched
  <2> QED BY <2>1, SameLife
<1>3. CASE db[p] # None
  <2> DEFINE new == [db[p] EXCEPT !.idle = FALSE]
  <2>1. db[p] \in Rows
    BY <1>1, <1>3
  <2>2. new \in Rows /\ new.status = db[p].status /\ new.idle = FALSE
    BY <2>1 DEF Rows
  <2>3. db' = [db EXCEPT ![p] = new]
    BY <1>3 DEF Touched
  <2> HIDE DEF new
  <2>4. RowView(new) = [RowView(db[p]) EXCEPT !.use = "fresh"]
    BY <2>1, <2>2, ViewOfRow
  <2>5. rows' = [rows EXCEPT ![p] = RowView(new)]
    BY <2>3, ViewOfChange
  <2>6. rows' = [rows EXCEPT ![p].use = "fresh"]
    BY <2>4, <2>5
  <2>7. p \in Life!Present
    BY <1>3, ViewOfTable
  <2> QED BY <2>6, <2>7 DEF Life!Touch, Life!Next
<1> QED BY <1>2, <1>3

LEMMA WriteLife ==
    ASSUME ProxyInv, NEW p \in Packages, NEW status \in {"cached", "blocked"},
           NEW checksum \in Files \cup {None},
           db' = [db EXCEPT ![p] = Upserted(@, status, checksum)], Listed' = Listed
    PROVE  Life!Next
<1> DEFINE rows == [q \in Packages |-> RowView(db[q])]
           new == Upserted(db[p], status, checksum)
<1>1. db[p] \in Rows \cup {None}
  BY WorkTypes
<1>2. new \in Rows /\ new.status = status /\ (new.idle <=> db[p] # None /\ db[p].idle)
  BY <1>1, UpsertedRow DEF Upserted
<1>3. db' = [db EXCEPT ![p] = new]
  OBVIOUS
<1> HIDE DEF new
<1>4. RowView(new) = [status |-> status,
                      use |-> IF RowView(db[p]) = None THEN "fresh" ELSE RowView(db[p]).use]
  <2>1. RowView(new) = [status |-> status, use |-> IF new.idle THEN "idle" ELSE "fresh"]
    BY <1>2, ViewOfRow
  <2>2. CASE db[p] = None
    BY <1>2, <2>1, <2>2, ViewOfTable
  <2>3. CASE db[p] # None
    <3>1. RowView(db[p]) # None /\ RowView(db[p]).use = IF db[p].idle THEN "idle" ELSE "fresh"
      BY <1>1, <2>3, ViewOfRow
    <3> QED BY <1>2, <2>1, <2>3, <3>1
  <2> QED BY <2>2, <2>3
<1>5. rows' = [rows EXCEPT ![p] = RowView(new)]
  BY <1>3, ViewOfChange
<1>6. rows' = [rows EXCEPT ![p] =
                  [status |-> status, use |-> IF rows[p] = None THEN "fresh" ELSE rows[p].use]]
  BY <1>4, <1>5
<1>7. Life!Write(p, status)
  BY <1>6 DEF Life!Write
<1>8. status \in Life!Statuses
  BY DEF Life!Statuses
<1> QED BY <1>7, <1>8 DEF Life!Next

LEMMA RequestLife ==
    ASSUME ProxyInv, WorkList, NEW r \in Requests,
           Handler(r) \/ Background(r) \/ RecordCVEAlerts(r)
    PROVE  [Life!Next]_(Life!vars)
<1>1. Pkg(r) \in Packages
  BY PackageOfFile DEF ProxyInv, TypeOK, Pkg
<1>2. Listed' = Listed
  BY RequestKeepsList
<1> QED BY <1>1, <1>2, RowsWritten, SameLife, TouchLife, WriteLife

LEMMA WorkerLife ==
    ASSUME ProxyInv, WorkList, Worker
    PROVE  [Life!Next]_(Life!vars)
<1> DEFINE rows == [q \in Packages |-> RowView(db[q])]
<1>1. CASE ListExpired
  <2>1. Listed = {} /\ Listed' = Expired /\ db' = db
    BY <1>1, ListExpiredWork
  <2>2. ASSUME NEW p \in Packages
        PROVE  IsExpired(p) <=>
                   p \in Life!Present /\ rows[p].status = "cached" /\ rows[p].use = "idle"
    <3>1. CASE db[p] = None
      BY <3>1, ViewOfTable DEF IsExpired, IsCached
    <3>2. CASE db[p] # None
      BY <3>2, ViewOfTable, ViewOfRow, WorkTypes DEF IsExpired, IsCached
    <3> QED BY <3>1, <3>2
  <2>3. Life!Present \subseteq Packages
    BY DEF Life!Present
  <2>4. Listed' = {p \in Life!Present : rows[p].status = "cached" /\ rows[p].use = "idle"}
    BY <2>1, <2>2, <2>3 DEF Expired
  <2>5. rows' = rows
    BY <2>1
  <2> QED BY <2>1, <2>4, <2>5 DEF Life!List, Life!Next
<1>2. ASSUME Listed' \subseteq Listed, db' = db PROVE Life!Next
  <2>1. Listed' \in SUBSET Listed /\ rows' = rows
    BY <1>2
  <2>2. Life!PassOver(Listed')
    BY <2>1 DEF Life!PassOver
  <2> QED BY <2>1, <2>2 DEF Life!Next
<1>3. CASE EvictRow
  <2>1. /\ victim \in Packages /\ victim \in Listed /\ Listed' = Listed \ {victim}
        /\ db' = db \/ db' = [db EXCEPT ![victim] = None]
    BY <1>3, EvictRowWork
  <2>2. CASE db' = db
    BY <1>2, <2>1, <2>2
  <2>3. CASE db' = [db EXCEPT ![victim] = None]
    <3>1. rows' = [rows EXCEPT ![victim] = RowView(None)]
      BY <2>1, <2>3, ViewOfChange
    <3>2. RowView(None) = None
      BY DEF RowView
    <3>3. Life!Delete(victim)
      BY <2>1, <3>1, <3>2 DEF Life!Delete
    <3> QED BY <2>1, <3>3 DEF Life!Next
  <2> QED BY <2>1, <2>2, <2>3
<1> QED BY <1>1, <1>2, <1>3, EvictArtifactWork, EvictKeyWork DEF Worker

LEMMA EnvironmentLife ==
    ASSUME ProxyInv, WorkList, Environment
    PROVE  [Life!Next]_(Life!vars)
<1> DEFINE rows == [q \in Packages |-> RowView(db[q])]
<1>1. CASE Restart
  <2>1. rows' = rows /\ Listed' \in SUBSET Listed
    BY <1>1, EnvironmentWork DEF Restart, index
  <2>2. Life!PassOver(Listed')
    BY <2>1 DEF Life!PassOver
  <2> QED BY <2>1, <2>2 DEF Life!Next
<1>2. CASE Listed' = Listed /\ \E p \in Packages : Age(p)
  <2>1. PICK p \in Packages : Age(p)
    BY <1>2
  <2> DEFINE new == [db[p] EXCEPT !.idle = TRUE]
  <2>2. db[p] # None /\ db' = [db EXCEPT ![p] = new] /\ db[p] \in Rows
    BY <2>1, WorkTypes DEF Age
  <2>3. new \in Rows /\ new.status = db[p].status /\ new.idle = TRUE
    BY <2>2 DEF Rows
  <2> HIDE DEF new
  <2>4. RowView(new) = [RowView(db[p]) EXCEPT !.use = "idle"]
    BY <2>2, <2>3, ViewOfRow
  <2>5. rows' = [rows EXCEPT ![p] = RowView(new)]
    BY <2>2, ViewOfChange
  <2>6. rows' = [q \in Packages |-> IF q \in {p} THEN [rows[q] EXCEPT !.use = "idle"]
                                    ELSE rows[q]]
    BY <2>4, <2>5
  <2>7. Life!Age({p})
    BY <1>2, <2>6 DEF Life!Age
  <2>8. {p} \in SUBSET Life!Present
    BY <2>2, ViewOfTable
  <2> QED BY <2>7, <2>8 DEF Life!Next
<1>3. CASE Listed' = Listed /\ \E p \in Packages : RedisExpires(p)
  <2>1. db' = db
    BY <1>3 DEF RedisExpires
  <2> QED BY <1>3, <2>1, SameLife
<1>4. CASE Listed' = Listed /\ \E r \in Requests : ClientLeaves(r)
  <2>1. db' = db
    BY <1>4 DEF ClientLeaves, index
  <2> QED BY <1>4, <2>1, SameLife
<1>5. ~Restart => Listed' = Listed
  BY EnvironmentWork
<1> QED BY <1>1, <1>2, <1>3, <1>4, <1>5 DEF Environment

LEMMA NextLife ==
    ASSUME ProxyInv, WorkList, [Next]_vars
    PROVE  [Life!Next]_(Life!vars)
<1>1. CASE UNCHANGED vars
  <2>1. db' = db /\ Listed' = Listed
    BY <1>1 DEF vars, index, worker, Listed
  <2> QED BY <2>1, SameLife
<1> QED BY <1>1, RequestLife, WorkerLife, EnvironmentLife DEF Next

(* The packages table goes through what RowLife promises, whatever else    *)
(* is at work: the worker deletes only rows that were cached and idle when *)
(* its cycle listed them, and a write over a row does not make it fresh.   *)
THEOREM TableProvidesRowLife == Spec => ImplementsRowLife
<1>1. Init => Life!Init
  <2> SUFFICES ASSUME Init PROVE Life!Init
    OBVIOUS
  <2>1. \A p \in Packages : RowView(db[p]) = None
    BY DEF Init, RowView
  <2>2. Listed = {}
    BY DEF Init, Listed
  <2> QED BY <2>1, <2>2 DEF Life!Init
<1>2. QED
  BY <1>1, ProxyInvariant, WorkListSound, NextLife, PTL DEF Spec, ImplementsRowLife, Life!Spec

-----------------------------------------------------------------------------
(* The proxy and its singleflight group.  At most one upstream fetch of a  *)
(* package is running, whatever restarts, and every caller that the fetch  *)
(* returned to holds the outcome of one of its own package                 *)
(* (proxy.go:219-241, singleflight.go:14, 28).                             *)
THEOREM FetchesAreShared == Spec => [](SF!OneFetchPerKey /\ SF!SharedOutcome)
<1>1. SF!CallTable => SF!OneFetchPerKey
  BY DEF SF!CallTable, SF!RegisteredCalls, SF!InDo, SF!OneFetchPerKey
<1>2. SF!CallTable => SF!SharedOutcome
  <2> SUFFICES ASSUME SF!CallTable, NEW r \in Requests, sfpc[r] = "returned"
               PROVE  /\ joined[r] \in Requests
                      /\ Pkg(joined[r]) = Pkg(r)
                      /\ joined[joined[r]] = joined[r]
                      /\ sfret[r] = val[joined[r]]
                      /\ sfret[r] \in Results
    BY DEF SF!SharedOutcome, SF!CallTable, SF!TypeOK
  <2>1. joined[r] # None /\ joined[r] \in Requests
    <3>1. joined \in [Requests -> Requests \cup {None}] /\ joined[r] # None
      BY DEF SF!CallTable, SF!TypeOK, SF!JoinedCalls
    <3> QED BY <3>1
  <2>2. sfret[r] \in Results
    <3>1. sfret \in [Requests -> Results \cup {None}]
      BY DEF SF!CallTable, SF!TypeOK
    <3>2. sfret[r] # None
      BY DEF SF!CallTable, SF!Outcomes
    <3> QED BY <3>1, <3>2
  <2> QED BY <2>1, <2>2 DEF SF!CallTable, SF!JoinedCalls, SF!Outcomes
<1>3. ProxyInv => SF!CallTable
  BY DEF ProxyInv
<1>4. QED
  BY <1>1, <1>2, <1>3, ProxyInvariant, PTL

LEMMA FlightSame ==
    ASSUME UNCHANGED <<want, flight>> PROVE UNCHANGED SF!vars
BY DEF flight, SF!vars, Pkg

LEMMA HandlerFlight ==
    ASSUME ProxyInv, NEW r \in Requests, Handler(r)
    PROVE  [SF!Next]_(SF!vars)
<1>1. CASE LookupRedis(r) \/ OpenL1(r) \/ LookupRow(r) \/ OpenL2(r)
             \/ ScanAllows(r) \/ ScanBlocks(r) \/ PutArtifact(r)
  BY <1>1, FlightSame DEF LookupRedis, OpenL1, LookupRow, OpenL2, ScanAllows, ScanBlocks,
                          PutArtifact
<1>2. CASE EnterFlight(r)
  BY <1>2 DEF EnterFlight, SF!Next
<1>3. CASE UpstreamAnswers(r)
  <2>1. want[r] \in Results /\ "limited" \in Results /\ "failed" \in Results
    BY DEF ProxyInv, TypeOK, Results, FetchErrors
  <2>2. \E v \in Results : SF!FnReturns(r, v)
    BY <1>3, <2>1 DEF UpstreamAnswers
  <2> QED BY <2>2 DEF SF!Next
<1>4. CASE LandFlight(r)
  BY <1>4 DEF LandFlight, SF!Next
<1>5. CASE LeaveAsLeader(r)
  BY <1>5 DEF LeaveAsLeader, SF!Next
<1>6. CASE LeaveAsFollower(r)
  BY <1>6 DEF LeaveAsFollower, SF!Next
<1> QED BY <1>1, <1>2, <1>3, <1>4, <1>5, <1>6 DEF Handler

LEMMA NextFlight ==
    ASSUME MaxCrashes = 0, ProxyInv, [Next]_vars
    PROVE  [SF!Next]_(SF!vars)
<1>1. CASE UNCHANGED vars
  BY <1>1, FlightSame DEF vars
<1>2. CASE \E r \in Requests : Handler(r)
  BY <1>2, HandlerFlight
<1>3. CASE \E r \in Requests : Background(r) \/ RecordCVEAlerts(r)
  BY <1>3, FlightSame
     DEF Background, TouchPackage, Backfill, IndexArtifact, UpsertPackage, UpsertBlocked,
         RecordEvent, RecordCVEAlerts
<1>4. CASE Worker
  BY <1>4, FlightSame DEF Worker, ListExpired, EvictArtifact, EvictKey, EvictRow
<1>5. CASE \E p \in Packages : Age(p) \/ RedisExpires(p)
  BY <1>5, FlightSame DEF Age, RedisExpires
<1>6. CASE \E r \in Requests : ClientLeaves(r)
  BY <1>6, FlightSame DEF ClientLeaves
<1>7. ~Restart
  BY DEF Restart, ProxyInv, TypeOK
<1> QED BY <1>1, <1>2, <1>3, <1>4, <1>5, <1>6, <1>7 DEF Next, Environment

(* From its start to its end the process uses the group as Singleflight    *)
(* lets its callers use it, so the promise of SharedFetch holds of the     *)
(* proxy's fetches (proxy.go:219).                                         *)
THEOREM ProxyKeepsSingleflight == MaxCrashes = 0 /\ Spec => SF!Spec
<1> SUFFICES ASSUME MaxCrashes = 0 PROVE Spec => SF!Spec
  OBVIOUS
<1>1. Init => SF!Init
  BY PackageOfFile DEF Init, SF!Init, Pkg
<1>2. ProxyInv /\ [Next]_vars => [SF!Next]_(SF!vars)
  BY NextFlight
<1>3. QED
  BY <1>1, <1>2, ProxyInvariant, PTL DEF Spec, SF!Spec
=============================================================================
