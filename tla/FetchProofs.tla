---------------------------- MODULE FetchProofs ----------------------------
(***************************************************************************)
(* Proofs about Fetch for any requests and packages, any bucket and any    *)
(* number of attempts: FetchInv is inductive, so every outcome a caller is *)
(* given has its cause in the fetch it shared, one upstream request per    *)
(* package is out at a time, and none is made for a client that has left.  *)
(***************************************************************************)
EXTENDS Fetch, TLAPS

SFP == INSTANCE SingleflightProofs WITH
    Callers <- Requests,
    Keys    <- Packages,
    key     <- PkgOf,
    pc      <- sfpc,
    ret     <- sfret

(* The instance meets the assumption that Singleflight makes.              *)
LEMMA FlightAssumption == None \notin Requests \cup Results
BY NilIsNoOutcome

(* SF and SFP name the same formulas.                                      *)
LEMMA SameCallTable == SF!CallTable <=> SFP!CallTable
<1>1. SF!TypeOK <=> SFP!TypeOK
  BY DEF SF!TypeOK, SFP!TypeOK, SF!CallerStates, SFP!CallerStates
<1>2. SF!RegisteredCalls <=> SFP!RegisteredCalls
  BY DEF SF!RegisteredCalls, SFP!RegisteredCalls, SF!InDo, SFP!InDo
<1>3. SF!JoinedCalls <=> SFP!JoinedCalls
  BY DEF SF!JoinedCalls, SFP!JoinedCalls
<1>4. SF!CallObjects <=> SFP!CallObjects
  BY DEF SF!CallObjects, SFP!CallObjects
<1>5. SF!Outcomes <=> SFP!Outcomes
  BY DEF SF!Outcomes, SFP!Outcomes
<1>6. QED
  BY <1>1, <1>2, <1>3, <1>4, <1>5 DEF SF!CallTable, SFP!CallTable

LEMMA SameCallTableNext == SF!CallTable' <=> SFP!CallTable'
<1>1. SF!TypeOK' <=> SFP!TypeOK'
  BY DEF SF!TypeOK, SFP!TypeOK, SF!CallerStates, SFP!CallerStates
<1>2. SF!RegisteredCalls' <=> SFP!RegisteredCalls'
  BY DEF SF!RegisteredCalls, SFP!RegisteredCalls, SF!InDo, SFP!InDo
<1>3. SF!JoinedCalls' <=> SFP!JoinedCalls'
  BY DEF SF!JoinedCalls, SFP!JoinedCalls
<1>4. SF!CallObjects' <=> SFP!CallObjects'
  BY DEF SF!CallObjects, SFP!CallObjects
<1>5. SF!Outcomes' <=> SFP!Outcomes'
  BY DEF SF!Outcomes, SFP!Outcomes
<1>6. QED
  BY <1>1, <1>2, <1>3, <1>4, <1>5 DEF SF!CallTable, SFP!CallTable

(* A step of the shared fetch keeps its call table, as SingleflightProofs  *)
(* shows.                                                                  *)
LEMMA FlightKeepsCallTable ==
    ASSUME SF!CallTable, NEW r \in Requests,
           \/ SF!Join(r) \/ SF!Lead(r)
           \/ \E v \in Results : SF!FnReturns(r, v)
           \/ SF!Land(r) \/ SF!Forget(r) \/ SF!Wake(r)
    PROVE  SF!CallTable'
<1>1. SF!Join(r) => SFP!Join(r)
  BY DEF SF!Join, SFP!Join
<1>2. SF!Lead(r) => SFP!Lead(r)
  BY DEF SF!Lead, SFP!Lead
<1>3. \A v \in Results : SF!FnReturns(r, v) => SFP!FnReturns(r, v)
  BY DEF SF!FnReturns, SFP!FnReturns
<1>4. SF!Land(r) => SFP!Land(r)
  BY DEF SF!Land, SFP!Land
<1>5. SF!Forget(r) => SFP!Forget(r)
  BY DEF SF!Forget, SFP!Forget
<1>6. SF!Wake(r) => SFP!Wake(r)
  BY DEF SF!Wake, SFP!Wake
<1>7. SFP!Next
  <2>1. CASE \E v \in Results : SF!FnReturns(r, v)
    BY <2>1, <1>3, Zenon DEF SFP!Next
  <2>2. CASE SF!Join(r) \/ SF!Lead(r) \/ SF!Land(r) \/ SF!Forget(r) \/ SF!Wake(r)
    BY <2>2, <1>1, <1>2, <1>4, <1>5, <1>6, Zenon DEF SFP!Next
  <2>3. QED
    BY <2>1, <2>2
<1>8. SFP!CallTable /\ [SFP!Next]_(SFP!vars)
  BY <1>7, SameCallTable
<1>9. SFP!CallTable'
  BY <1>8, FlightAssumption, SFP!NextCallTable
<1>10. QED
  BY <1>9, SameCallTableNext

(* A step that is none of the shared fetch's business keeps it too.        *)
LEMMA FlightUntouched ==
    ASSUME SF!CallTable, UNCHANGED flight PROVE SF!CallTable'
<1> USE DEF flight
<1>1. SF!TypeOK'
  BY DEF SF!CallTable, SF!TypeOK, SF!CallerStates
<1>2. SF!RegisteredCalls' /\ SF!JoinedCalls'
  BY DEF SF!CallTable, SF!RegisteredCalls, SF!InDo, SF!JoinedCalls
<1>3. SF!CallObjects' /\ SF!Outcomes'
  BY DEF SF!CallTable, SF!CallObjects, SF!Outcomes
<1>4. QED
  BY <1>1, <1>2, <1>3 DEF SF!CallTable

-----------------------------------------------------------------------------
(* The initial state.                                                      *)
LEMMA InitFetchInv == Init => FetchInv
<1> SUFFICES ASSUME Init PROVE FetchInv
  OBVIOUS
<1> USE NilIsNoOutcome, PackageOfRequest
<1>1. SF!TypeOK
  BY DEF Init, SF!Init, SF!TypeOK, SF!CallerStates
<1>2. SF!CallTable
  BY <1>1 DEF Init, SF!Init, SF!CallTable, SF!RegisteredCalls, SF!InDo,
              SF!JoinedCalls, SF!CallObjects, SF!Outcomes
<1>3. TypeOK
  BY <1>1, LimiterConfig, AtLeastOneAttempt DEF Init, TypeOK, FetchStates
<1>4. FetchPlaces /\ LeaderOutcomes
  BY DEF Init, SF!Init, FetchPlaces, LeaderOutcomes, Results, Errors
<1>5. QED
  BY <1>2, <1>3, <1>4 DEF FetchInv

(* A step inside the fetch function that does not return leaves the group  *)
(* alone.                                                                  *)
LEMMA GoesKeepsInv ==
    ASSUME FetchInv, NEW r \in Requests, NEW label \in FetchStates \ {"out"},
           fpc[r] # "out", Goes(r, label), UNCHANGED gone,
           attempts' \in [Requests -> 0..MaxAttempts], tokens' \in 0..Burst,
           \A s \in Requests \ {r} : attempts'[s] = attempts[s],
           label \in {"limiter", "waiting"} => attempts'[r] = 0,
           label = "waiting" => Burst > 0,
           label = "attempt" => attempts'[r] < MaxAttempts,
           label = "asked" => attempts'[r] > 0,
           label = "backoff" => attempts'[r] \in 1..(MaxAttempts - 1)
    PROVE  FetchInv'
<1> USE NilIsNoOutcome, LimiterConfig, AtLeastOneAttempt
<1>1. SF!CallTable'
  BY FlightUntouched DEF FetchInv, Goes
<1>2. TypeOK'
  BY <1>1 DEF FetchInv, TypeOK, Goes, SF!CallTable
<1>3. FetchPlaces'
  BY DEF FetchInv, TypeOK, FetchPlaces, Goes, flight
<1>4. val[r] = None
  BY DEF FetchInv, FetchPlaces, SF!CallTable, SF!CallObjects
<1>5. LeaderOutcomes'
  BY <1>4 DEF FetchInv, TypeOK, LeaderOutcomes, Goes, flight, Results, Errors
<1>6. QED
  BY <1>1, <1>2, <1>3, <1>5 DEF FetchInv

(* The return of the fetch function keeps the invariant, if the outcome is *)
(* one that the way of the leader explains.                                *)
LEMMA ReturnsKeepsInv ==
    ASSUME FetchInv, NEW r \in Requests, NEW outcome \in Results,
           fpc[r] # "out", Returns(r, outcome), UNCHANGED <<gone, attempts, tokens>>,
           outcome \in {"data", "permanent"} => attempts[r] > 0,
           outcome = "transient" => attempts[r] = MaxAttempts,
           outcome = "canceled" => r \in gone,
           outcome = "limited" => attempts[r] = 0 /\ (r \in gone \/ Burst = 0)
    PROVE  FetchInv'
<1> USE NilIsNoOutcome
<1>1. SF!FnReturns(r, outcome)
  BY DEF Returns
<1>2. SF!CallTable'
  BY <1>1, FlightKeepsCallTable DEF FetchInv
<1>3. TypeOK'
  BY <1>2 DEF FetchInv, TypeOK, Returns, FetchStates, SF!CallTable
<1>4. FetchPlaces'
  BY <1>1 DEF FetchInv, TypeOK, SF!TypeOK, FetchPlaces, Returns, SF!FnReturns
<1>5. LeaderOutcomes'
  BY <1>1 DEF FetchInv, TypeOK, SF!TypeOK, LeaderOutcomes, SF!FnReturns
<1>6. QED
  BY <1>2, <1>3, <1>4, <1>5 DEF FetchInv

(* Entering Do.                                                            *)
LEMMA EnterKeepsInv ==
    ASSUME FetchInv, NEW r \in Requests, Enter(r) PROVE FetchInv'
<1> USE NilIsNoOutcome
<1>1. SF!Join(r) \/ SF!Lead(r)
  BY DEF Enter
<1>2. SF!CallTable'
  BY <1>1, FlightKeepsCallTable DEF FetchInv
<1>3. fpc[r] = "out" /\ attempts[r] = 0
  BY <1>1 DEF FetchInv, FetchPlaces, SF!Join, SF!Lead
<1>4. TypeOK'
  BY <1>2 DEF FetchInv, TypeOK, Enter, FetchStates, SF!CallTable
<1>5. CASE SF!Join(r) /\ UNCHANGED fpc
  BY <1>2, <1>3, <1>4, <1>5
     DEF FetchInv, TypeOK, SF!TypeOK, FetchPlaces, LeaderOutcomes, Enter, SF!Join
<1>6. CASE SF!Lead(r) /\ fpc' = [fpc EXCEPT ![r] = "limiter"]
  <2>1. FetchPlaces'
    BY <1>3, <1>6 DEF FetchInv, TypeOK, SF!TypeOK, FetchPlaces, Enter, SF!Lead
  <2>2. LeaderOutcomes'
    BY <1>6 DEF FetchInv, LeaderOutcomes, Enter, SF!Lead
  <2>3. QED
    BY <1>2, <1>4, <2>1, <2>2 DEF FetchInv
<1>7. QED
  BY <1>5, <1>6 DEF Enter

(* Landing, and leaving Do.                                                *)
LEMMA LeaveKeepsInv ==
    ASSUME FetchInv, NEW r \in Requests, Leave(r) PROVE FetchInv'
<1> USE NilIsNoOutcome
<1>1. SF!Land(r) \/ SF!Forget(r) \/ SF!Wake(r)
  BY DEF Leave
<1>2. SF!CallTable'
  BY <1>1, FlightKeepsCallTable DEF FetchInv
<1>3. UNCHANGED val
  BY <1>1 DEF SF!Land, SF!Forget, SF!Wake
<1>4. TypeOK'
  BY <1>2 DEF FetchInv, TypeOK, Leave, SF!CallTable
<1>5. FetchPlaces'
  BY <1>1 DEF FetchInv, TypeOK, SF!TypeOK, FetchPlaces, Leave, SF!Land, SF!Forget, SF!Wake
<1>6. LeaderOutcomes'
  BY <1>3 DEF FetchInv, LeaderOutcomes, Leave
<1>7. QED
  BY <1>2, <1>4, <1>5, <1>6 DEF FetchInv

(* A client that goes, and a token that comes, change none of this.        *)
LEMMA OutsideKeepsInv ==
    ASSUME FetchInv, UNCHANGED <<fpc, attempts, flight>>,
           gone \subseteq gone', gone' \subseteq Requests, tokens' \in 0..Burst
    PROVE  FetchInv'
<1>1. SF!CallTable'
  BY FlightUntouched DEF FetchInv
<1>2. TypeOK'
  BY <1>1 DEF FetchInv, TypeOK, SF!CallTable
<1>3. FetchPlaces' /\ LeaderOutcomes'
  BY DEF FetchInv, FetchPlaces, LeaderOutcomes, flight
<1>4. QED
  BY <1>1, <1>2, <1>3 DEF FetchInv

(* Every step of the fetch function keeps the invariant.                   *)
LEMMA FetchFunctionKeepsInv ==
    ASSUME FetchInv, NEW r \in Requests, FetchFunction(r) PROVE FetchInv'
<1> USE LimiterConfig, AtLeastOneAttempt
<1> USE DEF Results, Errors, FetchStates
<1>1. attempts[r] \in 0..MaxAttempts /\ tokens \in 0..Burst
  BY DEF FetchInv, TypeOK
<1>2. CASE AskLimiter(r)
  <2>1. attempts[r] = 0 /\ fpc[r] = "limiter"
    BY <1>2 DEF AskLimiter, FetchInv, FetchPlaces
  <2>2. CASE Refused(r) /\ Returns(r, "limited")
    BY <1>2, <2>1, <2>2, ReturnsKeepsInv DEF AskLimiter, Refused
  <2>3. CASE ~Refused(r) /\ Goes(r, IF LimiterEnabled THEN "waiting" ELSE "attempt")
    <3>1. attempts' \in [Requests -> 0..MaxAttempts] /\ tokens' \in 0..Burst
      BY <1>1, <1>2 DEF AskLimiter, FetchInv, TypeOK
    <3>2. CASE LimiterEnabled
      <4>1. Burst > 0 /\ Goes(r, "waiting")
        BY <2>3, <3>2 DEF Refused
      <4>2. QED
        BY <1>2, <2>1, <3>1, <4>1, GoesKeepsInv DEF AskLimiter
    <3>3. CASE ~LimiterEnabled
      <4>1. Goes(r, "attempt")
        BY <2>3, <3>3
      <4>2. QED
        BY <1>2, <2>1, <3>1, <4>1, GoesKeepsInv DEF AskLimiter
    <3>4. QED
      BY <3>2, <3>3
  <2>4. QED
    BY <1>2, <2>2, <2>3 DEF AskLimiter
<1>3. CASE AwaitToken(r)
  <2>1. attempts[r] = 0 /\ fpc[r] = "waiting"
    BY <1>3 DEF AwaitToken, FetchInv, FetchPlaces
  <2>2. CASE tokens > 0 /\ tokens' = tokens - 1 /\ Goes(r, "attempt")
    <3>1. tokens' \in 0..Burst
      BY <1>1, <2>2
    <3>2. attempts' \in [Requests -> 0..MaxAttempts]
      BY <1>3 DEF AwaitToken, FetchInv, TypeOK
    <3>3. QED
      BY <1>3, <2>1, <2>2, <3>1, <3>2, GoesKeepsInv DEF AwaitToken
  <2>3. CASE r \in gone /\ Returns(r, "limited") /\ UNCHANGED tokens
    BY <1>3, <2>1, <2>3, ReturnsKeepsInv DEF AwaitToken
  <2>4. QED
    BY <1>3, <2>2, <2>3 DEF AwaitToken
<1>4. CASE AskUpstream(r)
  <2>1. attempts[r] < MaxAttempts /\ fpc[r] = "attempt"
    BY <1>4 DEF AskUpstream, FetchInv, FetchPlaces
  <2>2. CASE attempts' = [attempts EXCEPT ![r] = @ + 1] /\ Goes(r, "asked")
    <3>1. attempts'[r] = attempts[r] + 1 /\ \A s \in Requests \ {r} : attempts'[s] = attempts[s]
      BY <2>2 DEF FetchInv, TypeOK
    <3>2. attempts' \in [Requests -> 0..MaxAttempts] /\ tokens' \in 0..Burst
      BY <1>1, <1>4, <2>1, <2>2 DEF AskUpstream, FetchInv, TypeOK
    <3>3. QED
      BY <1>1, <1>4, <2>1, <2>2, <3>1, <3>2, GoesKeepsInv DEF AskUpstream
  <2>3. CASE r \in gone /\ Returns(r, "canceled") /\ UNCHANGED attempts
    BY <1>4, <2>1, <2>3, ReturnsKeepsInv DEF AskUpstream
  <2>4. QED
    BY <1>4, <2>2, <2>3 DEF AskUpstream
<1>5. CASE UpstreamAnswers(r)
  <2>1. attempts[r] > 0 /\ fpc[r] = "asked"
    BY <1>5 DEF UpstreamAnswers, FetchInv, FetchPlaces
  <2>2. CASE attempts[r] < MaxAttempts /\ Goes(r, "backoff")
    <3>1. attempts' \in [Requests -> 0..MaxAttempts] /\ tokens' \in 0..Burst
      BY <1>1, <1>5 DEF UpstreamAnswers, FetchInv, TypeOK
    <3>2. attempts'[r] \in 1..(MaxAttempts - 1)
      BY <1>1, <1>5, <2>1, <2>2 DEF UpstreamAnswers
    <3>3. QED
      BY <1>5, <2>1, <2>2, <3>1, <3>2, GoesKeepsInv DEF UpstreamAnswers
  <2>3. CASE Returns(r, "data") \/ Returns(r, "permanent")
    BY <1>5, <2>1, <2>3, ReturnsKeepsInv DEF UpstreamAnswers
  <2>4. CASE attempts[r] = MaxAttempts /\ Returns(r, "transient")
    BY <1>5, <2>1, <2>4, ReturnsKeepsInv DEF UpstreamAnswers
  <2>5. CASE r \in gone /\ Returns(r, "canceled")
    BY <1>5, <2>1, <2>5, ReturnsKeepsInv DEF UpstreamAnswers
  <2>6. QED
    BY <1>5, <2>2, <2>3, <2>4, <2>5 DEF UpstreamAnswers
<1>6. CASE Backoff(r)
  <2>1. attempts[r] < MaxAttempts /\ fpc[r] = "backoff"
    BY <1>1, <1>6 DEF Backoff, FetchInv, FetchPlaces
  <2>2. CASE Goes(r, "attempt")
    <3>1. attempts' \in [Requests -> 0..MaxAttempts] /\ tokens' \in 0..Burst
      BY <1>1, <1>6 DEF Backoff, FetchInv, TypeOK
    <3>2. QED
      BY <1>6, <2>1, <2>2, <3>1, GoesKeepsInv DEF Backoff
  <2>3. CASE r \in gone /\ Returns(r, "canceled")
    BY <1>6, <2>1, <2>3, ReturnsKeepsInv DEF Backoff
  <2>4. QED
    BY <1>6, <2>2, <2>3 DEF Backoff
<1>7. QED
  BY <1>2, <1>3, <1>4, <1>5, <1>6 DEF FetchFunction

(* Every step keeps the invariant.                                         *)
LEMMA NextFetchInv == FetchInv /\ [Next]_vars => FetchInv'
<1> SUFFICES ASSUME FetchInv, [Next]_vars PROVE FetchInv'
  OBVIOUS
<1>1. CASE UNCHANGED vars
  BY <1>1, OutsideKeepsInv DEF vars, FetchInv, TypeOK
<1>2. CASE Refill
  BY <1>2, LimiterConfig, OutsideKeepsInv DEF Refill, FetchInv, TypeOK
<1>3. CASE \E r \in Requests : ClientGoes(r)
  BY <1>3, OutsideKeepsInv DEF ClientGoes, FetchInv, TypeOK
<1>4. CASE \E r \in Requests : Enter(r) \/ FetchFunction(r) \/ Leave(r)
  BY <1>4, EnterKeepsInv, FetchFunctionKeepsInv, LeaveKeepsInv
<1>5. QED
  BY <1>1, <1>2, <1>3, <1>4 DEF Next

(* Who is where in the fetch function, and what its outcome says of the    *)
(* way the leader took, for any bucket and any number of attempts.         *)
THEOREM FetchInvariant == Spec => []FetchInv
<1>1. QED
  BY InitFetchInv, NextFetchInv, PTL DEF Spec

(* Every variable of the fetch has its type.                               *)
THEOREM TypeCorrect == Spec => []TypeOK
<1>1. FetchInv => TypeOK
  BY DEF FetchInv
<1>2. QED
  BY <1>1, FetchInvariant, PTL

(* At most one upstream request for a package is out at any time           *)
(* (singleflight.go:14, proxy.go:298-330).                                 *)
THEOREM OneRequest == Spec => []OneUpstreamRequest
<1>1. FetchInv => OneUpstreamRequest
  BY DEF FetchInv, FetchPlaces, SF!CallTable, SF!RegisteredCalls, SF!InDo,
         OneUpstreamRequest
<1>2. QED
  BY <1>1, FetchInvariant, PTL

(* Every outcome a caller is given has its cause in the fetch that it      *)
(* shared (proxy.go:228-238, 298-330).                                     *)
THEOREM OutcomesCaused == Spec => []OutcomesHaveCause
<1>1. FetchInv => OutcomesHaveCause
  <2> SUFFICES ASSUME FetchInv, NEW r \in Requests, sfret[r] # None
               PROVE  LET leader == joined[r] IN
                      /\ PkgOf[leader] = PkgOf[r]
                      /\ sfret[r] \in {"data", "permanent"} => attempts[leader] > 0
                      /\ sfret[r] = "transient" => attempts[leader] = MaxAttempts
                      /\ sfret[r] = "canceled" => leader \in gone
                      /\ sfret[r] = "limited" =>
                            /\ attempts[leader] = 0
                            /\ leader \in gone \/ Burst = 0
    BY DEF OutcomesHaveCause
  <2>1. sfpc[r] = "returned" /\ sfret[r] = val[joined[r]]
    BY DEF FetchInv, SF!CallTable, SF!Outcomes
  <2>2. joined[r] \in Requests /\ PkgOf[joined[r]] = PkgOf[r]
    BY <2>1 DEF FetchInv, SF!CallTable, SF!TypeOK, SF!JoinedCalls
  <2>3. QED
    BY <2>1, <2>2 DEF FetchInv, LeaderOutcomes
<1>2. QED
  BY <1>1, FetchInvariant, PTL

(* Upstream is not asked on behalf of a client that has left               *)
(* (proxy_retry_test.go:339).                                              *)
THEOREM GoneNotAskedFor == Spec => NoRequestForGone
<1>1. FetchInv /\ [Next]_vars =>
        [\A r \in Requests : attempts'[r] > attempts[r] => r \notin gone]_vars
  <2> SUFFICES ASSUME FetchInv, Next, NEW r \in Requests, attempts'[r] > attempts[r]
               PROVE  r \notin gone
    OBVIOUS
  <2>1. attempts \in [Requests -> Int]
    BY AtLeastOneAttempt DEF FetchInv, TypeOK
  <2>2. PICK s \in Requests : AskUpstream(s)
    BY <2>1 DEF Next, Enter, FetchFunction, AskLimiter, AwaitToken, UpstreamAnswers,
                Backoff, Leave, ClientGoes, Refill
  <2>3. QED
    BY <2>1, <2>2 DEF AskUpstream
<1>2. QED
  BY <1>1, FetchInvariant, PTL DEF Spec, NoRequestForGone

(* The fetch function uses Group.Do as Singleflight lets a caller use it:  *)
(* the safety part of ImplementsSingleflight.                              *)
THEOREM KeepsSingleflight == Spec => SF!Spec
<1>1. Init => SF!Init
  BY DEF Init
<1>2. [Next]_vars => [SF!Next]_(SF!vars)
  <2> SUFFICES ASSUME [Next]_vars PROVE [SF!Next]_(SF!vars)
    OBVIOUS
  <2>1. CASE UNCHANGED flight
    BY <2>1 DEF flight, SF!vars
  <2>2. CASE \E r \in Requests : Enter(r) \/ Leave(r)
    BY <2>2 DEF Enter, Leave, SF!Next
  <2>3. CASE \E r \in Requests : FetchFunction(r)
    <3>1. PICK r \in Requests : FetchFunction(r)
      BY <2>3
    <3>2. CASE \E outcome \in Results : Returns(r, outcome)
      BY <3>2 DEF Returns, SF!Next
    <3>3. CASE \E label \in FetchStates : Goes(r, label)
      BY <2>1, <3>3 DEF Goes
    <3>4. QED
      BY <3>1, <3>2, <3>3 DEF FetchFunction, AskLimiter, AwaitToken, AskUpstream,
         UpstreamAnswers, Backoff, Results, Errors, FetchStates
  <2>4. CASE Refill \/ \E r \in Requests : ClientGoes(r)
    BY <2>1, <2>4 DEF Refill, ClientGoes
  <2>5. QED
    BY <2>1, <2>2, <2>3, <2>4 DEF Next, vars
<1>3. QED
  BY <1>1, <1>2, PTL DEF Spec, SF!Spec
=============================================================================
