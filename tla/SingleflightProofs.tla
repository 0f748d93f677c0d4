------------------------- MODULE SingleflightProofs -------------------------
(***************************************************************************)
(* Proofs about Singleflight for any sets of callers, keys and results:    *)
(* the call-table invariant is inductive, it implies the safety properties *)
(* the runs check, and every step is a step of SharedFetch or a stutter.   *)
(***************************************************************************)
EXTENDS Singleflight, TLAPS

(* The type invariant alone is inductive given that a woken caller holds a *)
(* call object, so it is proved as a part of CallTable.                    *)
LEMMA InitCallTable == Init => CallTable
BY NoneIsNil DEF Init, CallTable, TypeOK, CallerStates, RegisteredCalls, InDo,
                 JoinedCalls, CallObjects, Outcomes

(* Joining a registered call (lines 32-35) keeps the call table.           *)
LEMMA JoinCallTable ==
    ASSUME CallTable, NEW c \in Callers, Join(c) PROVE CallTable'
<1> USE NoneIsNil DEF CallTable, TypeOK, CallerStates, InDo
<1>1. calls[key[c]] \in Callers /\ InDo(calls[key[c]]) /\ key[calls[key[c]]] = key[c]
  BY DEF Join, RegisteredCalls
<1>2. joined[calls[key[c]]] = calls[key[c]] /\ calls[key[c]] # c
  BY <1>1 DEF Join, RegisteredCalls
<1>3. TypeOK'
  BY <1>1 DEF Join
<1>4. RegisteredCalls'
  BY <1>1, <1>2 DEF Join, RegisteredCalls
<1>5. JoinedCalls'
  BY <1>1, <1>2 DEF Join, JoinedCalls
<1>6. CallObjects'
  BY <1>1, <1>2 DEF Join, CallObjects, JoinedCalls
<1>7. Outcomes'
  BY DEF Join, Outcomes
<1>8. QED
  BY <1>3, <1>4, <1>5, <1>6, <1>7

(* Registering a new call (lines 39-42) keeps the call table.              *)
LEMMA LeadCallTable ==
    ASSUME CallTable, NEW c \in Callers, Lead(c) PROVE CallTable'
<1> USE NoneIsNil DEF CallTable, TypeOK, CallerStates, InDo
<1>1. joined[c] = None /\ val[c] = None
  BY DEF Lead, JoinedCalls, CallObjects
<1>2. TypeOK'
  BY DEF Lead
<1>3. RegisteredCalls'
  BY <1>1 DEF Lead, RegisteredCalls
<1>4. JoinedCalls'
  BY <1>1 DEF Lead, JoinedCalls
<1>5. CallObjects'
  BY <1>1 DEF Lead, CallObjects
<1>6. Outcomes'
  BY <1>1 DEF Lead, Outcomes
<1>7. QED
  BY <1>2, <1>3, <1>4, <1>5, <1>6

(* The return of fn (line 44) keeps the call table.                        *)
LEMMA FnReturnsCallTable ==
    ASSUME CallTable, NEW c \in Callers, NEW r \in Results, FnReturns(c, r)
    PROVE  CallTable'
<1> USE NoneIsNil DEF CallTable, TypeOK, CallerStates, InDo
<1>1. joined[c] = c /\ r # None
  BY DEF FnReturns, RegisteredCalls
<1>2. TypeOK' /\ RegisteredCalls' /\ JoinedCalls'
  BY DEF FnReturns, RegisteredCalls, JoinedCalls
<1>3. CallObjects'
  BY <1>1 DEF FnReturns, CallObjects
<1>4. \A d \in Callers : pc[d] = "returned" => joined[d] # c
  BY DEF FnReturns, CallObjects, Outcomes
<1>5. Outcomes'
  BY <1>4 DEF FnReturns, Outcomes
<1>6. QED
  BY <1>2, <1>3, <1>5

(* wg.Done (line 45) keeps the call table.                                 *)
LEMMA LandCallTable ==
    ASSUME CallTable, NEW c \in Callers, Land(c) PROVE CallTable'
<1> USE NoneIsNil DEF CallTable, TypeOK, CallerStates, InDo
<1>1. wg[c] = 1
  BY DEF Land, CallObjects
<1>2. TypeOK' /\ RegisteredCalls' /\ JoinedCalls' /\ Outcomes'
  BY <1>1 DEF Land, RegisteredCalls, JoinedCalls, Outcomes
<1>3. CallObjects'
  BY <1>1 DEF Land, CallObjects
<1>4. QED
  BY <1>2, <1>3

(* Removing the key (lines 48-52) keeps the call table: the leader deletes *)
(* its own call, never the call of a later leader.                         *)
LEMMA ForgetCallTable ==
    ASSUME CallTable, NEW c \in Callers, Forget(c) PROVE CallTable'
<1> USE NoneIsNil DEF CallTable, TypeOK, CallerStates, InDo
<1>1. calls[key[c]] = c /\ joined[c] = c /\ val[c] # None
  BY DEF Forget, RegisteredCalls, CallObjects
<1>2. TypeOK'
  BY DEF Forget
<1>3. RegisteredCalls'
  BY <1>1 DEF Forget, RegisteredCalls
<1>4. JoinedCalls' /\ CallObjects'
  BY <1>1 DEF Forget, JoinedCalls, CallObjects
<1>5. Outcomes'
  BY <1>1 DEF Forget, Outcomes
<1>6. QED
  BY <1>2, <1>3, <1>4, <1>5

(* A caller that joined never outruns its leader: the counter it waits for *)
(* reaches zero only after the result is in place.                         *)
LEMMA LandedHasOutcome ==
    ASSUME CallTable, NEW c \in Callers, pc[c] = "waiting", wg[joined[c]] = 0
    PROVE  joined[c] \in Callers \ {c} /\ val[joined[c]] \in Results
<1> USE NoneIsNil DEF CallTable, TypeOK, CallerStates
<1>1. joined[c] \in Callers \ {c} /\ joined[joined[c]] = joined[c]
  BY DEF JoinedCalls
<1>2. pc[joined[c]] \notin {"start", "waiting", "running", "finished"}
  BY <1>1 DEF JoinedCalls, CallObjects
<1>3. QED
  BY <1>1, <1>2 DEF CallObjects

(* The return of a caller that joined (lines 34-35) keeps the call table.  *)
LEMMA WakeCallTable ==
    ASSUME CallTable, NEW c \in Callers, Wake(c) PROVE CallTable'
<1> USE NoneIsNil DEF CallTable, TypeOK, CallerStates, InDo
<1>1. joined[c] \in Callers \ {c} /\ val[joined[c]] \in Results
  BY LandedHasOutcome DEF Wake
<1>2. val[c] = None
  BY <1>1 DEF Wake, CallObjects
<1>3. TypeOK'
  BY <1>1 DEF Wake
<1>4. RegisteredCalls' /\ JoinedCalls'
  BY DEF Wake, RegisteredCalls, JoinedCalls
<1>5. CallObjects'
  BY <1>1, <1>2 DEF Wake, CallObjects
<1>6. Outcomes'
  BY <1>1 DEF Wake, Outcomes
<1>7. QED
  BY <1>3, <1>4, <1>5, <1>6

(* Every step keeps the call table.                                        *)
LEMMA NextCallTable == CallTable /\ [Next]_vars => CallTable'
<1> SUFFICES ASSUME CallTable, [Next]_vars PROVE CallTable'
  OBVIOUS
<1>1. CASE UNCHANGED vars
  BY <1>1 DEF vars, CallTable, TypeOK, RegisteredCalls, InDo, JoinedCalls,
              CallObjects, Outcomes
<1>2. CASE Next
  <2>1. PICK c \in Callers : \/ Join(c) \/ Lead(c)
                             \/ \E r \in Results : FnReturns(c, r)
                             \/ Land(c) \/ Forget(c) \/ Wake(c)
    BY <1>2 DEF Next
  <2>2. QED
    BY <2>1, JoinCallTable, LeadCallTable, FnReturnsCallTable, LandCallTable,
       ForgetCallTable, WakeCallTable
<1>3. QED
  BY <1>1, <1>2

(* The table of in-flight calls lists exactly the calls whose leader is    *)
(* between registering and removing them, and every caller holds a live or *)
(* a landed call.                                                          *)
THEOREM CallTableInvariant == Spec => []CallTable
<1>1. QED
  BY InitCallTable, NextCallTable, PTL DEF Spec

(* At most one upstream fetch of a key runs at a time (line 14).           *)
THEOREM OneFetch == Spec => []OneFetchPerKey
<1>1. CallTable => OneFetchPerKey
  BY DEF CallTable, RegisteredCalls, InDo, OneFetchPerKey
<1>2. QED
  BY <1>1, CallTableInvariant, PTL

(* Every caller that returned holds the outcome of the one finished run of *)
(* fn it is attached to (line 28).                                         *)
THEOREM CallersAgree == Spec => []SharedOutcome
<1>1. CallTable => SharedOutcome
  <2> SUFFICES ASSUME CallTable, NEW c \in Callers, pc[c] = "returned"
               PROVE  /\ joined[c] \in Callers
                      /\ key[joined[c]] = key[c]
                      /\ joined[joined[c]] = joined[c]
                      /\ ret[c] = val[joined[c]]
                      /\ ret[c] \in Results
    BY DEF SharedOutcome
  <2>1. QED
    BY NoneIsNil DEF CallTable, TypeOK, JoinedCalls, Outcomes
<1>2. QED
  BY <1>1, CallTableInvariant, PTL

(* A caller attaches to a fetch only while its leader is inside Do: a miss *)
(* after the delete of line 49 starts a fresh one.                         *)
THEOREM FetchesAreFresh == Spec => FreshFetch
<1>1. CallTable /\ [Next]_vars =>
        [\A c \in Callers :
            joined[c] = None /\ joined'[c] # None => pc[joined'[c]] # "returned"]_vars
  <2> SUFFICES ASSUME CallTable, Next, NEW c \in Callers,
                      joined[c] = None, joined'[c] # None
               PROVE  pc[joined'[c]] # "returned"
    OBVIOUS
  <2>1. PICK d \in Callers : \/ Join(d) \/ Lead(d)
                             \/ \E r \in Results : FnReturns(d, r)
                             \/ Land(d) \/ Forget(d) \/ Wake(d)
    BY DEF Next
  <2>2. CASE Join(d)
    <3>1. c = d /\ joined'[c] = calls[key[c]]
      BY <2>2 DEF Join, CallTable, TypeOK
    <3>2. InDo(calls[key[c]])
      BY <3>1, <2>2 DEF Join, CallTable, TypeOK, RegisteredCalls
    <3>3. QED
      BY <3>1, <3>2 DEF InDo
  <2>3. CASE Lead(d)
    BY <2>3 DEF Lead, CallTable, TypeOK
  <2>4. QED
    BY <2>1, <2>2, <2>3 DEF FnReturns, Land, Forget, Wake
<1>2. QED
  BY <1>1, CallTableInvariant, PTL DEF Spec, FreshFetch
-----------------------------------------------------------------------------
(* Under the call table, a step of the code is a step of the abstract      *)
(* fetch or changes nothing the abstract fetch can see.                    *)
LEMMA StepRefines ==
    ASSUME CallTable, [Next]_vars PROVE [Promise!Next]_(Promise!vars)
<1> USE NoneIsNil DEF CallTable, TypeOK, CallerStates, InDo
<1>1. CASE UNCHANGED vars
  BY <1>1 DEF vars, Promise!vars, Running
<1>2. ASSUME NEW c \in Callers, Join(c) PROVE Promise!Attach(c, calls[key[c]])
  <2>1. calls[key[c]] \in Callers /\ joined[calls[key[c]]] = calls[key[c]]
    BY <1>2 DEF Join, RegisteredCalls
  <2>2. key[calls[key[c]]] = key[c] /\ ret[calls[key[c]]] = None
    BY <1>2 DEF Join, RegisteredCalls, Outcomes
  <2>3. \A k \in Keys : Running(k)' = Running(k)
    BY <1>2 DEF Join, RegisteredCalls, Running
  <2>4. joined[c] = None
    BY <1>2 DEF Join, JoinedCalls
  <2>5. QED
    BY <1>2, <2>1, <2>2, <2>3, <2>4 DEF Join, Promise!Attach
<1>3. ASSUME NEW c \in Callers, Lead(c) PROVE Promise!Begin(c)
  <2>1. \A k \in Keys : Running(k)' = IF k = key[c] THEN c ELSE Running(k)
    BY <1>3 DEF Lead, RegisteredCalls, Running
  <2>2. joined[c] = None /\ Running(key[c]) = None
    BY <1>3 DEF Lead, JoinedCalls, Running
  <2>3. QED
    BY <1>3, <2>1, <2>2 DEF Lead, Promise!Begin
<1>4. ASSUME NEW c \in Callers, NEW r \in Results, FnReturns(c, r)
      PROVE  Promise!End(c, r)
  <2>1. Running(key[c]) = c
    BY <1>4 DEF FnReturns, RegisteredCalls, Running
  <2>2. \A k \in Keys : Running(k)' = IF k = key[c] THEN None ELSE Running(k)
    BY <1>4 DEF FnReturns, RegisteredCalls, Running
  <2>3. QED
    BY <1>4, <2>1, <2>2 DEF FnReturns, Promise!End
<1>5. ASSUME NEW c \in Callers, Land(c) PROVE UNCHANGED Promise!vars
  <2>1. \A k \in Keys : Running(k)' = Running(k)
    BY <1>5 DEF Land, Running
  <2>2. QED
    BY <1>5, <2>1 DEF Land, Promise!vars
<1>6. ASSUME NEW c \in Callers, Forget(c) PROVE Promise!Answer(c)
  <2>1. joined[c] = c /\ val[c] # None /\ ret[c] = None
    BY <1>6 DEF Forget, RegisteredCalls, CallObjects, Outcomes
  <2>2. \A k \in Keys : Running(k)' = Running(k)
    BY <1>6 DEF Forget, RegisteredCalls, Running
  <2>3. QED
    BY <1>6, <2>1, <2>2 DEF Forget, Promise!Answer
<1>7. ASSUME NEW c \in Callers, Wake(c) PROVE Promise!Answer(c)
  <2>1. joined[c] \in Callers /\ val[joined[c]] \in Results
    BY <1>7, LandedHasOutcome DEF Wake
  <2>2. \A k \in Keys : Running(k)' = Running(k)
    BY <1>7 DEF Wake, Running
  <2>3. ret[c] = None
    BY <1>7 DEF Wake, Outcomes
  <2>4. QED
    BY <1>7, <2>1, <2>2, <2>3 DEF Wake, Promise!Answer
<1>8. CASE Next
  <2>1. PICK c \in Callers : \/ Join(c) \/ Lead(c)
                             \/ \E r \in Results : FnReturns(c, r)
                             \/ Land(c) \/ Forget(c) \/ Wake(c)
    BY <1>8 DEF Next
  <2>2. CASE Join(c)
    <3>1. calls[key[c]] \in Callers
      BY <2>2 DEF Join
    <3>2. QED
      BY <1>2, <2>2, <3>1 DEF Promise!Next
  <2>3. QED
    BY <2>1, <2>2, <1>3, <1>4, <1>5, <1>6, <1>7 DEF Promise!Next
<1>9. QED
  BY <1>1, <1>8

(* Do implements the shared fetch: its call table, lock and wait groups    *)
(* are invisible to its callers.                                           *)
THEOREM Refinement == Spec => ImplementsSharedFetch
<1>1. Init => Promise!Init
  BY DEF Init, Promise!Init, Running
<1>2. CallTable /\ [Next]_vars => [Promise!Next]_(Promise!vars)
  BY StepRefines
<1>3. QED
  BY <1>1, <1>2, CallTableInvariant, PTL DEF Spec, ImplementsSharedFetch, Promise!Spec
=============================================================================
