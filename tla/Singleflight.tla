---------------------------- MODULE Singleflight ----------------------------
(***************************************************************************)
(* Group.Do of internal/singleflight/singleflight.go: concurrent upstream  *)
(* fetches of one package share a single run of the fetch function.        *)
(*                                                                         *)
(* A caller is one invocation of Do (one goroutine); a goroutine that      *)
(* calls Do again is another caller.  The call object that the first       *)
(* caller allocates is named by that caller, its leader: wg[c] and val[c]  *)
(* are the fields of the object leader c allocated, joined[c] is the       *)
(* object caller c holds in its local variable.  (val, err) is one value   *)
(* of Results: callers only pass it on.                                    *)
(*                                                                         *)
(* A step is what happens between two points where other goroutines can    *)
(* interleave: a critical section of g.mu, the return of fn, wg.Done.      *)
(***************************************************************************)
EXTENDS Integers

CONSTANTS
    Callers,    \* invocations of Do
    Keys,       \* "ecosystem:name:version" strings
    Results,    \* what fn can return, errors included
    None        \* nil

ASSUME NoneIsNil == None \notin Callers \cup Results

VARIABLES
    key,        \* key[c]: the key of caller c's invocation; never changes
    pc,         \* where caller c is in Do
    calls,      \* g.calls: the call object registered for a key
    joined,     \* the call object caller c obtained from g.calls or made
    wg,         \* the WaitGroup counter of the call object c allocated
    val,        \* the (val, err) fields of the call object c allocated
    ret         \* what Do returned to caller c

vars == <<key, pc, calls, joined, wg, val, ret>>

CallerStates ==
    {"start", "waiting", "running", "finished", "landed", "returned"}

Init ==
    /\ key \in [Callers -> Keys]
    /\ pc = [c \in Callers |-> "start"]
    /\ calls = [k \in Keys |-> None]
    /\ joined = [c \in Callers |-> None]
    /\ wg = [c \in Callers |-> 0]
    /\ val = [c \in Callers |-> None]
    /\ ret = [c \in Callers |-> None]

-----------------------------------------------------------------------------
\* The key is registered: take the call object and wait on it.
Join(c) ==
    /\ pc[c] = "start"
    /\ calls[key[c]] # None
    /\ joined' = [joined EXCEPT ![c] = calls[key[c]]]
    /\ pc' = [pc EXCEPT ![c] = "waiting"]
    /\ UNCHANGED <<key, calls, wg, val, ret>>

\* Mutant: a caller leads without looking at g.calls.
LeadUnlooked(c) ==
    /\ pc[c] = "start"
    /\ joined' = [joined EXCEPT ![c] = c]
    /\ wg' = [wg EXCEPT ![c] = 1]
    /\ calls' = [calls EXCEPT ![key[c]] = c]
    /\ pc' = [pc EXCEPT ![c] = "running"]
    /\ UNCHANGED <<key, val, ret>>

\* First caller for this key: allocate and register a call object.
Lead(c) ==
    /\ pc[c] = "start"
    /\ calls[key[c]] = None
    /\ joined' = [joined EXCEPT ![c] = c]
    /\ wg' = [wg EXCEPT ![c] = 1]
    /\ calls' = [calls EXCEPT ![key[c]] = c]
    /\ pc' = [pc EXCEPT ![c] = "running"]
    /\ UNCHANGED <<key, val, ret>>

\* fn() returns r to the leader.
FnReturns(c, r) ==
    /\ pc[c] = "running"
    /\ val' = [val EXCEPT ![c] = r]
    /\ pc' = [pc EXCEPT ![c] = "finished"]
    /\ UNCHANGED <<key, calls, joined, wg, ret>>

\* Mutant: the c.wg.Done() is missing.
LandWithoutDone(c) ==
    /\ pc[c] = "finished"
    /\ pc' = [pc EXCEPT ![c] = "landed"]
    /\ UNCHANGED <<key, calls, joined, wg, val, ret>>

\* c.wg.Done()
Land(c) ==
    /\ pc[c] = "finished"
    /\ wg' = [wg EXCEPT ![c] = @ - 1]
    /\ pc' = [pc EXCEPT ![c] = "landed"]
    /\ UNCHANGED <<key, calls, joined, val, ret>>

\* Mutant: the leader returns and leaves its call registered.
ForgetNothing(c) ==
    /\ pc[c] = "landed"
    /\ ret' = [ret EXCEPT ![c] = val[c]]
    /\ pc' = [pc EXCEPT ![c] = "returned"]
    /\ UNCHANGED <<key, calls, joined, wg, val>>

\* Mutant: the leader empties the whole table.
ForgetAll(c) ==
    /\ pc[c] = "landed"
    /\ calls' = [k \in Keys |-> None]
    /\ ret' = [ret EXCEPT ![c] = val[c]]
    /\ pc' = [pc EXCEPT ![c] = "returned"]
    /\ UNCHANGED <<key, joined, wg, val>>

\* The leader removes the key and returns.
Forget(c) ==
    /\ pc[c] = "landed"
    /\ calls' = [calls EXCEPT ![key[c]] = None]
    /\ ret' = [ret EXCEPT ![c] = val[c]]
    /\ pc' = [pc EXCEPT ![c] = "returned"]
    /\ UNCHANGED <<key, joined, wg, val>>

\* Mutant: a caller that joined does not wait.
WakeEarly(c) ==
    /\ pc[c] = "waiting"
    /\ ret' = [ret EXCEPT ![c] = val[joined[c]]]
    /\ pc' = [pc EXCEPT ![c] = "returned"]
    /\ UNCHANGED <<key, calls, joined, wg, val>>

\* c.wg.Wait() returns to a caller that joined.
Wake(c) ==
    /\ pc[c] = "waiting"
    /\ wg[joined[c]] = 0
    /\ ret' = [ret EXCEPT ![c] = val[joined[c]]]
    /\ pc' = [pc EXCEPT ![c] = "returned"]
    /\ UNCHANGED <<key, calls, joined, wg, val>>

Next ==
    \E c \in Callers :
        \/ Join(c)
        \/ Lead(c)
        \/ \E r \in Results : FnReturns(c, r)
        \/ Land(c)
        \/ Forget(c)
        \/ Wake(c)

\* A goroutine inside Do keeps running; that fn returns is the caller's
\* obligation (in the proxy: the HTTP client's timeout and the bounded retry).
Fairness ==
    \A c \in Callers :
        WF_vars((\E r \in Results : FnReturns(c, r)) \/ Land(c) \/ Forget(c) \/ Wake(c))

Spec == Init /\ [][Next]_vars
FairSpec == Spec /\ Fairness

-----------------------------------------------------------------------------
(* Every variable has its type.                                            *)
TypeOK ==
    /\ key \in [Callers -> Keys]
    /\ pc \in [Callers -> CallerStates]
    /\ calls \in [Keys -> Callers \cup {None}]
    /\ joined \in [Callers -> Callers \cup {None}]
    /\ wg \in [Callers -> {0, 1}]
    /\ val \in [Callers -> Results \cup {None}]
    /\ ret \in [Callers -> Results \cup {None}]

InDo(c) == pc[c] \in {"running", "finished", "landed"}

(* No two fetches of one key run at the same time: "only one upstream runs *)
(* and the rest share" (singleflight.go:14).                               *)
OneFetchPerKey ==
    \A c, d \in Callers :
        pc[c] = "running" /\ pc[d] = "running" /\ key[c] = key[d] => c = d

(* Every caller that Do returned to, leader or not, holds the outcome of   *)
(* exactly one finished run of fn, for its own key, and callers of one run *)
(* hold the same outcome ("returns same result to all callers", line 28).  *)
SharedOutcome ==
    \A c \in Callers : pc[c] = "returned" =>
        /\ joined[c] \in Callers
        /\ key[joined[c]] = key[c]
        /\ joined[joined[c]] = joined[c]
        /\ ret[c] = val[joined[c]]
        /\ ret[c] \in Results

(* How the call table, the call objects and the callers fit together.      *)
RegisteredCalls ==      \* g.calls holds the calls whose leader is inside Do
    /\ \A k \in Keys : calls[k] # None => InDo(calls[k]) /\ key[calls[k]] = k
    /\ \A c \in Callers : InDo(c) => calls[key[c]] = c /\ joined[c] = c

JoinedCalls ==          \* who may hold which call object
    \A c \in Callers :
        /\ pc[c] = "start" <=> joined[c] = None
        /\ joined[c] # None => /\ joined[joined[c]] = joined[c]
                               /\ key[joined[c]] = key[c]
        /\ pc[c] = "waiting" => joined[c] # c

CallObjects ==          \* the fields of a call object follow its leader
    \A c \in Callers :
        /\ wg[c] = 1 <=> pc[c] \in {"running", "finished"}
        /\ val[c] # None <=> /\ joined[c] = c
                             /\ pc[c] \in {"finished", "landed", "returned"}

Outcomes ==             \* what Do returns, once its call object has landed
    \A c \in Callers :
        /\ ret[c] # None <=> pc[c] = "returned"
        /\ pc[c] = "returned" => ret[c] = val[joined[c]]

(* The inductive invariant behind the properties above and the refinement  *)
(* below: the table of line 21 lists exactly the calls whose leader is     *)
(* between lines 41 and 49, and a caller only ever holds a live call or    *)
(* one that has landed.                                                    *)
CallTable ==
    TypeOK /\ RegisteredCalls /\ JoinedCalls /\ CallObjects /\ Outcomes

(* A caller never attaches to a fetch whose result its leader already took *)
(* home: after the delete of line 49 a miss starts a fresh fetch (line 47).*)
FreshFetch ==
    [][\A c \in Callers :
          joined[c] = None /\ joined'[c] # None => pc[joined'[c]] # "returned"]_vars

(* Every caller that entered Do returns: nobody waits on a call object     *)
(* whose leader is gone, and the leader's own return does not depend on    *)
(* the callers that joined.                                                *)
EveryCallerReturns ==
    \A c \in Callers : pc[c] # "start" ~> pc[c] = "returned"

-----------------------------------------------------------------------------
(* The promise of Group.Do, with its call table and wait groups hidden.    *)
(* A fetch is running while fn of the registered call has not returned.    *)
Running(k) ==
    IF calls[k] # None /\ pc[calls[k]] = "running" THEN calls[k] ELSE None

Promise == INSTANCE SharedFetch WITH
    fetching <- [k \in Keys |-> Running(k)],
    outcome  <- val,
    attached <- joined,
    answer   <- ret

(* Do implements the shared fetch: every step of the code is a step of the *)
(* abstract fetch or leaves it alone.                                      *)
ImplementsSharedFetch == Promise!Spec
=============================================================================
