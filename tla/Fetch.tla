-------------------------------- MODULE Fetch --------------------------------
(***************************************************************************)
(* What one ecosystem's requests do inside the shared fetch, the function  *)
(* that Proxy.serve passes to Group.Do (internal/proxy/proxy.go:228-238):  *)
(* wait for a token of the ecosystem's bucket (internal/ratelimit), then   *)
(* ask upstream, again while the error may pass and attempts are left      *)
(* (fetchFromUpstream, internal/proxy/retry.go).  All of it runs in the    *)
(* leader's goroutine under the leader's request context; the callers that *)
(* joined wait for the outcome and never look at their own context.        *)
(*                                                                         *)
(* How long a wait lasts is left out: a timer ends at any time.  A request *)
(* whose client goes away has its context cancelled by net/http; request   *)
(* contexts have no deadline.                                              *)
(*                                                                         *)
(* Definitions whose comment begins with "Mutant" are what a plausible     *)
(* mistake in the code would make of the definition that follows; nothing  *)
(* here uses them.                                                         *)
(***************************************************************************)
EXTENDS Integers

CONSTANTS
    Requests,       \* requests that reach the shared fetch
    Packages,       \* packages of the ecosystem
    PkgOf,          \* the package a request is for
    None,           \* nil
    LimiterEnabled, \* rate_limit.enabled
    Burst,          \* capacity of the bucket
    MaxAttempts     \* retryConfig.maxAttempts

\* An error that ends the wait for a token; one that isRetryable takes for
\* passing (network, 429, 5xx); one that it does not (404, 403, the timeout of
\* the HTTP client); the leader's own context.
Errors == {"limited", "transient", "permanent", "canceled"}
Results == {"data"} \cup Errors

ASSUME PackageOfRequest == PkgOf \in [Requests -> Packages]
ASSUME NilIsNoOutcome == None \notin Requests \cup Results
ASSUME LimiterConfig == LimiterEnabled \in BOOLEAN /\ Burst \in Nat
ASSUME AtLeastOneAttempt == MaxAttempts \in Nat \ {0}

VARIABLES
    gone,       \* requests whose context is cancelled
    fpc,        \* where a leader is in its fetch function
    attempts,   \* upstream requests a leader has made
    tokens,     \* tokens in the bucket
    sfpc, calls, joined, wg, val, sfret     \* the singleflight group

flight == <<sfpc, calls, joined, wg, val, sfret>>
vars == <<gone, fpc, attempts, tokens, flight>>

SF == INSTANCE Singleflight WITH
    Callers <- Requests,
    Keys    <- Packages,
    key     <- PkgOf,
    pc      <- sfpc,
    ret     <- sfret

FetchStates == {"out", "limiter", "waiting", "attempt", "asked", "backoff"}

Init ==
    /\ gone = {}
    /\ fpc = [r \in Requests |-> "out"]
    /\ attempts = [r \in Requests |-> 0]
    /\ tokens = Burst
    /\ SF!Init

-----------------------------------------------------------------------------
Goes(r, label) == fpc' = [fpc EXCEPT ![r] = label] /\ UNCHANGED flight

\* The fetch function returns to Do.
Returns(r, outcome) ==
    /\ fpc' = [fpc EXCEPT ![r] = "out"]
    /\ SF!FnReturns(r, outcome)

Enter(r) ==
    /\ \/ SF!Join(r) /\ UNCHANGED fpc
       \/ SF!Lead(r) /\ fpc' = [fpc EXCEPT ![r] = "limiter"]
    /\ UNCHANGED <<gone, attempts, tokens>>

\* rate.Limiter.Wait refuses what can never fit the bucket, and a context
\* that is over already.
Refused(r) == LimiterEnabled /\ (Burst = 0 \/ r \in gone)

(* Limiter.Wait.  A disabled limiter lets everything through; otherwise    *)
(* the request waits for a token or for the end of its context, whichever  *)
(* comes first.                                                            *)
AskLimiter(r) ==
    /\ fpc[r] = "limiter"
    /\ \/ Refused(r) /\ Returns(r, "limited")
       \/ ~Refused(r) /\ Goes(r, IF LimiterEnabled THEN "waiting" ELSE "attempt")
    /\ UNCHANGED <<gone, attempts, tokens>>

\* Mutant: the wait is not given the request's context.
AwaitTokenRegardless(r) ==
    /\ fpc[r] = "waiting"
    /\ tokens > 0 /\ tokens' = tokens - 1 /\ Goes(r, "attempt")
    /\ UNCHANGED <<gone, attempts>>

AwaitToken(r) ==
    /\ fpc[r] = "waiting"
    /\ \/ tokens > 0 /\ tokens' = tokens - 1 /\ Goes(r, "attempt")
       \/ r \in gone /\ Returns(r, "limited") /\ UNCHANGED tokens
    /\ UNCHANGED <<gone, attempts>>

\* Mutant: the upstream request is built without the request's context.
AskUpstreamRegardless(r) ==
    /\ fpc[r] = "attempt"
    /\ attempts' = [attempts EXCEPT ![r] = @ + 1]
    /\ Goes(r, "asked")
    /\ UNCHANGED <<gone, tokens>>

\* doFetch sends its request; the transport refuses a context that is over.
AskUpstream(r) ==
    /\ fpc[r] = "attempt"
    /\ \/ /\ r \notin gone
          /\ attempts' = [attempts EXCEPT ![r] = @ + 1]
          /\ Goes(r, "asked")
       \/ r \in gone /\ Returns(r, "canceled") /\ UNCHANGED attempts
    /\ UNCHANGED <<gone, tokens>>

\* Mutant: the loop stops one attempt early.
UpstreamAnswersEarly(r) ==
    /\ fpc[r] = "asked"
    /\ \/ Returns(r, "data")
       \/ attempts[r] < MaxAttempts - 1 /\ Goes(r, "backoff")
       \/ attempts[r] >= MaxAttempts - 1 /\ Returns(r, "transient")
       \/ Returns(r, "permanent")
       \/ r \in gone /\ Returns(r, "canceled")
    /\ UNCHANGED <<gone, attempts, tokens>>

\* Mutant: the loop goes on for as long as the error may pass.
UpstreamAnswersForEver(r) ==
    /\ fpc[r] = "asked"
    /\ \/ Returns(r, "data") /\ UNCHANGED attempts
       \/ Goes(r, "backoff") /\ attempts' = [attempts EXCEPT ![r] = 0]
       \/ Returns(r, "permanent") /\ UNCHANGED attempts
       \/ r \in gone /\ Returns(r, "canceled") /\ UNCHANGED attempts
    /\ UNCHANGED <<gone, tokens>>

\* Mutant: a request whose client has left is given up, but not ended.
UpstreamAnswersLeftBehind(r) ==
    /\ fpc[r] = "asked"
    /\ \/ Returns(r, "data")
       \/ attempts[r] < MaxAttempts /\ Goes(r, "backoff")
       \/ attempts[r] = MaxAttempts /\ Returns(r, "transient")
       \/ Returns(r, "permanent")
       \/ r \in gone /\ SF!FnReturns(r, "canceled") /\ UNCHANGED fpc
    /\ UNCHANGED <<gone, attempts, tokens>>

\* Upstream answers 200, fails in a way that may pass, or fails for good; or
\* the leader's client goes away first.
UpstreamAnswers(r) ==
    /\ fpc[r] = "asked"
    /\ \/ Returns(r, "data")
       \/ attempts[r] < MaxAttempts /\ Goes(r, "backoff")
       \/ attempts[r] = MaxAttempts /\ Returns(r, "transient")
       \/ Returns(r, "permanent")
       \/ r \in gone /\ Returns(r, "canceled")
    /\ UNCHANGED <<gone, attempts, tokens>>

\* The select over the timer and the context; both may be ready.
Backoff(r) ==
    /\ fpc[r] = "backoff"
    /\ \/ Goes(r, "attempt")
       \/ r \in gone /\ Returns(r, "canceled")
    /\ UNCHANGED <<gone, attempts, tokens>>

Leave(r) ==
    /\ SF!Land(r) \/ SF!Forget(r) \/ SF!Wake(r)
    /\ UNCHANGED <<gone, fpc, attempts, tokens>>

ClientGoes(r) ==
    /\ r \notin gone
    /\ sfpc[r] # "returned"
    /\ gone' = gone \cup {r}
    /\ UNCHANGED <<fpc, attempts, tokens, flight>>

Refill ==
    /\ LimiterEnabled
    /\ tokens < Burst
    /\ tokens' = tokens + 1
    /\ UNCHANGED <<gone, fpc, attempts, flight>>

FetchFunction(r) ==
    AskLimiter(r) \/ AwaitToken(r) \/ AskUpstream(r) \/ UpstreamAnswers(r) \/ Backoff(r)

Next ==
    \/ \E r \in Requests :
          Enter(r) \/ FetchFunction(r) \/ Leave(r) \/ ClientGoes(r)
    \/ Refill

(* A goroutine inside Do keeps running, and upstream answers within the    *)
(* timeout of the HTTP client.  Nothing is assumed of clients, nor of the  *)
(* bucket: requests_per_second may be 0.                                   *)
Fairness ==
    \A r \in Requests :
        WF_vars(FetchFunction(r)) /\ WF_vars(Leave(r))

Spec == Init /\ [][Next]_vars
FairSpec == Spec /\ Fairness

-----------------------------------------------------------------------------
(* Every variable has its type.                                            *)
TypeOK ==
    /\ gone \subseteq Requests
    /\ fpc \in [Requests -> FetchStates]
    /\ attempts \in [Requests -> 0..MaxAttempts]
    /\ tokens \in 0..Burst
    /\ SF!TypeOK

(* At most one upstream request for a package is out at any time, however  *)
(* many clients ask and however often the fetch is repeated                *)
(* (singleflight.go:14, proxy.go:298-330).                                 *)
OneUpstreamRequest ==
    \A r, s \in Requests :
        fpc[r] = "asked" /\ fpc[s] = "asked" /\ PkgOf[r] = PkgOf[s] => r = s

(* What a caller is given, leader or not, has its cause in the one fetch   *)
(* it shared: data was asked for, an error that may pass was returned only *)
(* after all attempts, an error that cannot pass after at least one, and   *)
(* a cancellation or a 429 comes from the leader's own context, or from a  *)
(* bucket that never holds a token.                                        *)
OutcomesHaveCause ==
    \A r \in Requests : sfret[r] # None =>
        LET leader == joined[r] IN
        /\ PkgOf[leader] = PkgOf[r]
        /\ sfret[r] \in {"data", "permanent"} => attempts[leader] > 0
        /\ sfret[r] = "transient" => attempts[leader] = MaxAttempts
        /\ sfret[r] = "canceled" => leader \in gone
        /\ sfret[r] = "limited" =>
              /\ attempts[leader] = 0
              /\ leader \in gone \/ Burst = 0

(* Upstream is not asked on behalf of a client that has left, by a first   *)
(* attempt or by a repeated one (proxy_retry_test.go:339).                 *)
NoRequestForGone ==
    [][\A r \in Requests : attempts'[r] > attempts[r] => r \notin gone]_vars

(* The inductive invariant behind the theorems of FetchProofs: who is in   *)
(* the fetch function, and what its outcome says of the way it took.       *)
FetchPlaces ==
    \A r \in Requests :
        /\ fpc[r] # "out" <=> sfpc[r] = "running"
        /\ fpc[r] \in {"limiter", "waiting"} => attempts[r] = 0
        /\ fpc[r] = "waiting" => Burst > 0
        /\ fpc[r] = "attempt" => attempts[r] < MaxAttempts
        /\ fpc[r] = "asked" => attempts[r] > 0
        /\ fpc[r] = "backoff" => attempts[r] \in 1..(MaxAttempts - 1)
        /\ sfpc[r] = "start" => attempts[r] = 0

LeaderOutcomes ==
    \A r \in Requests :
        /\ val[r] \in {"data", "permanent"} => attempts[r] > 0
        /\ val[r] = "transient" => attempts[r] = MaxAttempts
        /\ val[r] = "canceled" => r \in gone
        /\ val[r] = "limited" => attempts[r] = 0 /\ (r \in gone \/ Burst = 0)

FetchInv == TypeOK /\ SF!CallTable /\ FetchPlaces /\ LeaderOutcomes

(* Where the bucket is refilled, every fetch comes to an end, whatever     *)
(* upstream answers.                                                       *)
FetchesEnd ==
    WF_vars(Refill) => \A r \in Requests : fpc[r] # "out" ~> fpc[r] = "out"

(* A leader whose client has left gives up, even where no token ever       *)
(* comes: it does not keep the callers that joined waiting.                *)
GoneLeadersGiveUp ==
    \A r \in Requests : (r \in gone /\ fpc[r] # "out") ~> fpc[r] = "out"

(* The fetch function keeps what Group.Do relies on: it is one run per     *)
(* call, it returns once, and where the bucket is refilled it does return, *)
(* which Singleflight assumes as fairness.                                 *)
ImplementsSingleflight == SF!Spec /\ (WF_vars(Refill) => SF!Fairness)
=============================================================================
