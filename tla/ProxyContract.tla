--------------------------- MODULE ProxyContract ----------------------------
(***************************************************************************)
(* What CacheProxyfy promises a client, with no cache, no shared fetch and *)
(* no background work in sight: an artifact is delivered only for a        *)
(* package that a security check let through, it is an artifact of the     *)
(* package asked for, a request is refused only if a check condemned its   *)
(* package, and it fails only because upstream or the rate limiter did, or *)
(* because a client that asked for the same package has left.  A fault of  *)
(* Redis, of the database or of the vulnerability service is never the     *)
(* client's problem; one of storage is its problem in one way: a delivered *)
(* artifact may be cut short.                                              *)
(***************************************************************************)
CONSTANTS Requests, Packages, Files, PkgOf, None, Faulty

VARIABLES
    want,       \* the file each request asks for; never changes
    passed,     \* packages that some check let through
    condemned,  \* packages that some check blocked
    gone,       \* requests whose client left unanswered
    answer      \* what each client was sent: status, artifact, whether all of it

vars == <<want, passed, condemned, gone, answer>>

Init ==
    /\ want \in [Requests -> Files]
    /\ passed = {}
    /\ condemned = {}
    /\ gone = {}
    /\ answer = [r \in Requests |-> None]

Answers(r, status, f, whole) ==
    /\ answer[r] = None
    /\ answer' = [answer EXCEPT ![r] = [status |-> status, file |-> f, whole |-> whole]]

\* A client that asked for the package of r has left before it was answered.
OneHasLeft(r) == \E s \in gone : PkgOf[want[s]] = PkgOf[want[r]]

\* A check lets a package through.
Pass(r) ==
    /\ answer[r] = None
    /\ passed' = passed \cup {PkgOf[want[r]]}
    /\ UNCHANGED <<want, condemned, gone, answer>>

\* A check blocks the package of the request it was made for.
Condemn(r) ==
    /\ condemned' = condemned \cup {PkgOf[want[r]]}
    /\ Answers(r, 403, None, TRUE)
    /\ UNCHANGED <<want, passed, gone>>

Refuse(r) ==
    /\ PkgOf[want[r]] \in condemned
    /\ Answers(r, 403, None, TRUE)
    /\ UNCHANGED <<want, passed, condemned, gone>>

Deliver(r, f, whole) ==
    /\ PkgOf[f] = PkgOf[want[r]]
    /\ PkgOf[f] \in passed
    /\ whole \/ "storage" \in Faulty \/ r \in gone
    /\ Answers(r, 200, f, whole)
    /\ UNCHANGED <<want, passed, condemned, gone>>

TooMany(r) ==
    /\ "limiter" \in Faulty \/ OneHasLeft(r)
    /\ Answers(r, 429, None, TRUE)
    /\ UNCHANGED <<want, passed, condemned, gone>>

BadGateway(r) ==
    /\ "upstream" \in Faulty \/ OneHasLeft(r)
    /\ Answers(r, 502, None, TRUE)
    /\ UNCHANGED <<want, passed, condemned, gone>>

\* A client goes without its answer.
Leave(r) ==
    /\ answer[r] = None
    /\ gone' = gone \cup {r}
    /\ UNCHANGED <<want, passed, condemned, answer>>

\* The process goes away under some of the requests: no answer at all.
Drop(lost) ==
    /\ \A r \in lost : answer[r] = None
    /\ answer' = [r \in Requests |->
                     IF r \in lost THEN [status |-> 0, file |-> None, whole |-> TRUE]
                     ELSE answer[r]]
    /\ UNCHANGED <<want, passed, condemned, gone>>

Next ==
    \/ \E r \in Requests :
          \/ Pass(r) \/ Condemn(r) \/ Refuse(r)
          \/ \E f \in Files, whole \in BOOLEAN : Deliver(r, f, whole)
          \/ TooMany(r) \/ BadGateway(r)
          \/ Leave(r)
    \/ \E lost \in SUBSET Requests : Drop(lost)

Spec == Init /\ [][Next]_vars
=============================================================================
