------------------------------ MODULE Service ------------------------------
(***************************************************************************)
(* The life of the process (main.go): what run opens and in which order,   *)
(* the two HTTP servers, the signals that end it, and the shutdown.  A     *)
(* request is accepted, let in by the authentication middleware            *)
(* (internal/auth), routed (module Routes) and answered; CacheProxy has    *)
(* what an artifact request does in between, and Reports what a request to *)
(* the API does.  The routes and the rules of the security check (module   *)
(* Rules) are those that run builds from the configuration.                *)
(*                                                                         *)
(* net/http is external: Shutdown closes the listener at once and waits    *)
(* until no handler is at work or its context ends; ListenAndServe returns *)
(* when the listener is closed.  So is os/signal, which never waits for a  *)
(* channel.                                                                *)
(*                                                                         *)
(* Definitions whose comment begins with "Mutant" are no part of the       *)
(* model: each is a form that the definition below it could have taken by  *)
(* a mistake in the code, and breaks a property that a run checks.         *)
(***************************************************************************)
EXTENDS Routes, Rules

CONSTANTS
    Requests,       \* one-shot requests
    ToMetrics,      \* those that come to the metrics server, :9090
    AuthEnabled,    \* auth.enabled
    None            \* no exit status yet

ASSUME ServersAssumption == ToMetrics \subseteq Requests
ASSUME AuthAssumption == AuthEnabled \in BOOLEAN
ASSUME NoneAssumption == None \notin {"0", "1", "killed"}

VARIABLES
    pc,         \* where run is
    defers,     \* its deferred calls, the last one is called first
    failed,     \* run is going to return an error
    status,     \* the exit status of the process
    quit,       \* a signal is in the channel, which holds one
    asked,      \* somebody asked the process to end
    deadline,   \* of the shutdown's context: "none", "running" or "passed"
    server,     \* the state of each server
    sending,    \* servers whose goroutine wants to send to quit
    req,        \* the state of each request
    kind,       \* what an accepted request turned out to be
    jobs,       \* requests that left a background goroutine at work
    worker      \* the eviction worker

run == <<pc, defers, failed, status>>
signals == <<quit, asked, deadline>>
servers == <<server, sending>>
requests == <<req, kind, jobs>>
vars == <<run, signals, servers, requests, worker>>

Servers == {"metrics", "proxy"}
ServerOf(r) == IF r \in ToMetrics THEN "metrics" ELSE "proxy"
AtWork(s) == {r \in Requests : ServerOf(r) = s /\ req[r] = "handling"}
Kinds == {"health", "unknown", "metadata", "artifact", "report"}

\* The steps of run before the servers, and what each defers.
Startup == <<"config", "storage", "redis", "database", "migrate", "wait">>
Opening == {Startup[i] : i \in 1..(Len(Startup) - 1)}
After(step) == Startup[CHOOSE i \in 2..Len(Startup) : Startup[i - 1] = step]
Defers(step) ==
    CASE step \in {"redis", "database"} -> <<step>>
      [] step = "migrate" -> <<"eviction">>
      [] OTHER -> <<>>

Open(service) == Contains(defers, service)

Init ==
    /\ pc = "config" /\ defers = <<>> /\ failed = FALSE /\ status = None
    /\ quit = FALSE /\ asked = FALSE /\ deadline = "none"
    /\ server = [s \in Servers |-> "off"] /\ sending = {}
    /\ req = [r \in Requests |-> "none"] /\ kind = [r \in Requests |-> "unknown"]
    /\ jobs = {}
    /\ worker = "off"

-----------------------------------------------------------------------------
(* Start.  The eviction worker starts with the deferred evictionCancel,    *)
(* before the servers.                                                     *)
StepSucceeds ==
    /\ pc \in Opening
    /\ defers' = defers \o Defers(pc)
    /\ pc' = After(pc)
    /\ worker' = IF pc = "migrate" THEN "idle" ELSE worker
    /\ server' = IF pc = "migrate" THEN [s \in Servers |-> "starting"] ELSE server
    /\ UNCHANGED <<failed, status, signals, sending, requests>>

StepFails ==
    /\ pc \in Opening
    /\ failed' = TRUE
    /\ pc' = "return"
    /\ UNCHANGED <<defers, status, signals, servers, requests, worker>>

-----------------------------------------------------------------------------
(* The servers' goroutines.  What a listener's error sends fits into the   *)
(* channel or waits.                                                       *)
Listen(s) ==
    /\ server[s] = "starting"
    /\ server' = [server EXCEPT ![s] = "up"]
    /\ UNCHANGED <<run, signals, sending, requests, worker>>

ListenFails(s) ==
    /\ server[s] \in {"starting", "up"}
    /\ server' = [server EXCEPT ![s] = "down"]
    /\ sending' = sending \cup {s}
    /\ asked' = TRUE
    /\ UNCHANGED <<run, quit, deadline, requests, worker>>

SendQuit(s) ==
    /\ s \in sending /\ ~quit
    /\ quit' = TRUE
    /\ sending' = sending \ {s}
    /\ UNCHANGED <<run, asked, deadline, server, requests, worker>>

\* What is lost when the process ends.
Exits(how) ==
    /\ pc' = "exited"
    /\ status' = how
    /\ req' = [r \in Requests |-> IF req[r] = "handling" THEN "cut" ELSE req[r]]
    /\ jobs' = {}
    /\ server' = [s \in Servers |-> "off"] /\ sending' = {}
    /\ worker' = "off"

(* SIGINT or SIGTERM.  Before signal.Notify it ends the process.           *)
Signal ==
    /\ pc # "exited"
    /\ IF pc \in Opening \/ (pc = "return" /\ server["proxy"] = "off")
       THEN Exits("killed") /\ UNCHANGED <<defers, failed, signals, kind>>
       ELSE quit' = TRUE /\ asked' = TRUE
            /\ UNCHANGED <<run, deadline, servers, requests, worker>>

-----------------------------------------------------------------------------
(* The end.                                                                *)

\* Mutant: the shutdown has no deadline.
AwaitForever ==
    /\ pc = "wait" /\ quit
    /\ quit' = FALSE
    /\ pc' = "metrics"
    /\ UNCHANGED <<defers, failed, status, asked, deadline, servers, requests, worker>>

Await ==
    /\ pc = "wait" /\ quit
    /\ quit' = FALSE
    /\ deadline' = "running"
    /\ pc' = "metrics"
    /\ UNCHANGED <<defers, failed, status, asked, servers, requests, worker>>

DeadlinePasses ==
    /\ deadline = "running" /\ pc # "exited"
    /\ deadline' = "passed"
    /\ UNCHANGED <<run, quit, asked, servers, requests, worker>>

\* Shutdown of the metrics server, then of the proxy server.
CloseListener ==
    /\ pc \in Servers /\ server[pc] # "closed"
    /\ server' = [server EXCEPT ![pc] = "closed"]
    /\ UNCHANGED <<run, signals, sending, requests, worker>>

\* Mutant: the handlers at work are not waited for.
StopAtOnce ==
    /\ pc \in Servers /\ server[pc] = "closed"
    /\ pc' = IF pc = "metrics" THEN "proxy" ELSE "return"
    /\ UNCHANGED <<defers, failed, status, signals, servers, requests, worker>>

\* The error of the first Shutdown is ignored, that of the second returned.
Stopped ==
    /\ pc \in Servers /\ server[pc] = "closed"
    /\ AtWork(pc) = {} \/ deadline = "passed"
    /\ failed' = (pc = "proxy" /\ AtWork(pc) # {})
    /\ pc' = IF pc = "metrics" THEN "proxy" ELSE "return"
    /\ UNCHANGED <<defers, status, signals, servers, requests, worker>>

Return ==
    /\ pc = "return"
    /\ IF defers # <<>>
       THEN defers' = Front(defers) /\ UNCHANGED <<pc, status, servers, req, jobs, worker>>
       ELSE Exits(IF failed THEN "1" ELSE "0") /\ UNCHANGED defers
    /\ UNCHANGED <<failed, signals, kind>>

-----------------------------------------------------------------------------
(* Requests.                                                               *)

\* Middleware.Wrap: known says that the credentials are those of a user.
Admits(path, known) == ~AuthEnabled \/ path = <<<<"healthz">>>> \/ known

Accept(r, path, known) ==
    /\ req[r] = "none" /\ server[ServerOf(r)] = "up"
    /\ req' = [req EXCEPT ![r] = IF Admits(path, known) THEN "handling" ELSE "refused"]
    /\ kind' = [kind EXCEPT ![r] = IF r \in ToMetrics THEN "report" ELSE Route(path)]
    /\ UNCHANGED <<run, signals, servers, jobs, worker>>

\* Only an artifact request leaves a goroutine behind, and not always.
Reply(r) ==
    /\ req[r] = "handling"
    /\ req' = [req EXCEPT ![r] = "answered"]
    /\ \/ UNCHANGED jobs
       \/ kind[r] = "artifact" /\ jobs' = jobs \cup {r}
    /\ UNCHANGED <<run, signals, servers, kind, worker>>

JobEnds(r) ==
    /\ r \in jobs
    /\ jobs' = jobs \ {r}
    /\ UNCHANGED <<run, signals, servers, req, kind, worker>>

\* A cycle of the eviction worker begins, ends, or is cut by evictionCancel.
WorkerRuns ==
    /\ worker \in {"idle", "cycle"}
    /\ worker' = IF ~Open("eviction") THEN "off" ELSE IF worker = "idle" THEN "cycle" ELSE "idle"
    /\ UNCHANGED <<run, signals, servers, requests>>

-----------------------------------------------------------------------------
Main == StepSucceeds \/ StepFails \/ Await \/ CloseListener \/ Stopped \/ Return
Goroutines(s) == Listen(s) \/ SendQuit(s)
Client(r) == \E path \in Paths, known \in BOOLEAN : Accept(r, path, known)

Next ==
    \/ Main \/ Signal \/ DeadlinePasses \/ WorkerRuns
    \/ \E s \in Servers : Goroutines(s) \/ ListenFails(s)
    \/ \E r \in Requests : Client(r) \/ Reply(r) \/ JobEnds(r)

(* Goroutines are scheduled and time passes.  A handler may hang, nobody   *)
(* has to send a request or a signal.                                      *)
Fairness ==
    /\ WF_vars(Main) /\ WF_vars(DeadlinePasses)
    /\ \A s \in Servers : WF_vars(Goroutines(s))

Spec == Init /\ [][Next]_vars
FairSpec == Spec /\ Fairness

-----------------------------------------------------------------------------
(* Every variable has its type.                                            *)
TypeOK ==
    /\ pc \in Opening \cup Servers \cup {"wait", "return", "exited"}
    /\ defers \in {SubSeq(<<"redis", "database", "eviction">>, 1, n) : n \in 0..3}
    /\ failed \in BOOLEAN /\ status \in {None, "0", "1", "killed"}
    /\ quit \in BOOLEAN /\ asked \in BOOLEAN /\ deadline \in {"none", "running", "passed"}
    /\ server \in [Servers -> {"off", "starting", "up", "down", "closed"}]
    /\ sending \subseteq Servers
    /\ req \in [Requests -> {"none", "handling", "answered", "refused", "cut"}]
    /\ kind \in [Requests -> Kinds] /\ jobs \subseteq Requests
    /\ worker \in {"off", "idle", "cycle"}

(* The process answers what it has accepted: a handler is cut only by a    *)
(* shutdown whose 15 seconds are over, and a proxy request that was cut    *)
(* shows in the exit status.  Until then Redis and the database are open   *)
(* for every handler (main.go:190-198).                                    *)
GracefulExit ==
    /\ \A r \in Requests : req[r] = "cut" =>
          deadline = "passed" /\ (r \in ToMetrics \/ status = "1")
    /\ (\E r \in Requests : req[r] = "handling") /\ deadline # "passed" =>
          Open("redis") /\ Open("database")

(* A signal, or a listener that fails, ends the process, even if a handler *)
(* never returns (main.go:166-198).                                        *)
SignalEnds == asked ~> pc = "exited"

(* The router and the checker that run builds keep files apart, lead links *)
(* back, and block for cause.  They do not change in a run, and are looked *)
(* at once, when it starts.                                                *)
RouterKeepsFilesApart == pc = "config" => KeysTellFilesApart
RouterLeadsBack == pc = "config" => LinksLeadBack
CheckerBlocksForCause == pc = "config" => BlocksForCause
=============================================================================
