--------------------------- MODULE ServiceProofs ---------------------------
(***************************************************************************)
(* Proofs about Service for any requests, any paths and any knowledge of   *)
(* OSV.  First the rules of the security check, then the process: it cuts  *)
(* a handler only after a shutdown whose deadline has passed, and closes   *)
(* Redis and the database for none before; then the router: which files    *)
(* its keys tell apart, and where a rewritten link leads.                  *)
(***************************************************************************)
EXTENDS Service, SequenceTheorems, TLAPS

-----------------------------------------------------------------------------
(* The rules of the security check (module Rules), for every set of        *)
(* vulnerabilities that OSV may know.                                      *)

(* Every vulnerability has a severity.                                     *)
LEMMA SeverityType ==
    ASSUME NEW v \in Vulns
    PROVE  Severity(v) \in Severities
<1>1. ASSUME NEW s PROVE ParseSeverity(s) \in Severities
  BY DEF ParseSeverity, Severities, Unknown, Low, Medium, High, Critical
<1>2. ASSUME NEW i PROVE severityFromCVSSVector(i) \in Severities
  BY DEF severityFromCVSSVector, Severities, Unknown, Low, Medium, High, Critical
<1>3. Unknown \in Severities
  BY DEF Severities, Unknown, Critical
<1> QED BY <1>1, <1>2, <1>3 DEF Severity

(* The loop of Evaluate ends with a largest severity: some record has it,  *)
(* or it is Unknown, and no record has a larger one.                       *)
LEMMA LargestExists ==
    ASSUME NEW records, records \subseteq Vulns
    PROVE  /\ MaxSeverity(records) \in Severities
           /\ MaxSeverity(records) = Unknown \/ \E v \in records : Severity(v) = MaxSeverity(records)
           /\ \A v \in records : Severity(v) <= MaxSeverity(records)
<1> DEFINE Occurs(s) == s = Unknown \/ \E v \in records : Severity(v) = s
           Bounds(s) == \A v \in records : Severity(v) <= s
<1>1. \A v \in records : Severity(v) \in Severities
  BY SeverityType
<1>2. \E s \in Severities : Occurs(s) /\ Bounds(s)
  <2>1. Severities = {0, 1, 2, 3, 4} /\ Unknown = 0
    BY DEF Severities, Unknown, Critical
  <2>2. \A v \in records : Severity(v) \in {0, 1, 2, 3, 4}
    BY <1>1, <2>1
  <2>3. Bounds(4)
    BY <2>2
  <2>4. \/ Occurs(4)
        \/ Occurs(3) /\ Bounds(3)
        \/ Occurs(2) /\ Bounds(2)
        \/ Occurs(1) /\ Bounds(1)
        \/ Bounds(0)
    BY <2>1, <2>2
  <2>5. Occurs(0)
    BY <2>1
  <2> QED BY <2>1, <2>3, <2>4, <2>5
<1> QED BY <1>2 DEF MaxSeverity

(* The scan drops no vulnerability that has a severity.                    *)
LEMMA SevereIsKept ==
    ASSUME NEW v \in Vulns, Severity(v) > Unknown
    PROVE  ~Dropped(v)
<1>1. Severity(v) # Unknown
  BY SeverityType DEF Severities, Unknown, Critical
<1>2. v.stated # "NONE"
  <2>1. SUFFICES ASSUME v.stated = "NONE" PROVE FALSE
    OBVIOUS
  <2>2. Severity(v) = ParseSeverity("NONE")
    BY <2>1, NilAssumption DEF Severity, Words
  <2>3. ParseSeverity("NONE") = Unknown
    BY DEF ParseSeverity
  <2> QED BY <1>1, <2>2, <2>3
<1> QED BY <1>1, <1>2 DEF Dropped

(* What the thresholds of a configuration can be.                          *)
LEMMA PolicyType ==
    ASSUME NEW policy \in Policies
    PROVE  policy.blockAt \in 0..4 /\ policy.warnAt \in 0..4
<1>1. ASSUME NEW s PROVE ParseSeverity(s) \in 0..4
  BY DEF ParseSeverity, Unknown, Low, Medium, High, Critical
<1>2. PICK b \in Words, w \in Words : policy = NewPolicy(b, w)
  BY DEF Policies
<1> QED BY <1>1, <1>2 DEF NewPolicy

(* What blocks, for one policy and one answer.                             *)
LEMMA BlockMeansSevere ==
    ASSUME NEW policy \in Policies, NEW answer, answer \subseteq Vulns
    PROVE  Check(TRUE, TRUE, policy, answer) = "block" <=>
               policy.blockAt > Unknown /\ \E v \in answer : Severity(v) >= policy.blockAt
<1> DEFINE records == Scan(answer)
<1>1. records \subseteq answer
  BY DEF Scan
<1>2. policy.blockAt \in 0..4 /\ Unknown = 0 /\ \A v \in answer : Severity(v) \in 0..4
  BY SeverityType, PolicyType DEF Severities, Unknown, Critical
<1>3. ASSUME policy.blockAt > Unknown
      PROVE  (\E v \in answer : Severity(v) >= policy.blockAt)
                <=> \E v \in records : Severity(v) >= policy.blockAt
  <2>1. ASSUME NEW v \in answer, Severity(v) >= policy.blockAt
        PROVE  v \in records
    <3>1. Severity(v) > Unknown
      BY <1>2, <1>3, <2>1
    <3> QED BY <3>1, SevereIsKept DEF Scan
  <2> QED BY <1>1, <2>1
<1>4. /\ MaxSeverity(records) \in 0..4
      /\ MaxSeverity(records) = 0 \/ \E v \in records : Severity(v) = MaxSeverity(records)
      /\ \A v \in records : Severity(v) <= MaxSeverity(records)
  BY <1>1, LargestExists DEF Severities, Unknown, Critical
<1>5. Evaluate(policy, records) = "block" <=>
          records # {} /\ policy.blockAt > Unknown /\ MaxSeverity(records) >= policy.blockAt
  BY DEF Evaluate
<1>6. ASSUME policy.blockAt > Unknown
      PROVE  (records # {} /\ MaxSeverity(records) >= policy.blockAt)
                <=> \E v \in records : Severity(v) >= policy.blockAt
  <2>1. ASSUME MaxSeverity(records) >= policy.blockAt
        PROVE  \E v \in records : Severity(v) >= policy.blockAt
    BY <1>2, <1>4, <1>6, <2>1
  <2>2. ASSUME NEW v \in records, Severity(v) >= policy.blockAt
        PROVE  MaxSeverity(records) >= policy.blockAt
    BY <1>1, <1>2, <1>4, <2>2
  <2> QED BY <2>1, <2>2
<1> QED BY <1>3, <1>5, <1>6 DEF Check

(* A package is blocked exactly if the check is on, OSV answered, and one  *)
(* vulnerability in the answer is at least as severe as a block threshold  *)
(* that is set, whatever OSV knows: no record that the scan drops would    *)
(* have made a difference (policy.go:18-37, scanner.go:135-162).           *)
THEOREM CheckBlocksForCause == BlocksForCause
<1> SUFFICES ASSUME NEW enabled \in BOOLEAN, NEW answered \in BOOLEAN,
                    NEW policy \in Policies, NEW answer \in SUBSET Known
             PROVE  Check(enabled, answered, policy, answer) = "block" <=>
                        /\ enabled /\ answered /\ policy.blockAt > Unknown
                        /\ \E v \in answer : Severity(v) >= policy.blockAt
  BY DEF BlocksForCause
<1>1. CASE enabled = TRUE /\ answered = TRUE
  BY <1>1, BlockMeansSevere, KnownAssumption
<1>2. CASE enabled = FALSE \/ answered = FALSE
  <2>1. Check(enabled, answered, policy, answer) = "allow"
    BY <1>2, Zenon DEF Check
  <2> QED BY <1>2, <2>1
<1> QED BY <1>1, <1>2

(* A vulnerability more in the answer never makes the outcome milder.      *)
THEOREM CheckNeverMilder == NeverMilder
<1> SUFFICES ASSUME NEW policy \in Policies, NEW more \in SUBSET Known,
                    NEW answer \in SUBSET more
             PROVE  Rank(Check(TRUE, TRUE, policy, answer)) <= Rank(Check(TRUE, TRUE, policy, more))
  BY DEF NeverMilder
<1> DEFINE few == Scan(answer)
           many == Scan(more)
<1>1. few \subseteq many /\ many \subseteq Vulns
  BY KnownAssumption DEF Scan
<1>2. policy.blockAt \in 0..4 /\ policy.warnAt \in 0..4 /\ Unknown = 0
  BY PolicyType DEF Unknown
<1>3. MaxSeverity(few) \in 0..4 /\ MaxSeverity(many) \in 0..4
  BY <1>1, LargestExists DEF Severities, Unknown, Critical
<1>4. MaxSeverity(few) <= MaxSeverity(many)
  <2>1. MaxSeverity(few) = 0 \/ \E v \in few : Severity(v) = MaxSeverity(few)
    BY <1>1, LargestExists DEF Unknown
  <2>2. \A v \in many : Severity(v) <= MaxSeverity(many)
    BY <1>1, LargestExists
  <2> QED BY <1>1, <1>3, <2>1, <2>2
<1>5. few # {} => many # {}
  BY <1>1
<1>6. Check(TRUE, TRUE, policy, answer) = Evaluate(policy, few)
      /\ Check(TRUE, TRUE, policy, more) = Evaluate(policy, many)
  BY DEF Check
<1> DEFINE Outcome(r) ==
               IF r = {} THEN 0
               ELSE IF policy.blockAt > 0 /\ MaxSeverity(r) >= policy.blockAt THEN 2
               ELSE IF policy.warnAt > 0 /\ MaxSeverity(r) >= policy.warnAt THEN 1 ELSE 0
<1>7. ASSUME NEW r PROVE Rank(Evaluate(policy, r)) = Outcome(r)
  BY <1>2 DEF Evaluate, Rank
<1>8. Rank(Evaluate(policy, few)) = Outcome(few) /\ Rank(Evaluate(policy, many)) = Outcome(many)
  BY <1>7
<1>9. Outcome(few) <= Outcome(many)
  <2> HIDE DEF few, many
  <2> QED BY <1>2, <1>3, <1>4, <1>5
<1> QED BY <1>6, <1>8, <1>9

-----------------------------------------------------------------------------
(* The process.                                                            *)

Deferred == {"redis", "database", "eviction"}

\* No server has started, or a step of run failed before any did.
Starting == pc \in Opening \/ (pc = "return" /\ server["proxy"] = "off")

(* What the shutdown has achieved: the states of run, of the servers and   *)
(* of the handlers agree.                                                  *)
ShutdownInv ==
    /\ pc \in Opening \cup Servers \cup {"wait", "return", "exited"}
    /\ server \in [Servers -> {"off", "starting", "up", "down", "closed"}]
    /\ req \in [Requests -> {"none", "handling", "answered", "refused", "cut"}]
    /\ failed \in BOOLEAN
    /\ pc # "exited" => \A r \in Requests : req[r] # "cut"
    /\ pc = "exited" => \A r \in Requests : req[r] # "handling"
    /\ Starting => \A s \in Servers : server[s] = "off"
    /\ pc \in Servers \cup {"wait"} => server["proxy"] # "off"
    /\ Starting => \A r \in Requests : req[r] # "handling"
    /\ pc \in {"proxy", "return"} /\ ~Starting => server["metrics"] = "closed"
    /\ pc = "return" /\ ~Starting => server["proxy"] = "closed"
    /\ pc = "exited" => \A s \in Servers : server[s] = "off"
    /\ pc \in {"proxy", "return"} /\ AtWork("metrics") # {} => deadline = "passed"
    /\ pc = "return" /\ AtWork("proxy") # {} => deadline = "passed" /\ failed = TRUE

\* What run has opened when it has come so far.
OpenInv ==
    /\ defers \in Seq(Deferred)
    /\ pc \in {"database", "migrate", "wait"} \cup Servers => Contains(defers, "redis")
    /\ pc \in {"migrate", "wait"} \cup Servers => Contains(defers, "database")

CutInv ==
    \A r \in Requests : req[r] = "cut" =>
        deadline = "passed" /\ (r \in ToMetrics \/ status = "1")

ServiceInv == ShutdownInv /\ OpenInv /\ CutInv

(* The order of the steps of run.                                          *)
LEMMA Order ==
    /\ Opening = {"config", "storage", "redis", "database", "migrate"}
    /\ After("config") = "storage" /\ After("storage") = "redis"
    /\ After("redis") = "database" /\ After("database") = "migrate"
    /\ After("migrate") = "wait"
<1>1. Len(Startup) = 6
  BY DEF Startup
<1>2. /\ Startup[1] = "config" /\ Startup[2] = "storage" /\ Startup[3] = "redis"
      /\ Startup[4] = "database" /\ Startup[5] = "migrate" /\ Startup[6] = "wait"
  BY DEF Startup
<1>3. Opening = {"config", "storage", "redis", "database", "migrate"}
  <2>1. 1..(Len(Startup) - 1) = {1, 2, 3, 4, 5}
    BY <1>1
  <2> QED BY <1>2, <2>1 DEF Opening
<1>4. ASSUME NEW n \in 1..5
      PROVE  After(Startup[n]) = Startup[n + 1]
  <2>1. \A i \in 2..6 : Startup[i - 1] = Startup[n] <=> i = n + 1
    BY <1>2
  <2>2. (CHOOSE i \in 2..6 : Startup[i - 1] = Startup[n]) = n + 1
    BY <2>1
  <2> QED BY <1>1, <2>2 DEF After
<1> QED BY <1>2, <1>3, <1>4

(* What a sequence contains after an append, and after its last element    *)
(* is gone.                                                                *)
LEMMA ContainsMore ==
    ASSUME NEW s \in Seq(Deferred), NEW t \in Seq(Deferred), NEW e
    PROVE  /\ s \o t \in Seq(Deferred)
           /\ Contains(s, e) => Contains(s \o t, e)
           /\ Contains(t, e) => Contains(s \o t, e)
<1>1. /\ s \o t \in Seq(Deferred) /\ Len(s \o t) = Len(s) + Len(t)
      /\ \A i \in 1..Len(s) : (s \o t)[i] = s[i]
  OBVIOUS
<1>2. \A i \in 1..Len(t) : (s \o t)[Len(s) + i] = t[i]
  OBVIOUS
<1>3. Len(s) \in Nat /\ Len(t) \in Nat
  OBVIOUS
<1>4. \A i \in 1..Len(t) : Len(s) + i \in 1..Len(s \o t)
  BY <1>1, <1>3
<1>5. \A i \in 1..Len(s) : i \in 1..Len(s \o t)
  BY <1>1, <1>3
<1> QED BY <1>1, <1>2, <1>4, <1>5 DEF Contains

LEMMA DefersType ==
    /\ \A step : Defers(step) \in Seq(Deferred)
    /\ Contains(Defers("redis"), "redis") /\ Contains(Defers("database"), "database")
<1>1. ASSUME NEW step PROVE Defers(step) \in Seq(Deferred)
  <2>1. CASE step \in {"redis", "database"}
    <3>1. Defers(step) = <<step>> /\ step \in Deferred
      BY <2>1 DEF Defers, Deferred
    <3> QED BY <3>1
  <2>2. CASE step = "migrate"
    <3>1. Defers(step) = <<"eviction">> /\ "eviction" \in Deferred
      BY <2>2 DEF Defers, Deferred
    <3> QED BY <3>1
  <2>3. CASE step \notin {"redis", "database", "migrate"}
    <3>1. Defers(step) = <<>>
      BY <2>3 DEF Defers
    <3> QED BY <3>1
  <2> QED BY <2>1, <2>2, <2>3
<1>2. /\ Len(Defers("redis")) = 1 /\ Defers("redis")[1] = "redis"
      /\ Len(Defers("database")) = 1 /\ Defers("database")[1] = "database"
  BY DEF Defers
<1> QED BY <1>1, <1>2 DEF Contains

LEMMA InitService == Init => ServiceInv
<1> SUFFICES ASSUME Init PROVE ServiceInv
  OBVIOUS
<1>1. pc = "config" /\ defers = <<>> /\ \A s \in Servers : server[s] = "off"
  BY DEF Init
<1>2. ShutdownInv
  BY <1>1, Order DEF Init, ShutdownInv, Starting, Servers, AtWork
<1>3. OpenInv
  BY <1>1 DEF OpenInv, Servers
<1>4. CutInv
  BY DEF Init, CutInv
<1> QED BY <1>2, <1>3, <1>4 DEF ServiceInv

-----------------------------------------------------------------------------
(* The steps of run.                                                       *)
LEMMA StartInv ==
    ASSUME ServiceInv, StepSucceeds \/ StepFails
    PROVE  ServiceInv'
<1> USE DEF ServiceInv
<1>1. CASE StepSucceeds
  <2>1. /\ pc \in Opening /\ pc' = After(pc) /\ defers' = defers \o Defers(pc)
        /\ UNCHANGED <<failed, status, deadline, req>>
    BY <1>1 DEF StepSucceeds, signals, requests
  <2>2. ShutdownInv'
    BY <1>1, <2>1, Order DEF StepSucceeds, ShutdownInv, Starting, Servers, AtWork
  <2>3. OpenInv'
    <3>1. /\ defers' \in Seq(Deferred)
          /\ \A e : Contains(defers, e) \/ Contains(Defers(pc), e) => Contains(defers', e)
      BY <2>1, ContainsMore, DefersType DEF OpenInv
    <3> QED BY <2>1, <3>1, Order, DefersType DEF OpenInv, Servers
  <2>4. CutInv'
    BY <2>1 DEF CutInv
  <2> QED BY <2>2, <2>3, <2>4
<1>2. CASE StepFails
  <2>1. ShutdownInv'
    BY <1>2, Order DEF StepFails, ShutdownInv, Starting, Servers, AtWork, servers, signals, requests
  <2>2. OpenInv'
    BY <1>2, Order DEF StepFails, OpenInv, Servers
  <2>3. CutInv'
    BY <1>2 DEF StepFails, CutInv, signals, requests
  <2> QED BY <2>1, <2>2, <2>3
<1> QED BY <1>1, <1>2

LEMMA EndInv ==
    ASSUME ServiceInv, Await \/ CloseListener \/ Stopped \/ Return
    PROVE  ServiceInv'
<1> USE DEF ServiceInv
<1>1. CASE Await
  <2>1. ShutdownInv'
    BY <1>1, Order DEF Await, ShutdownInv, Starting, Servers, AtWork, servers, requests
  <2>2. OpenInv' /\ CutInv'
    BY <1>1, Order DEF Await, OpenInv, CutInv, ShutdownInv, Servers, requests
  <2> QED BY <2>1, <2>2
<1>2. CASE CloseListener
  <2>1. ShutdownInv'
    BY <1>2, Order DEF CloseListener, ShutdownInv, Starting, Servers, AtWork, run, signals, requests
  <2>2. OpenInv' /\ CutInv'
    BY <1>2 DEF CloseListener, OpenInv, CutInv, run, signals, requests
  <2> QED BY <2>1, <2>2
<1>3. CASE Stopped
  <2>1. pc \in Servers /\ pc' = (IF pc = "metrics" THEN "proxy" ELSE "return")
    BY <1>3 DEF Stopped
  <2>2. AtWork("metrics")' = AtWork("metrics") /\ AtWork("proxy")' = AtWork("proxy")
    BY <1>3 DEF Stopped, AtWork, requests
  <2>3. ShutdownInv'
    BY <1>3, <2>1, <2>2, Order DEF Stopped, ShutdownInv, Starting, Servers, servers, signals, requests
  <2>4. OpenInv' /\ CutInv'
    BY <1>3, <2>1, Order DEF Stopped, OpenInv, CutInv, ShutdownInv, Servers, signals, requests
  <2> QED BY <2>3, <2>4
<1>4. CASE Return /\ defers # <<>>
  <2>1. /\ pc = "return" /\ defers' = Front(defers)
        /\ UNCHANGED <<pc, status, server, req, failed, deadline>>
    BY <1>4 DEF Return, servers, signals
  <2>2. ShutdownInv'
    BY <2>1, Order DEF ShutdownInv, Starting, Servers, AtWork
  <2>3. OpenInv'
    <3>1. defers' \in Seq(Deferred)
      BY <1>4, <2>1 DEF OpenInv, Front
    <3> QED BY <2>1, <3>1, Order DEF OpenInv, Servers
  <2> QED BY <2>1, <2>2, <2>3 DEF CutInv
<1>5. CASE Return /\ defers = <<>>
  <2>1. /\ pc = "return" /\ pc' = "exited" /\ status' = (IF failed THEN "1" ELSE "0")
        /\ req' = [r \in Requests |-> IF req[r] = "handling" THEN "cut" ELSE req[r]]
        /\ server' = [s \in Servers |-> "off"]
        /\ UNCHANGED <<defers, failed, deadline>>
    BY <1>5 DEF Return, Exits, signals
  <2>2. ShutdownInv'
    BY <2>1, Order DEF ShutdownInv, Starting, Servers
  <2>3. OpenInv'
    BY <2>1, Order DEF OpenInv, Servers
  <2>4. CutInv'
    <3> SUFFICES ASSUME NEW r \in Requests, req'[r] = "cut"
                 PROVE  deadline = "passed" /\ (r \in ToMetrics \/ status' = "1")
      BY <2>1 DEF CutInv
    <3>1. req[r] = "handling"
      BY <2>1 DEF ShutdownInv
    <3>2. CASE r \in ToMetrics
      <4>1. r \in AtWork("metrics")
        BY <3>1, <3>2 DEF AtWork, ServerOf
      <4> QED BY <2>1, <3>2, <4>1 DEF ShutdownInv
    <3>3. CASE r \notin ToMetrics
      <4>1. r \in AtWork("proxy")
        BY <3>1, <3>3 DEF AtWork, ServerOf
      <4> QED BY <2>1, <4>1 DEF ShutdownInv
    <3> QED BY <3>2, <3>3
  <2> QED BY <2>2, <2>3, <2>4
<1> QED BY <1>1, <1>2, <1>3, <1>4, <1>5

(* The servers' goroutines, and the signals.                               *)
LEMMA AroundInv ==
    ASSUME ServiceInv,
           Signal \/ DeadlinePasses \/ WorkerRuns
              \/ \E s \in Servers : Goroutines(s) \/ ListenFails(s)
    PROVE  ServiceInv'
<1> USE DEF ServiceInv
<1>1. CASE Signal /\ ~Starting
  BY <1>1, Order DEF Signal, Starting, ShutdownInv, OpenInv, CutInv, AtWork, run, servers, requests
<1>2. CASE Signal /\ Starting
  <2>1. /\ pc # "exited" /\ pc' = "exited"
        /\ req' = [r \in Requests |-> IF req[r] = "handling" THEN "cut" ELSE req[r]]
        /\ server' = [s \in Servers |-> "off"]
        /\ UNCHANGED <<defers, failed, deadline>>
    BY <1>2 DEF Signal, Starting, Exits, signals
  <2>2. \A r \in Requests : req'[r] \notin {"cut", "handling"}
    BY <1>2, <2>1 DEF ShutdownInv
  <2>3. ShutdownInv'
    BY <2>1, <2>2, Order DEF ShutdownInv, Starting, Servers
  <2> QED BY <2>1, <2>2, <2>3, Order DEF OpenInv, CutInv, Servers
<1>3. CASE DeadlinePasses
  BY <1>3 DEF DeadlinePasses, ShutdownInv, OpenInv, CutInv, Starting, AtWork, run, servers, requests
<1>4. CASE WorkerRuns
  BY <1>4 DEF WorkerRuns, ShutdownInv, OpenInv, CutInv, Starting, AtWork, run, signals, servers, requests
<1>5. ASSUME NEW s \in Servers, Goroutines(s) \/ ListenFails(s)
      PROVE  ServiceInv'
  <2>1. UNCHANGED <<run, deadline, requests>>
    BY <1>5 DEF Goroutines, Listen, SendQuit, ListenFails, signals
  <2>2. \/ server' = server
        \/ /\ server[s] \in {"starting", "up"}
           /\ \E x \in {"up", "down"} : server' = [server EXCEPT ![s] = x]
    BY <1>5 DEF Goroutines, Listen, SendQuit, ListenFails
  <2>3. ShutdownInv'
    BY <2>1, <2>2, Order DEF ShutdownInv, Starting, Servers, AtWork, run, requests
  <2>4. OpenInv' /\ CutInv'
    BY <2>1 DEF OpenInv, CutInv, run, requests
  <2> QED BY <2>3, <2>4
<1> QED BY <1>1, <1>2, <1>3, <1>4, <1>5

LEMMA RequestInv ==
    ASSUME ServiceInv, NEW r \in Requests, Client(r) \/ Reply(r) \/ JobEnds(r)
    PROVE  ServiceInv'
<1> USE DEF ServiceInv
<1>1. UNCHANGED <<run, signals, server>>
  BY DEF Client, Accept, Reply, JobEnds, servers
<1>2. ASSUME NEW path, NEW known, Accept(r, path, known)
      PROVE  ServiceInv'
  <2>1. /\ server[ServerOf(r)] = "up" /\ ServerOf(r) \in Servers
        /\ \E x \in {"handling", "refused"} : req' = [req EXCEPT ![r] = x]
    BY <1>2 DEF Accept, ServerOf, Servers
  <2>2. \A s \in Servers : s # ServerOf(r) => AtWork(s)' = AtWork(s)
    BY <2>1 DEF AtWork, ShutdownInv
  <2>3. ~Starting /\ pc # "exited"
    BY <2>1 DEF ShutdownInv
  <2>4. pc \in {"proxy", "return"} => server["metrics"] # "up"
    BY <2>3 DEF ShutdownInv
  <2>5. pc = "return" => server["proxy"] # "up"
    BY <2>3 DEF ShutdownInv
  <2>6. ShutdownInv'
    BY <1>1, <2>1, <2>2, <2>3, <2>4, <2>5 DEF ShutdownInv, Starting, Servers, run, signals
  <2>7. OpenInv' /\ CutInv'
    BY <1>1, <2>1 DEF OpenInv, CutInv, ShutdownInv, run, signals
  <2> QED BY <2>6, <2>7
<1>3. CASE Reply(r)
  <2>1. req' = [req EXCEPT ![r] = "answered"]
    BY <1>3 DEF Reply
  <2>2. \A s \in Servers : AtWork(s)' \subseteq AtWork(s)
    BY <2>1 DEF AtWork, ShutdownInv
  <2>3. ShutdownInv'
    BY <1>1, <2>1, <2>2 DEF ShutdownInv, Starting, Servers, run, signals
  <2>4. OpenInv' /\ CutInv'
    BY <1>1, <2>1 DEF OpenInv, CutInv, ShutdownInv, run, signals
  <2> QED BY <2>3, <2>4
<1>4. CASE JobEnds(r)
  BY <1>1, <1>4 DEF JobEnds, ShutdownInv, OpenInv, CutInv, Starting, AtWork, run, signals
<1> QED BY <1>2, <1>3, <1>4 DEF Client

LEMMA NextService == ServiceInv /\ [Next]_vars => ServiceInv'
<1> SUFFICES ASSUME ServiceInv, [Next]_vars PROVE ServiceInv'
  OBVIOUS
<1>1. CASE UNCHANGED vars
  BY <1>1 DEF vars, run, signals, servers, requests, ServiceInv, ShutdownInv, OpenInv, CutInv, Starting, AtWork
<1> QED BY <1>1, StartInv, EndInv, AroundInv, RequestInv DEF Next, Main

(* The states of run, of the servers and of the handlers agree.            *)
THEOREM ServiceInvAlways == Spec => []ServiceInv
<1> QED BY InitService, NextService, PTL DEF Spec

(* A handler is cut only by a shutdown whose deadline has passed, and has  *)
(* Redis and the database until then.                                      *)
THEOREM ExitIsGraceful == Spec => []GracefulExit
<1>1. ServiceInv => GracefulExit
  <2> SUFFICES ASSUME ServiceInv PROVE GracefulExit
    OBVIOUS
  <2> USE DEF ServiceInv
  <2>1. ASSUME NEW r \in Requests, req[r] = "handling", deadline # "passed"
        PROVE  Open("redis") /\ Open("database")
    <3>1. pc # "exited" /\ ~Starting
      BY <2>1 DEF ShutdownInv
    <3>2. r \in AtWork("metrics") \/ r \in AtWork("proxy")
      BY <2>1 DEF AtWork, ServerOf
    <3>3. pc # "return"
      BY <2>1, <3>2 DEF ShutdownInv
    <3>4. pc \in Servers \cup {"wait"}
      BY <3>1, <3>3 DEF ShutdownInv, Starting
    <3> QED BY <3>4 DEF OpenInv, Open
  <2> QED BY <2>1 DEF GracefulExit, CutInv
<1> QED BY <1>1, ServiceInvAlways, PTL

-----------------------------------------------------------------------------
(* The router that run builds.                                             *)

(* A segment is a sequence of strings, a path one of segments.             *)
LEMMA SegmentsAreSequences ==
    /\ \A seg \in Segments : seg \in Seq(STRING) /\ Len(seg) > 0
    /\ \A path \in Paths : path \in Seq(Segments) /\ Len(path) > 0
<1>1. ASSUME NEW seg \in Segments PROVE seg \in Seq(STRING) /\ Len(seg) > 0
  <2>1. seg \in Seq(STRING) /\ seg # <<>>
    BY DEF Segments
  <2> QED BY <2>1, EmptySeq, LenProperties
<1>2. ASSUME NEW path \in Paths PROVE path \in Seq(Segments) /\ Len(path) > 0
  BY PathsAssumption, EmptySeq
<1> QED BY <1>1, <1>2

(* An artifact request is one of the ecosystem that its path names.        *)
LEMMA ArtifactOfEcosystem ==
    ASSUME NEW path \in Artifacts
    PROVE  /\ path \in Paths
           /\ path[1][1] \in {"npm", "pypi", "maven", "go"}
           /\ Pkg(path).eco = path[1][1]
           /\ path[1][1] = "npm" => NpmTarball(path) /\ Pkg(path) = NpmParse(path)
           /\ path[1][1] = "go" => GoArtifact(path) /\ Pkg(path) = GoParse(path)
<1>1. path \in Paths /\ Route(path) = "artifact"
  BY DEF Artifacts
<1>2. PICK eco \in Handlers : Is(path[1], eco)
  BY <1>1 DEF Route
<1>3. path[1][1] = eco /\ eco \in {"npm", "pypi", "maven", "go"}
  BY <1>2 DEF Is, Handlers
<1>4. IsArtifact(path[1][1], path)
  BY <1>1 DEF Route
<1> QED BY <1>1, <1>3, <1>4
           DEF Pkg, Parse, IsArtifact, NpmParse, PypiParse, MavenParse, GoParse

(* What stands between the name and the extension of a file determines it. *)
LEMMA FileOfVersion ==
    ASSUME NEW base \in Seq(STRING), NEW file \in Seq(STRING),
           IsPrefix(base, file), Len(file) > Len(base) + 1
    PROVE  file = base \o Front(Trim(file, base)) \o <<Last(file)>>
<1> DEFINE n == Len(base)  m == Len(file)
<1>1. n \in Nat /\ m \in Nat /\ n + 1 < m
  OBVIOUS
<1>2. base = SubSeq(file, 1, n)
  BY SubSeqFull DEF IsPrefix
<1>3. Front(Trim(file, base)) = SubSeq(file, n + 1, m - 1)
  <2>1. Trim(file, base) = SubSeq(file, n + 1, m)
    BY DEF Trim
  <2>2. Len(SubSeq(file, n + 1, m)) = m - n
    BY <1>1
  <2>3. SubSeq(SubSeq(file, n + 1, m), 1, m - n - 1) = SubSeq(file, n + 1, m - 1)
    BY <1>1, SubSeqOfSubSeq
  <2> QED BY <2>1, <2>2, <2>3 DEF Front
<1>4. base \o Front(Trim(file, base)) = SubSeq(file, 1, m - 1)
  BY <1>1, <1>2, <1>3, ConcatAdjacentSubSeq
<1>5. SubSeq(file, 1, m) = SubSeq(file, 1, m - 1) \o <<file[m]>>
  BY <1>1, SubSeqRecursiveSecond
<1> QED BY <1>4, <1>5, SubSeqFull DEF Last

(* Two URLs with one CacheKey name one upstream file, unless the handler   *)
(* fetches the path it was asked for; two files with one index key are of  *)
(* Maven or PyPI, or are not named as npm names them.                      *)
LEMMA FilesApart == KeysTellFilesApart
<1> SUFFICES ASSUME NEW a \in Artifacts, NEW b \in Artifacts
             PROVE  /\ CacheKey(Pkg(a)) = CacheKey(Pkg(b)) =>
                          \/ UpstreamURL(Pkg(a)) = UpstreamURL(Pkg(b))
                          \/ Pkg(a).eco \in {"pypi", "go"}
                    /\ Index(Pkg(a)) = Index(Pkg(b)) /\ Pkg(a).file # Pkg(b).file =>
                          \/ Pkg(a).eco \in {"maven", "pypi"}
                          \/ ~Canonical(Pkg(a)) \/ ~Canonical(Pkg(b))
  BY DEF KeysTellFilesApart
<1> DEFINE p == Pkg(a)  q == Pkg(b)
<1> HIDE DEF p, q
<1>1. p.eco \in {"npm", "pypi", "maven", "go"}
  BY ArtifactOfEcosystem DEF p
<1>2. ASSUME CacheKey(p) = CacheKey(q), p.eco \notin {"pypi", "go"}
      PROVE  UpstreamURL(p) = UpstreamURL(q)
  <2>1. p.eco = q.eco /\ p.name = q.name /\ p.version = q.version /\ p.file = q.file
    BY <1>2 DEF CacheKey
  <2>2. p.eco = "npm" \/ p.eco = "maven"
    BY <1>1, <1>2
  <2> QED BY <2>1, <2>2 DEF UpstreamURL
<1>3. ASSUME Index(p) = Index(q), p.eco \notin {"maven", "pypi"}, Canonical(p), Canonical(q)
      PROVE  p.file = q.file
  <2>1. p.eco = q.eco /\ p.name = q.name /\ p.version = q.version
    BY <1>3 DEF Index
  <2>2. CASE p.eco = "npm"
    <3> DEFINE base == Last(p.name)
    <3>1. ASSUME NEW path \in Artifacts, Pkg(path).eco = "npm", Canonical(Pkg(path))
          PROVE  LET pkg == Pkg(path)
                 IN  /\ Last(pkg.name) \in Seq(STRING)
                     /\ pkg.file = Last(pkg.name) \o pkg.version \o <<".tgz">>
      <4>1. path \in Paths /\ NpmTarball(path) /\ Pkg(path) = NpmParse(path)
        BY <3>1, ArtifactOfEcosystem
      <4>2. path \in Seq(Segments) /\ Len(path) > 3
        BY <4>1, SegmentsAreSequences DEF NpmTarball
      <4> DEFINE name == SubSeq(path, 2, Len(path) - 2)  file == Last(path)
      <4>3. file \in Seq(STRING) /\ Last(file) = ".tgz"
        BY <4>1, <4>2, SegmentsAreSequences DEF NpmTarball, Ends, Last
      <4>4. Last(name) \in Seq(STRING)
        <5>1. name \in Seq(Segments) /\ Len(name) = Len(path) - 3
          BY <4>2, SubSeqProperties
        <5> QED BY <4>2, <5>1, SegmentsAreSequences DEF Last
      <4>5. IsPrefix(Last(name), file) /\ Len(file) > Len(Last(name)) + 1
        BY <3>1, <4>1 DEF Canonical, NpmParse
      <4>6. extractNPMVersion(name, file) = Front(Trim(file, Last(name)))
        BY <4>5 DEF extractNPMVersion
      <4>7. file = Last(name) \o extractNPMVersion(name, file) \o <<".tgz">>
        BY <4>3, <4>4, <4>5, <4>6, FileOfVersion
      <4> QED BY <4>1, <4>4, <4>7 DEF NpmParse
    <3> QED BY <1>3, <2>1, <2>2, <3>1 DEF p, q
  <2>3. CASE p.eco = "go"
    <3>1. ASSUME NEW path \in Artifacts, Pkg(path).eco = "go"
          PROVE  Pkg(path).file = Pkg(path).version \o <<".zip">>
      <4>1. path \in Paths /\ GoArtifact(path) /\ Pkg(path) = GoParse(path)
        BY <3>1, ArtifactOfEcosystem
      <4> DEFINE file == Last(path)
      <4>2. file \in Seq(STRING) /\ Len(file) > 1 /\ file[Len(file)] = ".zip"
        BY <4>1, SegmentsAreSequences DEF GoArtifact, Ends, Last
      <4>3. file = SubSeq(file, 1, Len(file) - 1) \o <<".zip">>
        BY <4>2, SubSeqFull, SubSeqRecursiveSecond
      <4>4. Pkg(path).file = file /\ Pkg(path).version = Front(file)
        BY <4>1, SMT DEF GoParse
      <4> QED BY <4>3, <4>4 DEF Front
    <3> QED BY <2>1, <2>3, <3>1 DEF p, q
  <2> QED BY <1>1, <1>3, <2>2, <2>3
<1> QED BY <1>2, <1>3 DEF p, q

(* The router that run builds keeps files apart, whatever is asked for.    *)
THEOREM RouterAlwaysKeepsFilesApart == Spec => []RouterKeepsFilesApart
<1>1. RouterKeepsFilesApart
  BY FilesApart DEF RouterKeepsFilesApart
<1> QED BY <1>1, PTL

(* What a path that begins with the name of an ecosystem leaves behind it. *)
LEMMA Prefixed ==
    ASSUME NEW S, NEW seg, NEW rest \in Seq(S), Len(rest) > 0
    PROVE  LET path == <<seg>> \o rest
           IN  /\ Len(path) = Len(rest) + 1 /\ path[1] = seg
               /\ \A i \in 1..Len(rest) : path[i + 1] = rest[i]
               /\ Last(path) = Last(rest) /\ Tail(path) = rest
               /\ \A n \in 0..Len(rest) : SubSeq(path, 2, n + 1) = SubSeq(rest, 1, n)
<1> DEFINE path == <<seg>> \o rest  T == S \cup {seg}
<1>1. rest \in Seq(T) /\ <<seg>> \in Seq(T) /\ Len(<<seg>>) = 1 /\ <<seg>>[1] = seg
  BY SeqMonotonic
<1>2. /\ path \in Seq(T) /\ Len(path) = Len(rest) + 1 /\ path[1] = seg
      /\ \A i \in 1..Len(rest) : path[i + 1] = rest[i]
  BY <1>1, ConcatProperties
<1>3. Last(path) = Last(rest)
  BY <1>2 DEF Last
<1>4. ASSUME NEW n \in 0..Len(rest) PROVE SubSeq(path, 2, n + 1) = SubSeq(rest, 1, n)
  <2>1. /\ SubSeq(rest, 1, n) \in Seq(T) /\ Len(SubSeq(rest, 1, n)) = n
        /\ \A i \in 1..n : SubSeq(rest, 1, n)[i] = rest[i]
    BY <1>1, SubSeqProperties
  <2>2. /\ SubSeq(path, 2, n + 1) \in Seq(T) /\ Len(SubSeq(path, 2, n + 1)) = n
        /\ \A i \in 1..n : SubSeq(path, 2, n + 1)[i] = path[i + 1]
    BY <1>2, SubSeqProperties
  <2> QED BY <1>2, <2>1, <2>2, SeqEqual
<1>5. Tail(path) = rest
  <2>1. path # <<>>
    BY <1>2
  <2>2. Tail(path) = SubSeq(path, 2, Len(rest) + 1)
    BY <1>2, <2>1, TailIsSubSeq
  <2> QED BY <1>4, <2>2, SubSeqFull
<1> QED BY <1>2, <1>3, <1>4, <1>5

(* A tarball link comes back to the registry as it was.                    *)
LEMMA TarballsLeadBack ==
    ASSUME NEW link \in Links, "npm" \in Handlers, TarballLink(link)
    PROVE  /\ Rewritten(link)[1] = "proxy"
           /\ Route(Rewritten(link)[2]) # "unknown"
           /\ Upstream(Rewritten(link)[2]) = link
<1> DEFINE rest == link[2]  path == <<<<"npm">>>> \o rest  m == Len(rest)
<1>1. /\ link = <<"registry", rest>> /\ rest \in Seq(Segments) /\ m = Len(rest) /\ m \in Nat /\ m > 2
      /\ IsName(SubSeq(rest, 1, m - 2)) /\ rest[m - 1] = <<"-">> /\ Ends(Last(rest), ".tgz")
  BY LinksAssumption DEF TarballLink, Is
<1>2. Rewritten(link) = <<"proxy", path>>
  BY <1>1 DEF Rewritten
<1>3. /\ Len(path) = m + 1 /\ path[1] = <<"npm">> /\ path[m] = <<"-">>
      /\ Last(path) = Last(rest) /\ Tail(path) = rest
      /\ SubSeq(path, 2, m - 1) = SubSeq(rest, 1, m - 2)
  BY <1>1, Prefixed
<1> HIDE DEF rest, path, m
<1>4. Route(path) = "artifact"
  <2>1. ~IsMetadataRequest("npm", path)
    <3>1. ~IsName(rest)
      BY <1>1 DEF IsName
    <3>2. ~NpmManifest(path)
      BY <1>3, <3>1, Zenon DEF NpmManifest
    <3> QED BY <3>2 DEF IsMetadataRequest
  <2>2. IsArtifact("npm", path)
    <3>1. Len(path) - 2 = m - 1 /\ Len(path) - 1 = m /\ Len(path) > 3
      BY <1>1, <1>3
    <3>2. IsName(SubSeq(path, 2, Len(path) - 2))
      BY <1>1, <1>3, <3>1, Zenon
    <3>3. NpmTarball(path)
      BY <1>1, <1>3, <3>1, <3>2 DEF NpmTarball, Is
    <3> QED BY <3>3 DEF IsArtifact
  <2>3. path # <<<<"healthz">>>> /\ ~(Len(path) < 2) /\ path[1][1] = "npm"
    BY <1>1, <1>3
  <2>4. \E eco \in Handlers : Is(path[1], eco)
    BY <1>3 DEF Is
  <2> QED BY <2>1, <2>2, <2>3, <2>4 DEF Route
<1>5. Upstream(path) = <<"registry", SubSeq(rest, 1, m - 2) \o <<<<"-">>, Last(rest)>>>>
  <2>1. Upstream(path) = UpstreamURL(NpmParse(path))
    BY <1>3, <1>4 DEF Upstream, Parse
  <2>2. /\ NpmParse(path).eco = "npm" /\ NpmParse(path).file = Last(rest)
        /\ NpmParse(path).name = SubSeq(rest, 1, m - 2)
    BY <1>1, <1>3 DEF NpmParse
  <2> QED BY <2>1, <2>2 DEF UpstreamURL
<1>6. SubSeq(rest, 1, m - 2) \o <<<<"-">>, Last(rest)>> = rest
  <2> DEFINE name == SubSeq(rest, 1, m - 2)  end == <<rest[m - 1], rest[m]>>
  <2>1. name \in Seq(Segments) /\ Len(name) = m - 2 /\ \A i \in 1..(m - 2) : name[i] = rest[i]
    BY <1>1, SubSeqProperties
  <2>2. end \in Seq(Segments) /\ Len(end) = 2 /\ end[1] = rest[m - 1] /\ end[2] = rest[m]
    BY <1>1
  <2>3. /\ name \o end \in Seq(Segments) /\ Len(name \o end) = m
        /\ \A i \in 1..m : (name \o end)[i] = IF i <= m - 2 THEN name[i] ELSE end[i - (m - 2)]
    BY <1>1, <2>1, <2>2, ConcatProperties
  <2> HIDE DEF name, end
  <2>4. \A i \in 1..m : (name \o end)[i] = rest[i]
    <3>1. ASSUME NEW i \in 1..m PROVE (name \o end)[i] = rest[i]
      <4>1. CASE i \in 1..(m - 2)
        BY <1>1, <2>1, <2>3, <4>1
      <4>2. CASE i = m - 1
        <5>1. i \in 1..m /\ ~(i <= m - 2) /\ i - (m - 2) = 1
          BY <1>1, <4>2
        <5>2. (name \o end)[i] = end[i - (m - 2)]
          BY <2>3, <5>1
        <5> QED BY <2>2, <4>2, <5>1, <5>2
      <4>3. CASE i = m
        <5>1. i \in 1..m /\ ~(i <= m - 2) /\ i - (m - 2) = 2
          BY <1>1, <4>3
        <5>2. (name \o end)[i] = end[i - (m - 2)]
          BY <2>3, <5>1
        <5> QED BY <2>2, <4>3, <5>1, <5>2
      <4>4. i \in 1..(m - 2) \/ i = m - 1 \/ i = m
        BY <1>1
      <4> QED BY <4>1, <4>2, <4>3, <4>4
    <3> QED BY <3>1
  <2>5. name \o end = rest
    BY <1>1, <2>3, <2>4, SeqEqual
  <2>6. end = <<<<"-">>, Last(rest)>>
    BY <1>1 DEF Last, end
  <2> QED BY <2>5, <2>6 DEF name
<1>7. Upstream(path) = link
  BY <1>1, <1>5, <1>6, Zenon
<1>8. Rewritten(link)[1] = "proxy" /\ Rewritten(link)[2] = path
  BY <1>2
<1> QED BY <1>4, <1>7, <1>8

(* A file of PyPI, or the metadata of a wheel, is asked of the host that   *)
(* the link named.                                                         *)
LEMMA PypiFilesLeadBack ==
    ASSUME NEW link \in Links, "pypi" \in Handlers, FileLink(link),
           Last(Last(link[2])) \in PypiTypes \cup {".whl.metadata"}
    PROVE  /\ Rewritten(link)[1] = "proxy"
           /\ Route(Rewritten(link)[2]) # "unknown"
           /\ Upstream(Rewritten(link)[2]) = link
<1> DEFINE rest == link[2]  path == <<<<"pypi">>>> \o rest
<1>1. /\ link = <<"pythonhosted", rest>> /\ rest \in Seq(Segments) /\ Len(rest) = 5
      /\ rest[1] = <<"packages">> /\ Len(rest[5]) > 2 /\ Last(rest) = rest[5]
      /\ \A i \in 2..4 : rest[i] # Empty /\ rest[i] # <<"simple">>
  BY LinksAssumption DEF FileLink, Is, Last
<1>2. Rewritten(link) = <<"proxy", path>>
  BY <1>1 DEF Rewritten
<1>3. /\ Len(path) = 6 /\ path[1] = <<"pypi">> /\ path[2] = <<"packages">>
      /\ path[3] = rest[2] /\ path[4] = rest[3] /\ path[5] = rest[4] /\ path[6] = rest[5]
      /\ Last(path) = rest[5] /\ Tail(path) = rest
  <2>1. /\ Len(path) = Len(rest) + 1 /\ path[1] = <<"pypi">>
        /\ \A i \in 1..Len(rest) : path[i + 1] = rest[i]
        /\ Last(path) = Last(rest) /\ Tail(path) = rest
    <3>1. rest \in Seq(Segments) /\ Len(rest) > 0
      BY <1>1
    <3> QED BY <3>1, Prefixed
  <2>2. /\ path[1 + 1] = rest[1] /\ path[2 + 1] = rest[2] /\ path[3 + 1] = rest[3]
        /\ path[4 + 1] = rest[4] /\ path[5 + 1] = rest[5]
    BY <1>1, <2>1
  <2> QED BY <1>1, <2>1, <2>2
<1>4. path # <<<<"healthz">>>> /\ ~(Len(path) < 2) /\ path[1][1] = "pypi"
  BY <1>3
<1>5. \E eco \in Handlers : Is(path[1], eco)
  BY <1>3 DEF Is
<1>6. Rewritten(link)[1] = "proxy" /\ Rewritten(link)[2] = path
  BY <1>2
<1> HIDE DEF rest, path
<1>7. CASE Last(rest[5]) = ".whl.metadata"
  <2>1. IsMetadataRequest("pypi", path)
    BY <1>3, <1>7 DEF IsMetadataRequest, PypiMetadata, Has
  <2>2. Route(path) = "metadata"
    BY <1>4, <1>5, <2>1 DEF Route
  <2>3. Upstream(path) = <<"pythonhosted", rest>>
    BY <1>3, <1>4, <1>7, <2>2 DEF Upstream, MetadataUpstreamURL, Has
  <2>4. Upstream(path) = link
    BY <1>1, <2>3, Zenon
  <2> QED BY <1>6, <2>2, <2>4
<1>8. CASE Last(rest[5]) \in PypiTypes
  <2>1. ~IsMetadataRequest("pypi", path)
    BY <1>3, <1>8 DEF IsMetadataRequest, PypiMetadata, PypiTypes, Is, Has
  <2>2. PypiArtifact(path)
    <3>1. ASSUME NEW i \in 2..5 PROVE path[i] # <<"simple">>
      <4>1. i = 2 \/ i = 3 \/ i = 4 \/ i = 5
        OBVIOUS
      <4> QED BY <1>1, <1>3, <4>1
    <3>2. \A i \in 1..3 : path[6 - i] # Empty
      BY <1>1, <1>3
    <3> QED BY <1>1, <1>3, <1>8, <3>1, <3>2 DEF PypiArtifact, Is
  <2>3. Route(path) = "artifact"
    BY <1>4, <1>5, <2>1, <2>2 DEF Route, IsArtifact
  <2>4. Upstream(path) = <<"pythonhosted", <<<<"packages">>>> \o PypiParse(path).up>>
    <3>1. Upstream(path) = UpstreamURL(PypiParse(path))
      BY <1>4, <2>3 DEF Upstream, Parse
    <3>2. PypiParse(path).eco = "pypi"
      BY DEF PypiParse
    <3> QED BY <3>1, <3>2 DEF UpstreamURL
  <2>5. PypiParse(path).up = SubSeq(path, 3, 6)
    <3> DEFINE prefix == <<<<"pypi">>, <<"packages">>>>
    <3>1. PypiParse(path).up = Trim(path, prefix)
      BY DEF PypiParse
    <3>2. SubSeq(prefix, 1, 2) = SubSeq(path, 1, 2)
      BY <1>3
    <3> QED BY <1>3, <3>1, <3>2 DEF Trim, IsPrefix
  <2>6. <<<<"packages">>>> \o SubSeq(path, 3, 6) = rest
    <3>1. SubSeq(path, 3, 6) = SubSeq(rest, 2, 5)
      <4>1. /\ SubSeq(rest, 2, 5) \in Seq(Segments) /\ Len(SubSeq(rest, 2, 5)) = 4
            /\ \A i \in 1..4 : SubSeq(rest, 2, 5)[i] = rest[i + 1]
        BY <1>1, SubSeqProperties
      <4>2. \A i \in 3..6 : path[i] \in Segments
        <5>1. \A i \in 1..Len(rest) : rest[i] \in Segments
          BY <1>1, ElementOfSeq
        <5>2. \A i \in 3..6 : i = 3 \/ i = 4 \/ i = 5 \/ i = 6
          OBVIOUS
        <5>3. rest[2] \in Segments /\ rest[3] \in Segments /\ rest[4] \in Segments /\ rest[5] \in Segments
          BY <1>1, <5>1
        <5> QED BY <1>3, <5>2, <5>3
      <4>3. /\ SubSeq(path, 3, 6) \in Seq(Segments) /\ Len(SubSeq(path, 3, 6)) = 4
            /\ \A i \in 1..4 : SubSeq(path, 3, 6)[i] = path[i + 2]
        BY <4>2, SubSeqProperties
      <4>4. \A i \in 1..4 : SubSeq(path, 3, 6)[i] = SubSeq(rest, 2, 5)[i]
        BY <1>1, <1>3, <4>1, <4>3
      <4> QED BY <4>1, <4>3, <4>4, SeqEqual
    <3>2. SubSeq(rest, 1, 5) = <<rest[1]>> \o SubSeq(rest, 2, 5)
      BY <1>1, SubSeqRecursiveFirst
    <3>3. SubSeq(rest, 1, 5) = rest
      BY <1>1, SubSeqFull
    <3> QED BY <1>1, <3>1, <3>2, <3>3
  <2>7. Upstream(path) = link
    BY <1>1, <2>4, <2>5, <2>6, Zenon
  <2> QED BY <1>6, <2>3, <2>7
<1> QED BY <1>1, <1>7, <1>8

(* Whatever npm and PyPI publish, a rewritten link of an enabled ecosystem *)
(* leads to what it named.                                                 *)
THEOREM RouterAlwaysLeadsBack == Spec => []RouterLeadsBack
<1>1. LinksLeadBack
  BY TarballsLeadBack, PypiFilesLeadBack DEF LinksLeadBack, Handles
<1>2. RouterLeadsBack
  BY <1>1 DEF RouterLeadsBack
<1> QED BY <1>2, PTL

(* The checker that run builds blocks for cause, whatever OSV knows.       *)
THEOREM CheckerAlwaysBlocksForCause == Spec => []CheckerBlocksForCause
<1>1. CheckerBlocksForCause
  BY CheckBlocksForCause DEF CheckerBlocksForCause
<1> QED BY <1>1, PTL
=============================================================================
