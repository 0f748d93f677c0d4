------------------------------- MODULE Rules -------------------------------
(***************************************************************************)
(* The security check of a package version (internal/security): what OSV   *)
(* answers becomes a list of CVE records (scanner.go), the records become  *)
(* an outcome (policy.go), and a check that is off or fails lets the       *)
(* package through (checker.go).  CacheProxy has what the proxy does with  *)
(* the outcome.                                                            *)
(*                                                                         *)
(* A vulnerability of the answer is a record:                              *)
(*    ID       "GO" for an entry of the Go database, "other"               *)
(*    stated   database_specific.severity, or Nil if it is no string      *)
(*    impacts  the C, I and A metrics of the first severity entry whose    *)
(*             type begins with CVSS, or Nil if there is no such entry; a *)
(*             value that is neither H nor L, or a metric that the version *)
(*             of CVSS does not have, is "N"                               *)
(*                                                                         *)
(* Definitions whose comment begins with "Mutant" are no part of the       *)
(* model: each is a form that the definition below it could have taken by  *)
(* a mistake in the code, and breaks a property that a run checks.         *)
(***************************************************************************)
EXTENDS Integers, FiniteSets

CONSTANTS
    Known,      \* the vulnerabilities that OSV may answer with
    Nil         \* an absent field

Unknown == 0
Low == 1
Medium == 2
High == 3
Critical == 4
Severities == Unknown..Critical

\* Strings that ParseSeverity tells apart, in any case; "other" is the rest.
Words == {"CRITICAL", "HIGH", "MEDIUM", "MODERATE", "LOW", "NONE", "other"}

ParseSeverity(s) ==
    CASE s = "CRITICAL" -> Critical
      [] s = "HIGH" -> High
      [] s \in {"MEDIUM", "MODERATE"} -> Medium
      [] s = "LOW" -> Low
      [] OTHER -> Unknown

Metrics == {"C", "I", "A"}
Impacts == [Metrics -> {"H", "L", "N"}]
Vulns == [ID : {"GO", "other"}, stated : Words \cup {Nil}, impacts : Impacts \cup {Nil}]

ASSUME KnownAssumption == Known \subseteq Vulns
ASSUME NilAssumption == Nil \notin Words

severityFromCVSSVector(impacts) ==
    LET high == {m \in Metrics : impacts[m] = "H"}
    IN  CASE \E m, n \in high : m # n -> Critical
          [] \E m \in Metrics : high = {m} -> High
          [] high = {} /\ \E m \in Metrics : impacts[m] = "L" -> Medium
          [] OTHER -> Low

-----------------------------------------------------------------------------
\* The severity of the record made from a vulnerability.
Severity(v) ==
    IF v.stated # Nil THEN ParseSeverity(v.stated)
    ELSE IF v.impacts # Nil THEN severityFromCVSSVector(v.impacts)
    ELSE Unknown

\* Mutant: every entry of the Go database is dropped as a duplicate.
DroppedIfGo(v) == v.stated = "NONE" \/ v.ID = "GO"

\* No record is made of it.
Dropped(v) == v.stated = "NONE" \/ (Severity(v) = Unknown /\ v.ID = "GO")

Scan(answer) == {v \in answer : ~Dropped(v)}

(* Policy.Evaluate, for the severities of the records.  Its loop starts    *)
(* from Unknown.                                                           *)
MaxSeverity(records) ==
    CHOOSE s \in Severities :
        /\ s = Unknown \/ \E v \in records : Severity(v) = s
        /\ \A v \in records : Severity(v) <= s

Evaluate(policy, records) ==
    IF records = {} THEN "allow"
    ELSE IF policy.blockAt > Unknown /\ MaxSeverity(records) >= policy.blockAt THEN "block"
    ELSE IF policy.warnAt > Unknown /\ MaxSeverity(records) >= policy.warnAt THEN "warn"
    ELSE "allow"

NewPolicy(blockSeverity, warnSeverity) ==
    [blockAt |-> ParseSeverity(blockSeverity), warnAt |-> ParseSeverity(warnSeverity)]

(* Checker.Check; answered says whether OSV could be asked and understood. *)
Check(enabled, answered, policy, answer) ==
    IF enabled /\ answered THEN Evaluate(policy, Scan(answer)) ELSE "allow"

Rank(outcome) == CASE outcome = "allow" -> 0 [] outcome = "warn" -> 1 [] OTHER -> 2
Policies == {NewPolicy(blockSeverity, warnSeverity) : blockSeverity, warnSeverity \in Words}

-----------------------------------------------------------------------------
(* A package is blocked exactly if the check is on, OSV answered, and one  *)
(* vulnerability in the answer is at least as severe as a block threshold  *)
(* that is set: the records the scan drops never make a difference, and    *)
(* neither does the warn threshold (checker.go:21-32, policy.go:18-37,     *)
(* scanner.go:135-162).                                                    *)
BlocksForCause ==
    \A enabled, answered \in BOOLEAN, policy \in Policies, answer \in SUBSET Known :
        Check(enabled, answered, policy, answer) = "block" <=>
            /\ enabled /\ answered /\ policy.blockAt > Unknown
            /\ \E v \in answer : Severity(v) >= policy.blockAt

(* A vulnerability more never makes the outcome milder.                    *)
NeverMilder ==
    \A policy \in Policies, more \in SUBSET Known : \A answer \in SUBSET more :
        Rank(Check(TRUE, TRUE, policy, answer)) <= Rank(Check(TRUE, TRUE, policy, more))
=============================================================================
