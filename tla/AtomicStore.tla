---------------------------- MODULE AtomicStore -----------------------------
(***************************************************************************)
(* What the proxy expects of a storage.StorageBackend, for one artifact:   *)
(* it is there or it is not.  A Put makes it appear as a whole, a Get that *)
(* finds it reads all of it, even when it is deleted meanwhile, and a Put  *)
(* that fails changes nothing.                                             *)
(***************************************************************************)
CONSTANTS Writers, Readers, None

VARIABLES
    present,    \* whether the artifact is stored
    put,        \* what each Put returned
    holding,    \* readers that have found the artifact
    got         \* what each reader got in the end

vars == <<present, put, holding, got>>

Init ==
    /\ present = FALSE
    /\ put = [w \in Writers |-> None]
    /\ holding = {}
    /\ got = [r \in Readers |-> None]

Put(w) ==
    /\ put[w] = None
    /\ present' = TRUE
    /\ put' = [put EXCEPT ![w] = "ok"]
    /\ UNCHANGED <<holding, got>>

PutFails(w) ==
    /\ put[w] = None
    /\ put' = [put EXCEPT ![w] = "error"]
    /\ UNCHANGED <<present, holding, got>>

Find(r) ==
    /\ present
    /\ got[r] = None
    /\ holding' = holding \cup {r}
    /\ UNCHANGED <<present, put, got>>

Miss(r) ==
    /\ ~present
    /\ got[r] = None
    /\ got' = [got EXCEPT ![r] = "missing"]
    /\ UNCHANGED <<present, put, holding>>

ReadAll(r) ==
    /\ r \in holding
    /\ holding' = holding \ {r}
    /\ got' = [got EXCEPT ![r] = "whole"]
    /\ UNCHANGED <<present, put>>

Delete ==
    /\ present' = FALSE
    /\ UNCHANGED <<put, holding, got>>

\* The process that serves the calls dies; what is stored stays.
Die ==
    /\ put' \in [Writers -> {None, "ok", "error"}]
    /\ \A w \in Writers : put'[w] # put[w] => put[w] = None /\ put'[w] = "error"
    /\ holding' = {}
    /\ got' = [r \in Readers |-> IF r \in holding THEN "lost" ELSE got[r]]
    /\ UNCHANGED present

Next ==
    \/ \E w \in Writers : Put(w) \/ PutFails(w)
    \/ \E r \in Readers : Find(r) \/ Miss(r) \/ ReadAll(r)
    \/ Delete
    \/ Die

Spec == Init /\ [][Next]_vars
=============================================================================
