---------------------------- MODULE SharedFetch -----------------------------
(***************************************************************************)
(* What Group.Do (internal/singleflight) promises, with no call table, no  *)
(* lock and no wait group.  A caller either begins a fetch of its key,     *)
(* when none runs, or attaches to a fetch of its key whose outcome has not *)
(* been handed to the caller that began it; it is answered with the        *)
(* outcome of the fetch it is attached to.  A fetch is named by the caller *)
(* that began it.                                                          *)
(***************************************************************************)
CONSTANTS Callers, Keys, Results, None

VARIABLES
    key,        \* the key each caller asks for; never changes
    fetching,   \* the fetch running for each key
    outcome,    \* the outcome of each fetch that ended
    attached,   \* the fetch each caller is attached to
    answer      \* what each caller was answered

vars == <<key, fetching, outcome, attached, answer>>

Init ==
    /\ key \in [Callers -> Keys]
    /\ fetching = [k \in Keys |-> None]
    /\ outcome = [c \in Callers |-> None]
    /\ attached = [c \in Callers |-> None]
    /\ answer = [c \in Callers |-> None]

Begin(c) ==
    /\ attached[c] = None
    /\ fetching[key[c]] = None
    /\ fetching' = [fetching EXCEPT ![key[c]] = c]
    /\ attached' = [attached EXCEPT ![c] = c]
    /\ UNCHANGED <<key, outcome, answer>>

Attach(c, f) ==
    /\ attached[c] = None
    /\ attached[f] = f
    /\ key[f] = key[c]
    /\ answer[f] = None
    /\ attached' = [attached EXCEPT ![c] = f]
    /\ UNCHANGED <<key, fetching, outcome, answer>>

End(c, r) ==
    /\ fetching[key[c]] = c
    /\ fetching' = [fetching EXCEPT ![key[c]] = None]
    /\ outcome' = [outcome EXCEPT ![c] = r]
    /\ UNCHANGED <<key, attached, answer>>

Answer(c) ==
    /\ answer[c] = None
    /\ attached[c] # None
    /\ outcome[attached[c]] # None
    /\ answer' = [answer EXCEPT ![c] = outcome[attached[c]]]
    /\ UNCHANGED <<key, fetching, outcome, attached>>

Next ==
    \E c \in Callers :
        \/ Begin(c)
        \/ \E f \in Callers : Attach(c, f)
        \/ \E r \in Results : End(c, r)
        \/ Answer(c)

Spec == Init /\ [][Next]_vars
=============================================================================
