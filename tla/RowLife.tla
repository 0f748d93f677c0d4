------------------------------ MODULE RowLife ------------------------------
(***************************************************************************)
(* What the rest of the program may assume of the packages table when it   *)
(* forgets the times in it: a row is idle or not.  A new row is not idle,  *)
(* a touch makes a row not idle, writing over a row does not change it,    *)
(* and the eviction worker deletes only rows that were cached and idle     *)
(* when its cycle listed them.  Expiry has the times that provide this,    *)
(* CacheProxy all the rest that the table goes through; each implements    *)
(* RowLife.                                                                *)
(***************************************************************************)
CONSTANTS Packages, None

VARIABLES
    rows,       \* package -> [status, use], or None
    listed      \* packages the eviction cycle at work has still to delete

vars == <<rows, listed>>

Statuses == {"cached", "blocked"}
Present == {p \in Packages : rows[p] # None}

Init ==
    /\ rows = [p \in Packages |-> None]
    /\ listed = {}

Write(p, status) ==
    /\ rows' = [rows EXCEPT ![p] =
                    [status |-> status, use |-> IF rows[p] = None THEN "fresh" ELSE rows[p].use]]
    /\ UNCHANGED listed

Touch(p) ==
    /\ p \in Present
    /\ rows' = [rows EXCEPT ![p].use = "fresh"]
    /\ UNCHANGED listed

Age(old) ==
    /\ rows' = [p \in Packages |-> IF p \in old THEN [rows[p] EXCEPT !.use = "idle"]
                                   ELSE rows[p]]
    /\ UNCHANGED listed

List ==
    /\ listed = {}
    /\ listed' = {p \in Present : rows[p].status = "cached" /\ rows[p].use = "idle"}
    /\ UNCHANGED rows

Delete(p) ==
    /\ p \in listed
    /\ rows' = [rows EXCEPT ![p] = None]
    /\ listed' = listed \ {p}

\* A package whose eviction fails waits for another cycle, as those do that a
\* restart cuts off.
PassOver(left) ==
    /\ listed' = left
    /\ UNCHANGED rows

Next ==
    \/ \E p \in Packages : Touch(p) \/ Delete(p) \/ \E s \in Statuses : Write(p, s)
    \/ \E old \in SUBSET Present : Age(old)
    \/ List
    \/ \E left \in SUBSET listed : PassOver(left)

Spec == Init /\ [][Next]_vars
=============================================================================
