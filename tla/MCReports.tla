------------------------------ MODULE MCReports ------------------------------
(* Reports on a small table: three versions of one package, one of two     *)
(* others.                                                                 *)
EXTENDS Reports

MCPackages == {[name |-> "a", version |-> v] : v \in 1..3}
                \cup {[name |-> n, version |-> 1] : n \in {"b", "c"}}
MCParams == {None, 0, 2, 7}
=============================================================================
