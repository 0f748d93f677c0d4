------------------------------ MODULE MCMigrate ------------------------------
(* Migrate on small instances, whose sets the configurations give.         *)
EXTENDS Migrate, TLC
=============================================================================
