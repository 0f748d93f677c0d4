--------------------------- MODULE MCLocalStorage ---------------------------
(* LocalStorage on small instances.                                        *)
EXTENDS LocalStorage
=============================================================================
