--------------------------- MODULE MCSingleflight ---------------------------
(* Singleflight on a small instance.                                       *)
EXTENDS Singleflight
=============================================================================
