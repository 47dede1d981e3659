---------------------------- MODULE MCHandleTable ----------------------------
(* Two slots, three cycles each, so that reuse and retirement both happen. *)
EXTENDS HandleTableSpec
=============================================================================
