--------------------------- MODULE MCDurableStore ---------------------------
(* Model-checking instance of DurableStore; the values are in the cfgs. *)
EXTENDS DurableStore
=============================================================================
