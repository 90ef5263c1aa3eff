----------------------------- MODULE MCDialects -----------------------------
(* One device of any kind, three faults, strips of two outlets.            *)
EXTENDS Dialects
=============================================================================
