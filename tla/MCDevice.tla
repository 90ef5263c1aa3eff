------------------------------ MODULE MCDevice ------------------------------
(* A device with two possible names and a two-second timeout.              *)
EXTENDS Device
=============================================================================
