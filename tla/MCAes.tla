------------------------------- MODULE MCAes --------------------------------
(* One transport, three calls of Query, three faults.                      *)
EXTENDS Aes
=============================================================================
