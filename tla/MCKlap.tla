------------------------------- MODULE MCKlap -------------------------------
(* One transport, three calls of Query, a device that can be bound to a    *)
(* login the transport offers or to one it does not.                       *)
EXTENDS Klap
=============================================================================
