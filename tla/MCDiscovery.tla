----------------------------- MODULE MCDiscovery -----------------------------
(* Two devices, two packets, bytes of one bit.                             *)
EXTENDS Discovery

MCAnswers == UNION {[1 .. n -> Byte] : n \in 1 .. xorMaxPayload}
=============================================================================
