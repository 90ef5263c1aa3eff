--------------------------------- MODULE Xor ---------------------------------
(***************************************************************************)
(* The legacy protocol of kasa/xor.go: the autokey cipher and what Query   *)
(* makes of the bytes that come back.  A byte is the set of its bits, so   *)
(* that ^ is the symmetric difference.                                     *)
(***************************************************************************)
EXTENDS Naturals, Sequences

CONSTANTS
    Bits,           \* the bits of a byte
    xorKey,         \* the byte the cipher starts from
    xorMaxPayload   \* the longest body Query accepts

ASSUME XorAssumption ==
    /\ xorKey \in SUBSET Bits
    /\ xorMaxPayload \in Nat

Byte == SUBSET Bits
Xor(a, b) == (a \ b) \cup (b \ a)

(* Each byte is combined with the cipher byte before it.                   *)
xorEncrypt(plain) ==
    LET key[i \in 0 .. Len(plain)] ==
            IF i = 0 THEN xorKey ELSE Xor(plain[i], key[i - 1])
    IN  [i \in 1 .. Len(plain) |-> key[i]]

(* ... and each cipher byte is the key of the next.                        *)
xorDecrypt(cipher) ==
    [i \in 1 .. Len(cipher) |-> Xor(cipher[i], IF i = 1 THEN xorKey ELSE cipher[i - 1])]

(* What arrives on the connection of a query before it is closed or the    *)
(* deadline passes: whether the length is complete, the length it          *)
(* declares, and the bytes that follow.                                    *)
Stream(complete, length, body) ==
    [complete |-> complete, length |-> length, body |-> body]

(* The nil body that goes with an error.                                   *)
NoAnswer == <<>>

(* Fault: what has arrived is taken for all there is.                      *)
ReadAnswerShort(stream) ==
    IF \/ ~stream.complete
       \/ stream.length = 0
       \/ stream.length > xorMaxPayload
       \/ stream.body = <<>>
    THEN NoAnswer
    ELSE xorDecrypt(stream.body)

(* Query reads the length, refuses none and too much, and reads the body   *)
(* in full.                                                                *)
ReadAnswer(stream) ==
    IF \/ ~stream.complete
       \/ stream.length = 0
       \/ stream.length > xorMaxPayload
       \/ Len(stream.body) < stream.length
    THEN NoAnswer
    ELSE xorDecrypt(SubSeq(stream.body, 1, stream.length))

=============================================================================
