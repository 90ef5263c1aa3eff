--------------------------- MODULE DiscoveryProofs ---------------------------
(***************************************************************************)
(* Proofs about Xor and Discovery: that the autokey cipher loses nothing   *)
(* in either direction, for texts of any length; that what a sweep records *)
(* does not depend on the order of the replies; that it misses a device    *)
(* only when every probe or reply came to nothing; and that a query        *)
(* returns the whole answer or none.                                       *)
(***************************************************************************)
EXTENDS Discovery, WellFoundedInduction, TLAPS

-----------------------------------------------------------------------------
(* Induction on the length of a text: a set of numbers has a least member, *)
(* so a property that fails somewhere fails for the first time somewhere.  *)

(* The order of the numbers is contained in a well-founded relation.       *)
LEMMA LessThan ==
  \E R : IsWellFoundedOn(R, Nat) /\ \A a, b \in Nat : a < b => <<a, b>> \in R
<1> DEFINE R == OpToRel(<, Nat)
<1>1. IsWellFoundedOn(R, Nat)
  BY NatLessThanWellFounded
<1>2. \A a, b \in Nat : a < b => <<a, b>> \in R
  BY DEF OpToRel
<1> HIDE DEF R
<1> QED  BY <1>1, <1>2

(* Every set of numbers that is not empty has a least member.              *)
LEMMA Least ==
  ASSUME NEW S \in SUBSET Nat, S # {}
  PROVE  \E m \in S : \A k \in S : m <= k
<1>1. PICK R : IsWellFoundedOn(R, Nat) /\ \A a, b \in Nat : a < b => <<a, b>> \in R
  BY LessThan
<1>2. IsWellFoundedOn(R, Nat) /\ S \subseteq Nat
  BY <1>1
<1>3. PICK m \in S : \A k \in S : ~(<<k, m>> \in R)
  BY <1>2, WFMin, Zenon
<1>4. \A k \in S : ~(k < m)
  BY <1>1, <1>3
<1> QED  BY <1>4

-----------------------------------------------------------------------------
(* The autokey cipher.                                                     *)

(* Combining a byte twice with the same key gives it back.                 *)
LEMMA XorTwice == \A a, b : Xor(Xor(a, b), b) = a
BY DEF Xor

(* The bytes the first n of p are combined with, xorKey before the first.  *)
KeyStream(p, n, f) ==
    f = [i \in 0 .. n |-> IF i = 0 THEN xorKey ELSE Xor(p[i], f[i - 1])]

(* There is a key stream for as many bytes as one likes.                   *)
LEMMA KeyStreamExists ==
  ASSUME NEW p, NEW n \in Nat
  PROVE  \E f : KeyStream(p, n, f)
<1> DEFINE S == {m \in Nat : ~\E f : KeyStream(p, m, f)}
<1> SUFFICES ASSUME S # {} PROVE FALSE
  OBVIOUS
<1>1. PICK m \in S : \A k \in S : m <= k
  BY Least
<1>2. m # 0
  <2> SUFFICES KeyStream(p, 0, [i \in 0 .. 0 |-> xorKey])
    OBVIOUS
  <2> QED  BY DEF KeyStream
<1>3. PICK f : KeyStream(p, m - 1, f)
  BY <1>1, <1>2
<1> DEFINE g == [i \in 0 .. m |-> IF i < m THEN f[i] ELSE Xor(p[m], f[m - 1])]
<1>4. ASSUME NEW i \in 0 .. m
      PROVE  g[i] = IF i = 0 THEN xorKey ELSE Xor(p[i], g[i - 1])
  BY <1>2, <1>3 DEF KeyStream
<1>5. KeyStream(p, m, g)
  <2> DEFINE rhs == [i \in 0 .. m |-> IF i = 0 THEN xorKey ELSE Xor(p[i], g[i - 1])]
  <2>1. g = [i \in 0 .. m |-> g[i]]
    OBVIOUS
  <2> HIDE DEF g
  <2>2. g = rhs
    BY <1>4, <2>1
  <2> QED  BY <2>2 DEF KeyStream
<1> QED  BY <1>1, <1>5

(* What xorEncrypt returns, by the key stream it builds.                   *)
LEMMA Encrypted ==
  ASSUME NEW p \in Seq(Byte)
  PROVE  \E f : /\ KeyStream(p, Len(p), f)
                /\ xorEncrypt(p) = [i \in 1 .. Len(p) |-> f[i]]
<1>0. Len(p) \in Nat
  OBVIOUS
<1>1. PICK f : KeyStream(p, Len(p), f)
  BY <1>0, KeyStreamExists
<1> DEFINE k == CHOOSE g : KeyStream(p, Len(p), g)
<1>2. KeyStream(p, Len(p), k)
  BY <1>1
<1>3. xorEncrypt(p) = [i \in 1 .. Len(p) |-> k[i]]
  BY DEF xorEncrypt, KeyStream
<1> QED  BY <1>2, <1>3

(* xorEncrypt keeps the length, and xorDecrypt undoes it: what a device    *)
(* deciphers is what was sent, whatever it is and however long.            *)
THEOREM Deciphers ==
  ASSUME NEW p \in Seq(Byte)
  PROVE  /\ xorEncrypt(p) \in Seq(Byte)
         /\ Len(xorEncrypt(p)) = Len(p)
         /\ xorDecrypt(xorEncrypt(p)) = p
<1>1. PICK f : KeyStream(p, Len(p), f) /\ xorEncrypt(p) = [i \in 1 .. Len(p) |-> f[i]]
  BY Encrypted
<1>0. Len(p) \in Nat
  OBVIOUS
<1>f. /\ f[0] = xorKey
      /\ \A i \in 1 .. Len(p) : f[i] = Xor(p[i], f[i - 1])
  BY <1>0, <1>1 DEF KeyStream
<1>2. \A i \in 0 .. Len(p) : f[i] \in Byte
  <2> DEFINE S == {m \in Nat : m <= Len(p) /\ f[m] \notin Byte}
  <2> SUFFICES ASSUME S # {} PROVE FALSE
    BY <1>0
  <2>1. PICK m \in S : \A k \in S : m <= k
    BY Least
  <2>2. m # 0
    BY <1>f, XorAssumption DEF Byte
  <2>3. f[m - 1] \in Byte /\ f[m] = Xor(p[m], f[m - 1]) /\ p[m] \in Byte
    BY <1>0, <1>f, <2>1, <2>2
  <2> QED  BY <2>1, <2>3 DEF Xor, Byte
<1>3. xorEncrypt(p) \in Seq(Byte) /\ Len(xorEncrypt(p)) = Len(p)
  BY <1>0, <1>1, <1>2
<1>4. ASSUME NEW i \in 1 .. Len(p) PROVE xorDecrypt(xorEncrypt(p))[i] = p[i]
  <2>1. xorDecrypt(xorEncrypt(p))[i] = Xor(f[i], IF i = 1 THEN xorKey ELSE f[i - 1])
    BY <1>0, <1>1, <1>3 DEF xorDecrypt
  <2>2. xorDecrypt(xorEncrypt(p))[i] = Xor(Xor(p[i], f[i - 1]), f[i - 1])
    BY <2>1, <1>f
  <2> QED  BY <2>2, XorTwice
<1>5. xorDecrypt(xorEncrypt(p)) = [i \in 1 .. Len(p) |-> xorDecrypt(xorEncrypt(p))[i]]
  BY <1>3 DEF xorDecrypt
<1>6. xorDecrypt(xorEncrypt(p)) = p
  BY <1>4, <1>5
<1> QED  BY <1>3, <1>6

(* ... and xorEncrypt undoes xorDecrypt: no two ciphertexts have the same  *)
(* text, so nothing of an answer is lost by deciphering it.                *)
THEOREM Enciphers ==
  ASSUME NEW c \in Seq(Byte)
  PROVE  xorEncrypt(xorDecrypt(c)) = c
<1> DEFINE d == xorDecrypt(c)
<1>0. Len(c) \in Nat
  OBVIOUS
<1>1. \A i \in 1 .. Len(c) : d[i] = Xor(c[i], IF i = 1 THEN xorKey ELSE c[i - 1])
  BY <1>0 DEF xorDecrypt
<1>2. \A i \in 1 .. Len(c) : d[i] \in Byte
  <2> SUFFICES ASSUME NEW i \in 1 .. Len(c) PROVE d[i] \in Byte
    OBVIOUS
  <2>1. c[i] \in Byte /\ (IF i = 1 THEN xorKey ELSE c[i - 1]) \in Byte
    BY <1>0, XorAssumption DEF Byte
  <2> QED  BY <1>1, <2>1 DEF Xor, Byte
<1>3. d \in Seq(Byte) /\ Len(d) = Len(c)
  BY <1>0, <1>2 DEF xorDecrypt
<1> HIDE DEF d
<1>4. PICK f : KeyStream(d, Len(c), f) /\ xorEncrypt(d) = [i \in 1 .. Len(c) |-> f[i]]
  BY <1>3, Encrypted
<1>f. /\ f[0] = xorKey
      /\ \A i \in 1 .. Len(c) : f[i] = Xor(d[i], f[i - 1])
  BY <1>0, <1>4 DEF KeyStream
<1>5. \A i \in 1 .. Len(c) : f[i] = c[i]
  <2> DEFINE S == {m \in Nat : 1 <= m /\ m <= Len(c) /\ f[m] # c[m]}
  <2> SUFFICES ASSUME S # {} PROVE FALSE
    BY <1>0
  <2>1. PICK m \in S : \A k \in S : m <= k
    BY Least
  <2>2. f[m - 1] = IF m = 1 THEN xorKey ELSE c[m - 1]
    BY <1>0, <1>f, <2>1
  <2>3. f[m] = Xor(Xor(c[m], f[m - 1]), f[m - 1])
    BY <1>0, <1>1, <1>f, <2>1, <2>2
  <2> QED  BY <2>1, <2>3, XorTwice
<1>6. xorEncrypt(d) = [i \in 1 .. Len(c) |-> c[i]]
  BY <1>4, <1>5
<1> QED  BY <1>6 DEF d

-----------------------------------------------------------------------------
(* Replies and what is made of them.                                       *)

(* The texts of the legacy probe and of its reply can be enciphered.       *)
LEMMA ProbeText == Request \in Seq(Byte) /\ Sysinfo \in Seq(Byte)
BY XorAssumption DEF Request, Sysinfo, Byte

(* What is parsed out of any datagram is a scheme or nothing, and from the *)
(* legacy port nothing but XOR; a reply is never nothing.                  *)
LEMMA Parsed ==
  ASSUME firmware \in [Hosts -> Firmwares], NEW h \in Hosts
  PROVE  /\ \A data : parseDiscoveryReply("iot", data) \in {None, "XOR"}
         /\ \A data : parseDiscoveryReply("other", data) = None
         /\ \A data \in Unusable : parseDiscoveryReply("smart", data) = None
         /\ parseDiscoveryReply("iot", Datagram(h, "iot")) = "XOR"
         /\ parseDiscoveryReply("smart", Datagram(h, "smart")) =
              IF firmware[h].smart = None THEN None
              ELSE IF firmware[h].smart = "AES" THEN "AES" ELSE "KLAP"
<1>4. /\ Unstated \notin Unusable /\ Unstated # None /\ Unstated # "AES"
  BY Zenon DEF Unstated, Unusable, None
<1>1. /\ \A data : parseDiscoveryReply("iot", data) \in {None, "XOR"}
      /\ \A data : parseDiscoveryReply("other", data) = None
  BY DEF parseDiscoveryReply, parseIOTDiscovery
<1>U. ASSUME NEW data \in Unusable PROVE parseDiscoveryReply("smart", data) = None
  <2>1. data \notin {Unstated, "klap"}
    BY <1>4 DEF Unusable
  <2>2. parseSMARTDiscovery(data) = None
    BY <2>1 DEF parseSMARTDiscovery
  <2> QED  BY <2>2 DEF parseDiscoveryReply
<1>2. parseDiscoveryReply("iot", Datagram(h, "iot")) = "XOR"
  BY ProbeText, Deciphers DEF parseDiscoveryReply, parseIOTDiscovery, Datagram
<1>3. firmware[h].smart \in {Unstated, "klap", "AES", None}
  BY DEF Firmwares, Schemes, None
<1>5. parseDiscoveryReply("smart", Datagram(h, "smart")) =
        parseSMARTDiscovery(firmware[h].smart)
  BY DEF parseDiscoveryReply, Datagram
<1>6. parseSMARTDiscovery(firmware[h].smart) =
        IF firmware[h].smart = None THEN None
        ELSE IF firmware[h].smart = "AES" THEN "AES" ELSE "KLAP"
  BY <1>3, <1>4 DEF parseSMARTDiscovery, Unusable, None
<1> QED  BY <1>1, <1>U, <1>2, <1>5, <1>6

-----------------------------------------------------------------------------
(* The invariant.                                                          *)

(* Where a sweep is: no probe is counted between sweeps, and it listens    *)
(* only when all of them were sent.                                        *)
Progress ==
    /\ pc = "idle" => sent = 0 /\ ~sendErr
    /\ pc \in {"collect", "done"} => sent = 2 * Repeats /\ ~sendErr
    /\ pc = "done" => net = NoReplies

(* As long as every probe could be sent, each one that a device it was     *)
(* sent to listens for is on its way as a reply, lost, or has been used.   *)
Accounted ==
    ~sendErr =>
        \A h \in Reached : \A k \in 1 .. sent :
            Hears(h, Port(k)) => k \in net[h] \cup lost[h] \/ found[h] # None

IndInv == TypeOK /\ MostSpecificWins /\ Progress /\ Accounted /\ AnswerWhole

(* A sweep sends each probe at least once and at most Packets times.       *)
LEMMA FewerRepeats == TypeOK => Repeats \in 1 .. Packets /\ Reached \subseteq Hosts
BY DiscoveryAssumption DEF TypeOK, Repeats, Reached

(* The invariant holds before the first sweep.                             *)
LEMMA InitIndInv == Init => IndInv
<1> SUFFICES ASSUME Init PROVE IndInv
  OBVIOUS
<1>0. sendErr \in BOOLEAN
  BY DEF Init
<1>1. TypeOK
  BY <1>0, DiscoveryAssumption DEF Init, TypeOK, NoReplies
<1>2. MostSpecificWins
  BY DEF Init, MostSpecificWins
<1>3. Progress /\ Accounted
  BY DEF Init, Progress, Accounted
<1>4. AnswerWhole
  BY DEF Init, AnswerWhole
<1> QED  BY <1>1, <1>2, <1>3, <1>4 DEF IndInv

(* One turn of collect's loop, whatever arrived: nothing, or what the      *)
(* device of that address says of itself on that port.                     *)
LEMMA ReadKeeps ==
  ASSUME TypeOK, MostSpecificWins, NEW h \in Hosts, NEW p, NEW data, Read(h, p, data),
         \/ parseDiscoveryReply(p, data) = None
         \/ p = "iot" /\ parseDiscoveryReply(p, data) = "XOR"
         \/ /\ p = "smart"
            /\ parseDiscoveryReply(p, data) =
                 IF firmware[h].smart = "AES" THEN "AES" ELSE "KLAP"
  PROVE  /\ found' \in [Hosts -> {None, "XOR", "KLAP", "AES"}]
         /\ heard' \in [Hosts -> SUBSET Ports]
         /\ MostSpecificWins'
         /\ \A g \in Hosts : found[g] # None => found'[g] # None
         /\ parseDiscoveryReply(p, data) # None => found'[h] # None
<1> DEFINE new == parseDiscoveryReply(p, data)
<1>1. /\ found' = [found EXCEPT ![h] = Recorded(found[h], new)]
      /\ heard' = [heard EXCEPT ![h] = IF new = None THEN heard[h] ELSE heard[h] \cup {p}]
      /\ firmware' = firmware
  BY DEF Read
<1>2. \/ new = None
      \/ p = "iot" /\ new = "XOR"
      \/ p = "smart" /\ new = IF firmware[h].smart = "AES" THEN "AES" ELSE "KLAP"
  OBVIOUS
<1> HIDE DEF new
<1>3. /\ found' \in [Hosts -> {None, "XOR", "KLAP", "AES"}]
      /\ heard' \in [Hosts -> SUBSET Ports]
  BY <1>1, <1>2 DEF TypeOK, Recorded, Ports
<1>4. MostSpecificWins'
  <2> SUFFICES ASSUME NEW g \in Hosts
               PROVE  /\ heard'[g] = {} => found'[g] = None
                      /\ heard'[g] = {"iot"} => found'[g] = "XOR"
                      /\ "smart" \in heard'[g] =>
                           found'[g] = IF firmware[g].smart = "AES" THEN "AES" ELSE "KLAP"
    BY <1>1 DEF MostSpecificWins
  <2>1. CASE g # h
    BY <1>1, <2>1 DEF TypeOK, MostSpecificWins
  <2>2. CASE g = h
    <3>1. /\ heard'[h] = IF new = None THEN heard[h] ELSE heard[h] \cup {p}
          /\ found'[h] = Recorded(found[h], new)
          /\ heard[h] \subseteq {"iot", "smart"}
      BY <1>1 DEF TypeOK, Ports
    <3>2. \/ heard[h] = {} /\ found[h] = None
          \/ heard[h] = {"iot"} /\ found[h] = "XOR"
          \/ /\ "smart" \in heard[h]
             /\ found[h] = IF firmware[h].smart = "AES" THEN "AES" ELSE "KLAP"
      BY <3>1 DEF MostSpecificWins
    <3>3. CASE new = None
      BY <2>2, <3>1, <3>2, <3>3 DEF Recorded
    <3>4. CASE p = "iot" /\ new = "XOR"
      BY <2>2, <3>1, <3>2, <3>4 DEF Recorded, None
    <3>5. CASE p = "smart" /\ new = IF firmware[h].smart = "AES" THEN "AES" ELSE "KLAP"
      BY <2>2, <3>1, <3>2, <3>5 DEF Recorded, None
    <3> QED  BY <1>2, <3>3, <3>4, <3>5
  <2> QED  BY <2>1, <2>2
<1>5. /\ \A g \in Hosts : found[g] # None => found'[g] # None
      /\ new # None => found'[h] # None
  BY <1>1 DEF Recorded, TypeOK
<1> QED  BY <1>3, <1>4, <1>5 DEF new

-----------------------------------------------------------------------------
(* The steps.                                                              *)

(* A sweep begins with no probe sent, whomever it asks.                    *)
LEMMA BeginKeeps ==
  ASSUME IndInv, NEW t \in Hosts \cup {Everyone}, Begin(t) PROVE IndInv'
<1> USE DEF IndInv
<1>0. sendErr' \in BOOLEAN
  BY DEF Begin, TypeOK
<1>1. TypeOK'
  BY <1>0 DEF Begin, TypeOK
<1>2. MostSpecificWins'
  BY DEF Begin, MostSpecificWins
<1>3. sent' = 0 /\ pc' \in {"send", "failed"}
  BY DEF Begin, Progress
<1>4. Progress' /\ Accounted'
  BY <1>3 DEF Progress, Accounted
<1>5. AnswerWhole'
  BY DEF Begin, AnswerWhole
<1> QED  BY <1>1, <1>2, <1>4, <1>5

(* A probe that goes out is answered or lost by each device that hears it. *)
LEMMA SendProbeKeeps == ASSUME IndInv, SendProbe PROVE IndInv'
<1> USE DEF IndInv
<1> DEFINE k == sent + 1
           asked == {h \in Reached : Hears(h, Port(k))}
<1>0. /\ pc = "send" /\ sent < 2 * Repeats /\ sent' = k
      /\ UNCHANGED <<firmware, pc, target, sendErr, left, found, heard, stream, answer>>
      /\ sendErr' \in BOOLEAN
  BY DEF SendProbe, queryVars, TypeOK
<1>1. PICK answering \in SUBSET asked :
        /\ net' = [h \in Hosts |-> net[h] \cup {i \in {k} : h \in answering}]
        /\ lost' = [h \in Hosts |-> lost[h] \cup {i \in {k} : h \in asked \ answering}]
  BY DEF SendProbe
<1>k. k \in Probes /\ k \in Nat
  BY <1>0, FewerRepeats, DiscoveryAssumption DEF TypeOK, Probes
<1>2. TypeOK'
  BY <1>0, <1>1, <1>k DEF TypeOK, Probes
<1>3. MostSpecificWins' /\ AnswerWhole'
  BY <1>0 DEF MostSpecificWins, AnswerWhole
<1>4. Progress'
  BY <1>0 DEF Progress
<1>5. Accounted'
  <2> SUFFICES ASSUME ~sendErr, NEW h \in Reached, NEW j \in 1 .. k, Hears(h, Port(j))
               PROVE  j \in net'[h] \cup lost'[h] \/ found[h] # None
    BY <1>0 DEF Accounted, Reached, Hears
  <2>0. h \in Hosts
    BY FewerRepeats
  <2>1. CASE j = k
    <3>1. h \in asked
      BY <2>1
    <3> HIDE DEF asked, k
    <3> QED  BY <1>1, <2>0, <2>1, <3>1
  <2>2. CASE j # k
    <3>1. j \in 1 .. sent
      BY <2>2 DEF TypeOK
    <3>2. j \in net[h] \cup lost[h] \/ found[h] # None
      BY <3>1 DEF Accounted
    <3> HIDE DEF asked, k
    <3> QED  BY <1>1, <2>0, <3>2
  <2> QED  BY <2>1, <2>2
<1> QED  BY <1>2, <1>3, <1>4, <1>5

(* A probe that cannot be sent spoils the sweep, which then promises       *)
(* nothing.                                                                *)
LEMMA SendFailsKeeps == ASSUME IndInv, SendFails PROVE IndInv'
<1> USE DEF IndInv
<1>0. sendErr' \in BOOLEAN /\ sendErr'
  BY DEF SendFails
<1>1. sent' \in 0 .. 2 * Packets
  BY FewerRepeats, DiscoveryAssumption DEF SendFails, TypeOK
<1>2. TypeOK'
  BY <1>0, <1>1 DEF SendFails, TypeOK, queryVars
<1>3. MostSpecificWins' /\ AnswerWhole'
  BY DEF SendFails, MostSpecificWins, AnswerWhole, queryVars
<1>4. Progress' /\ Accounted'
  BY <1>0 DEF SendFails, Progress, Accounted
<1> QED  BY <1>2, <1>3, <1>4

(* The loop of probe ends.                                                 *)
LEMMA ProbeEndKeeps == ASSUME IndInv, ProbeFailed \/ ProbeDone PROVE IndInv'
<1> USE DEF IndInv
<1>0. /\ UNCHANGED <<firmware, target, sent, sendErr, net, found, heard, lost, stream, answer>>
      /\ \/ pc' = "failed"
         \/ pc' = "collect" /\ sent = 2 * Repeats /\ ~sendErr
  BY DEF ProbeFailed, ProbeDone, sweepVars, queryVars
<1>1. left' \in 0 .. Timeout /\ sendErr' \in BOOLEAN
  BY DiscoveryAssumption DEF ProbeFailed, ProbeDone, TypeOK, sweepVars
<1>2. TypeOK'
  BY <1>0, <1>1 DEF TypeOK
<1>3. MostSpecificWins' /\ AnswerWhole'
  BY <1>0 DEF MostSpecificWins, AnswerWhole
<1>4. Progress' /\ Accounted'
  BY <1>0 DEF Progress, Accounted, Repeats, Reached, Hears
<1> QED  BY <1>2, <1>3, <1>4

(* A reply is read; when it was the last of its kind, its device is        *)
(* recorded.                                                               *)
LEMMA ReadReplyKeeps ==
  ASSUME IndInv, NEW h \in Hosts, NEW k \in Probes, ReadReply(h, k) PROVE IndInv'
<1> USE DEF IndInv
<1> DEFINE p == Port(k)
           data == Datagram(h, p)
           new == parseDiscoveryReply(p, data)
<1>0. /\ Read(h, p, data) /\ pc = "collect"
      /\ net' \in {net, [net EXCEPT ![h] = net[h] \ {k}]}
      /\ UNCHANGED <<firmware, pc, target, sent, sendErr, left, lost, stream, answer>>
      /\ sendErr' \in BOOLEAN
  BY DEF ReadReply, Read, queryVars, TypeOK
<1>p. p \in {"iot", "smart"}
  BY DEF Port
<1>1. /\ \/ new = None
         \/ p = "iot" /\ new = "XOR"
         \/ p = "smart" /\ new = IF firmware[h].smart = "AES" THEN "AES" ELSE "KLAP"
      /\ Hears(h, p) => new # None
  <2>1. CASE p = "iot"
    BY <2>1, Parsed DEF TypeOK, None
  <2>2. CASE p = "smart"
    BY <2>2, Parsed DEF TypeOK, None, Hears
  <2> QED  BY <1>p, <2>1, <2>2
<1>2. /\ found' \in [Hosts -> {None, "XOR", "KLAP", "AES"}]
      /\ heard' \in [Hosts -> SUBSET Ports]
      /\ MostSpecificWins'
      /\ \A g \in Hosts : found[g] # None => found'[g] # None
      /\ new # None => found'[h] # None
  BY <1>0, <1>1, ReadKeeps
<1> HIDE DEF p, data, new
<1>3. TypeOK'
  BY <1>0, <1>2 DEF TypeOK
<1>4. Progress' /\ AnswerWhole'
  BY <1>0 DEF Progress, AnswerWhole, Repeats
<1>5. Accounted'
  <2> SUFFICES ASSUME ~sendErr, NEW g \in Reached, NEW j \in 1 .. sent, Hears(g, Port(j))
               PROVE  j \in net'[g] \cup lost[g] \/ found'[g] # None
    BY <1>0 DEF Accounted, Reached, Hears
  <2>0. g \in Hosts
    BY FewerRepeats
  <2>1. j \in net[g] \cup lost[g] \/ found[g] # None
    BY DEF Accounted
  <2>2. CASE g = h /\ j = k
    BY <1>1, <1>2, <2>2 DEF p
  <2>3. CASE ~(g = h /\ j = k)
    BY <1>0, <1>2, <2>0, <2>1, <2>3 DEF TypeOK
  <2> QED  BY <2>2, <2>3
<1> QED  BY <1>2, <1>3, <1>4, <1>5

(* A datagram that is no reply takes nothing away from what is recorded.   *)
LEMMA ReadNoiseKeeps ==
  ASSUME IndInv, NEW h \in Hosts, NEW p \in Ports \cup {"other"}, NEW data \in Noise(p),
         ReadNoise(h, p, data)
  PROVE  IndInv'
<1> USE DEF IndInv
<1>0. /\ Read(h, p, data) /\ pc = "collect"
      /\ UNCHANGED <<firmware, pc, target, sent, sendErr, left, net, lost, stream, answer>>
      /\ sendErr' \in BOOLEAN
  BY DEF ReadNoise, Read, queryVars, TypeOK
<1>1. \/ parseDiscoveryReply(p, data) = None
      \/ p = "iot" /\ parseDiscoveryReply(p, data) = "XOR"
  <2>1. CASE p = "iot"
    BY <2>1, Parsed DEF TypeOK
  <2>2. CASE p = "smart"
    BY <2>2, Parsed DEF TypeOK, Noise
  <2>3. CASE p = "other"
    BY <2>3, Parsed DEF TypeOK
  <2> QED  BY <2>1, <2>2, <2>3 DEF Ports
<1>2. /\ found' \in [Hosts -> {None, "XOR", "KLAP", "AES"}]
      /\ heard' \in [Hosts -> SUBSET Ports]
      /\ MostSpecificWins'
      /\ \A g \in Hosts : found[g] # None => found'[g] # None
  BY <1>0, <1>1, ReadKeeps
<1>3. TypeOK'
  BY <1>0, <1>2 DEF TypeOK
<1>4. Progress' /\ AnswerWhole'
  BY <1>0 DEF Progress, AnswerWhole, Repeats
<1>5. Accounted'
  BY <1>0, <1>2, FewerRepeats DEF Accounted, Reached, Hears
<1> QED  BY <1>2, <1>3, <1>4, <1>5

(* The replies still on their way when a sweep ends are lost.              *)
LEMMA EndCollectKeeps ==
  ASSUME IndInv, pc = "collect", EndCollect PROVE IndInv'
<1> USE DEF IndInv
<1>0. /\ UNCHANGED <<firmware, target, sent, sendErr, found, heard, stream, answer>>
      /\ pc' \in {"failed", "done"} /\ left' = 0
      /\ net' = NoReplies /\ lost' = [h \in Hosts |-> lost[h] \cup net[h]]
      /\ sendErr' \in BOOLEAN
  BY DEF EndCollect, queryVars, TypeOK
<1>1. TypeOK'
  BY <1>0, DiscoveryAssumption DEF TypeOK, NoReplies
<1>2. MostSpecificWins' /\ AnswerWhole'
  BY <1>0 DEF MostSpecificWins, AnswerWhole
<1>3. Progress'
  BY <1>0 DEF Progress, Repeats, NoReplies
<1>4. Accounted'
  BY <1>0, FewerRepeats DEF Accounted, Reached, Hears
<1> QED  BY <1>1, <1>2, <1>3, <1>4

(* Time passes.                                                            *)
LEMMA TickKeeps == ASSUME IndInv, Tick PROVE IndInv'
<1> USE DEF IndInv
<1>0. sendErr' \in BOOLEAN /\ left' \in 0 .. Timeout
  BY DiscoveryAssumption DEF Tick, TypeOK
<1>1. TypeOK'
  BY <1>0 DEF Tick, TypeOK, queryVars
<1>2. MostSpecificWins' /\ AnswerWhole'
  BY DEF Tick, MostSpecificWins, AnswerWhole, queryVars
<1>3. Progress' /\ Accounted'
  BY DEF Tick, Progress, Accounted, Repeats, Reached, Hears
<1> QED  BY <1>1, <1>2, <1>3

(* The next sweep starts from nothing, whoever answers by then.            *)
LEMMA ClosedKeeps ==
  ASSUME IndInv, Closed, firmware' \in [Hosts -> Firmwares],
         answer' \in Answers \cup {NoAnswer}, AnswerWhole'
  PROVE  IndInv'
<1> USE DEF IndInv
<1>0. sendErr' \in BOOLEAN
  BY DEF Closed
<1>1. TypeOK'
  BY <1>0, DiscoveryAssumption DEF Closed, TypeOK, NoReplies
<1>2. MostSpecificWins'
  BY DEF Closed, MostSpecificWins
<1>3. Progress' /\ Accounted'
  BY DEF Closed, Progress, Accounted
<1> QED  BY <1>1, <1>2, <1>3

(* Whatever arrives of an answer: it is returned when it is whole.         *)
LEMMA AnswerRead ==
  ASSUME NEW body \in Seq(Byte), NEW s \in Streams(body)
  PROVE  \/ ReadAnswer(s) = NoAnswer
         \/ /\ s = Stream(TRUE, Len(body), xorEncrypt(body))
            /\ ReadAnswer(s) = body
<1>1. CASE s \in {Stream(FALSE, 0, <<>>), Stream(TRUE, 0, <<>>),
                  Stream(TRUE, xorMaxPayload + 1, <<>>)}
  BY <1>1, XorAssumption DEF ReadAnswer, Stream
<1>2. ASSUME NEW n \in 0 .. Len(body),
             s = Stream(TRUE, Len(body), SubSeq(xorEncrypt(body), 1, n)),
             ReadAnswer(s) # NoAnswer
      PROVE  s = Stream(TRUE, Len(body), xorEncrypt(body)) /\ ReadAnswer(s) = body
  <2> DEFINE c == xorEncrypt(body)
  <2>1. c \in Seq(Byte) /\ Len(c) = Len(body) /\ xorDecrypt(c) = body
    BY Deciphers
  <2> HIDE DEF c
  <2>2. Len(SubSeq(c, 1, n)) = n
    BY <2>1
  <2>3. n = Len(body)
    BY <1>2, <2>2 DEF ReadAnswer, Stream, c
  <2>4. SubSeq(c, 1, n) = c
    BY <2>1, <2>3
  <2>5. s = Stream(TRUE, Len(body), c)
    BY <1>2, <2>4 DEF c
  <2>6. s.body = c /\ s.length = n
    BY <2>3, <2>5 DEF Stream
  <2>7. ReadAnswer(s) = xorDecrypt(SubSeq(s.body, 1, s.length))
    BY <1>2, Zenon DEF ReadAnswer
  <2> QED  BY <2>1, <2>4, <2>5, <2>6, <2>7 DEF c
<1> QED  BY <1>1, <1>2 DEF Streams

(* A device of the legacy protocol is queried.                             *)
LEMMA QueryKeeps ==
  ASSUME IndInv, NEW h \in Hosts, NEW body \in Answers, Query(h, body) PROVE IndInv'
<1> USE DEF IndInv
<1>1. PICK s \in Streams(body) : stream' = s /\ answer' = ReadAnswer(s)
  BY DEF Query
<1>2. body \in Seq(Byte)
  BY DiscoveryAssumption
<1>3. answer' = NoAnswer \/ (/\ stream' = Stream(TRUE, Len(body), xorEncrypt(body))
                             /\ answer' = body)
  BY <1>1, <1>2, AnswerRead
<1>4. AnswerWhole'
  BY <1>2, <1>3, Deciphers DEF AnswerWhole, Stream
<1> QED  BY <1>3, <1>4, ClosedKeeps DEF Query, TypeOK

(* The next sweep, with other firmware or the same.                        *)
LEMMA ForgetKeeps == ASSUME IndInv, Forget PROVE IndInv'
<1>1. firmware' \in [Hosts -> Firmwares]
  BY DEF IndInv, Forget, TypeOK
<1>2. answer' \in Answers \cup {NoAnswer} /\ AnswerWhole'
  BY DEF IndInv, Forget, TypeOK, AnswerWhole, queryVars
<1> QED  BY <1>1, <1>2, ClosedKeeps DEF Forget

(* Every step keeps the invariant.                                         *)
LEMMA StepIndInv == IndInv /\ [Next]_vars => IndInv'
<1> SUFFICES ASSUME IndInv, [Next]_vars PROVE IndInv'
  OBVIOUS
<1>1. ASSUME NEW t \in Hosts \cup {Everyone}, Begin(t) PROVE IndInv'
  BY <1>1, BeginKeeps
<1>2. CASE SendProbe
  BY <1>2, SendProbeKeeps
<1>3. CASE SendFails
  BY <1>3, SendFailsKeeps
<1>4. CASE ProbeFailed \/ ProbeDone
  BY <1>4, ProbeEndKeeps
<1>5. ASSUME NEW h \in Hosts, NEW k \in Probes, ReadReply(h, k) PROVE IndInv'
  BY <1>5, ReadReplyKeeps
<1>6. ASSUME NEW h \in Hosts, NEW p \in Ports \cup {"other"}, NEW data \in Noise(p),
             ReadNoise(h, p, data)
      PROVE  IndInv'
  BY <1>6, ReadNoiseKeeps
<1>7. CASE Expire \/ Break
  BY <1>7, EndCollectKeeps DEF Expire, Break
<1>8. CASE Tick
  BY <1>8, TickKeeps
<1>9. ASSUME NEW h \in Hosts, NEW body \in Answers, Query(h, body) PROVE IndInv'
  BY <1>9, QueryKeeps
<1>10. CASE Forget
  BY <1>10, ForgetKeeps
<1>11. CASE UNCHANGED vars
  <2>0. sendErr' \in BOOLEAN
    BY <1>11 DEF vars, sweepVars, IndInv, TypeOK
  <2>1. TypeOK' /\ MostSpecificWins' /\ AnswerWhole'
    BY <1>11, <2>0 DEF vars, sweepVars, queryVars, IndInv, TypeOK, MostSpecificWins,
                       AnswerWhole
  <2>2. UNCHANGED <<firmware, pc, target, sent, sendErr, net, found, lost>>
    BY <1>11 DEF vars, sweepVars
  <2>3. Progress' /\ Accounted'
    BY <2>2 DEF IndInv, Progress, Accounted, Repeats, Reached, Hears
  <2> QED  BY <2>1, <2>3 DEF IndInv
<1> QED
  BY <1>1, <1>2, <1>3, <1>4, <1>5, <1>6, <1>7, <1>8, <1>9, <1>10, <1>11 DEF Next, Listen

(* The invariant holds in every reachable state.                           *)
LEMMA Invariance == Spec => []IndInv
BY InitIndInv, StepIndInv, PTL DEF Spec

-----------------------------------------------------------------------------
(* Every variable keeps its type; in particular a query never returns what *)
(* no device has answered (xorTransport.Query).                            *)
THEOREM TypeCorrect == Spec => []TypeOK
<1>1. IndInv => TypeOK
  BY DEF IndInv
<1> QED  BY <1>1, Invariance, PTL

(* What a sweep records depends on which replies were heard, never on      *)
(* their order or number, however many devices there are (collect).        *)
THEOREM OrderForgotten == Spec => []MostSpecificWins
<1>1. IndInv => MostSpecificWins
  BY DEF IndInv
<1> QED  BY <1>1, Invariance, PTL

(* A sweep that ends well misses a device only if every probe it listens   *)
(* for, or its reply, was lost, however often the probes are repeated      *)
(* (probe, collect).                                                       *)
THEOREM MissedForAReason == Spec => []MissedOnlyIfLost
<1>1. IndInv => MissedOnlyIfLost
  <2> SUFFICES ASSUME IndInv, pc = "done", target = Everyone, NEW h \in Hosts,
                      found[h] = None, NEW k \in Probes, Hears(h, Port(k))
               PROVE  k \in lost[h]
    BY DEF MissedOnlyIfLost
  <2>1. ~sendErr /\ h \in Reached /\ k \in 1 .. sent /\ net[h] = {}
    BY DEF IndInv, Progress, Repeats, Reached, Probes, NoReplies
  <2> QED  BY <2>1 DEF IndInv, Accounted
<1> QED  BY <1>1, Invariance, PTL

(* Query returns the device's answer, whole and deciphered, or an error,   *)
(* for answers of any length (xorTransport.Query).                         *)
THEOREM AnswersWhole == Spec => []AnswerWhole
<1>1. IndInv => AnswerWhole
  BY DEF IndInv
<1> QED  BY <1>1, Invariance, PTL
=============================================================================
