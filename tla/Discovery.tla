------------------------------ MODULE Discovery ------------------------------
(***************************************************************************)
(* Sweeps, kasa/discover.go: both probes are sent several times to one     *)
(* address or to all, and what comes back by the deadline is collected,    *)
(* from two ports and in any order.  A device of the legacy protocol is    *)
(* then queried over TCP (kasa/xor.go) under the same cipher.              *)
(*                                                                         *)
(* The network loses probes and replies, duplicates replies, delivers them *)
(* in any order, and brings datagrams that are no replies at any time.     *)
(***************************************************************************)
EXTENDS Xor, FiniteSets

CONSTANTS
    Hosts,          \* the devices on the network
    Everyone,       \* the broadcast address
    Packets,        \* Options.DiscoveryPackets
    Timeout,        \* how long a sweep listens, in ticks
    Answers         \* the bodies a device may answer a query with

ASSUME DiscoveryAssumption ==
    /\ Everyone \notin Hosts
    /\ Packets \in Nat \ {0}
    /\ Timeout \in Nat
    /\ Answers \subseteq Seq(Byte)

Ports == {"iot", "smart"}

(* The JSON of get_sysinfo and of its answer; any two different texts do.  *)
Request == <<{}, xorKey>>
Sysinfo == <<xorKey, xorKey>>

(* What a device says on the SMART port: the encryption it advertises, if  *)
(* it states one.  "short", "broken" and "refused" are datagrams without a *)
(* body, without JSON, and with an error code or no model.                 *)
Unstated  == ""
Schemes   == {Unstated, "klap", "AES"}
Unusable  == {"short", "broken", "refused"}

(* A device may answer on either port, on both or on none.                 *)
Firmwares == [iot : BOOLEAN, smart : Schemes \cup {"none"}]

VARIABLES
    firmware,       \* what each device answers with
    pc,             \* where the sweep is
    target,         \* whom it asks
    sent,           \* how many probes it has sent
    sendErr,        \* whether one could not be sent
    left,           \* ticks to the deadline
    net,            \* the probes each device's replies on their way answer
    found,          \* the encryption recorded for each device
    stream, answer, \* the last query: what arrived, what Query returned
    heard, lost     \* history: the ports heard of, the probes that came to nothing

sweepVars == <<target, sent, sendErr, left, net, found, heard, lost>>
queryVars == <<stream, answer>>
vars == <<firmware, pc, sweepVars, queryVars>>

None == "none"

(* The probes of a sweep in the order they are sent, the legacy one first. *)
Probes  == 1 .. 2 * Packets
Port(k) == IF k % 2 = 1 THEN "iot" ELSE "smart"

NoReplies == [h \in Hosts |-> {}]
Nothing == Stream(FALSE, 0, <<>>)

TypeOK ==
    /\ firmware \in [Hosts -> Firmwares]
    /\ pc \in {"idle", "send", "collect", "done", "failed"}
    /\ target \in Hosts \cup {Everyone}
    /\ sent \in 0 .. 2 * Packets
    /\ sendErr \in BOOLEAN
    /\ left \in 0 .. Timeout
    /\ net \in [Hosts -> SUBSET Probes]
    /\ found \in [Hosts -> {None, "XOR", "KLAP", "AES"}]
    /\ heard \in [Hosts -> SUBSET Ports]
    /\ lost \in [Hosts -> SUBSET Probes]
    /\ answer \in Answers \cup {NoAnswer}

Init ==
    /\ firmware \in [Hosts -> Firmwares]
    /\ pc = "idle"
    /\ target = Everyone
    /\ sent = 0
    /\ sendErr = FALSE
    /\ left = 0
    /\ net = NoReplies
    /\ found = [h \in Hosts |-> None]
    /\ heard = [h \in Hosts |-> {}]
    /\ lost = [h \in Hosts |-> {}]
    /\ stream = Nothing
    /\ answer = NoAnswer

-----------------------------------------------------------------------------
(* The devices.                                                            *)

(* The sysinfo probe is sent as bare ciphertext; the other is constant.    *)
Hears(h, p) ==
    IF p = "iot" THEN firmware[h].iot /\ xorDecrypt(xorEncrypt(Request)) = Request
                 ELSE firmware[h].smart # None

Datagram(h, p) == IF p = "iot" THEN xorEncrypt(Sysinfo) ELSE firmware[h].smart

(* Datagrams that no device means as an answer, by the port they are from; *)
(* an echo of the legacy probe is taken for one all the same.              *)
Noise(p) ==
    CASE p = "iot"   -> {<<>>, Sysinfo, xorEncrypt(Request)}
      [] p = "smart" -> Unusable
      [] OTHER       -> {xorEncrypt(Sysinfo)}

-----------------------------------------------------------------------------
(* probe.                                                                  *)

Reached == IF target = Everyone THEN Hosts ELSE {target}

(* Fault: the probes are sent once.                                        *)
RepeatsOnce == 1

(* discover repeats the probes, discoverHost does not.                     *)
Repeats == IF target = Everyone THEN Packets ELSE 1

(* discover opens its socket; it may be refused one.                       *)
Begin(t) ==
    /\ pc = "idle"
    /\ target' = t
    /\ pc' \in {"send", "failed"}
    /\ stream' = Nothing
    /\ answer' = NoAnswer
    /\ UNCHANGED <<firmware, sent, sendErr, left, net, found, heard, lost>>

(* A probe goes out, and each device that hears it may answer ...          *)
SendProbe ==
    LET k == sent + 1
        asked == {h \in Reached : Hears(h, Port(k))}
    IN  /\ pc = "send"
        /\ sent < 2 * Repeats
        /\ sent' = k
        /\ \E answering \in SUBSET asked :
               /\ net' = [h \in Hosts |-> net[h] \cup {i \in {k} : h \in answering}]
               /\ lost' = [h \in Hosts |-> lost[h] \cup {i \in {k} : h \in asked \ answering}]
        /\ UNCHANGED <<firmware, pc, target, sendErr, left, found, heard, queryVars>>

(* ... or cannot be sent, and the loop goes on.                            *)
SendFails ==
    /\ pc = "send"
    /\ sent < 2 * Repeats
    /\ sent' = sent + 1
    /\ sendErr' = TRUE
    /\ UNCHANGED <<firmware, pc, target, left, net, found, heard, lost, queryVars>>

(* One failure to send is enough for discover to give up.                  *)
ProbeFailed ==
    /\ pc = "send"
    /\ sent = 2 * Repeats
    /\ sendErr
    /\ pc' = "failed"
    /\ UNCHANGED <<firmware, sweepVars, queryVars>>

(* Fault: the context's deadline is taken for the sweep's.                 *)
ProbeDoneLate ==
    /\ pc = "send"
    /\ sent = 2 * Repeats
    /\ ~sendErr
    /\ pc' = "collect"
    /\ left' \in 0 .. Timeout + 1
    /\ UNCHANGED <<firmware, target, sent, sendErr, net, found, heard, lost, queryVars>>

(* The deadline, of the sweep or of its context, counts from here.         *)
ProbeDone ==
    /\ pc = "send"
    /\ sent = 2 * Repeats
    /\ ~sendErr
    /\ pc' = "collect"
    /\ \E ctx \in 0 .. Timeout + 1 : left' = IF ctx < Timeout THEN ctx ELSE Timeout
    /\ UNCHANGED <<firmware, target, sent, sendErr, net, found, heard, lost, queryVars>>

-----------------------------------------------------------------------------
(* collect.                                                                *)

(* Any sysinfo will do, the empty one of the probe itself included.        *)
parseIOTDiscovery(data) == IF xorDecrypt(data) \in {Sysinfo, Request} THEN "XOR" ELSE None

(* The scheme in capitals, KLAP when there is none.                        *)
parseSMARTDiscovery(data) ==
    CASE data \in Unusable           -> None
      [] data \in {Unstated, "klap"} -> "KLAP"
      [] OTHER                       -> data

parseDiscoveryReply(p, data) ==
    CASE p = "iot"   -> parseIOTDiscovery(data)
      [] p = "smart" -> parseSMARTDiscovery(data)
      [] OTHER       -> None

(* Fault: later replies win.                                               *)
RecordedLatest(old, new) == IF new = None THEN old ELSE new

(* A reply that names no transport never replaces one that does.           *)
Recorded(old, new) ==
    IF new = None \/ (old \notin {None, "XOR"} /\ new = "XOR") THEN old ELSE new

(* Fault: the read deadline starts anew with every datagram.               *)
ReadExtending(h, p, data) ==
    /\ pc = "collect"
    /\ left > 0
    /\ left' = Timeout
    /\ found' = [found EXCEPT ![h] = Recorded(@, parseDiscoveryReply(p, data))]
    /\ heard' = [heard EXCEPT ![h] = IF parseDiscoveryReply(p, data) = None THEN @
                                                                          ELSE @ \cup {p}]
    /\ UNCHANGED <<firmware, pc, target, sent, sendErr, lost, queryVars>>

(* One turn of collect's loop.                                             *)
Read(h, p, data) ==
    /\ pc = "collect"
    /\ left > 0
    /\ found' = [found EXCEPT ![h] = Recorded(@, parseDiscoveryReply(p, data))]
    /\ heard' = [heard EXCEPT ![h] = IF parseDiscoveryReply(p, data) = None THEN @
                                                                          ELSE @ \cup {p}]
    /\ UNCHANGED <<firmware, pc, target, sent, sendErr, left, lost, queryVars>>

(* A reply, which the network may yet deliver once more.                   *)
ReadReply(h, k) ==
    /\ k \in net[h]
    /\ net' \in {net, [net EXCEPT ![h] = @ \ {k}]}
    /\ Read(h, Port(k), Datagram(h, Port(k)))

ReadNoise(h, p, data) ==
    /\ Read(h, p, data)
    /\ UNCHANGED net

(* The deadline has passed, or the socket is broken: discover returns what *)
(* there is, discoverHost an error when it is nothing.                     *)
EndCollect ==
    /\ pc' = IF target # Everyone /\ \A h \in Hosts : found[h] = None THEN "failed" ELSE "done"
    /\ lost' = [h \in Hosts |-> lost[h] \cup net[h]]
    /\ net' = NoReplies
    /\ left' = 0
    /\ UNCHANGED <<firmware, target, sent, sendErr, found, heard, queryVars>>

Expire == pc = "collect" /\ left = 0 /\ EndCollect
Break  == pc = "collect" /\ left > 0 /\ EndCollect

(* Time passes.                                                            *)
Tick ==
    /\ pc = "collect"
    /\ left > 0
    /\ left' = left - 1
    /\ UNCHANGED <<firmware, pc, target, sent, sendErr, net, found, heard, lost, queryVars>>

-----------------------------------------------------------------------------
(* The sweep is over and its socket closed.                                *)
Closed ==
    /\ pc' = "idle"
    /\ target' = Everyone
    /\ sent' = 0
    /\ sendErr' = FALSE
    /\ left' = 0
    /\ net' = NoReplies
    /\ found' = [h \in Hosts |-> None]
    /\ heard' = [h \in Hosts |-> {}]
    /\ lost' = [h \in Hosts |-> {}]

(* xorTransport.Query of a device that was found by its legacy reply.  The *)
(* stream may end anywhere, and a failing device declares no length or one *)
(* that is too large.                                                      *)
Streams(body) ==
    {Stream(FALSE, 0, <<>>), Stream(TRUE, 0, <<>>), Stream(TRUE, xorMaxPayload + 1, <<>>)}
    \cup {Stream(TRUE, Len(body), SubSeq(xorEncrypt(body), 1, n)) : n \in 0 .. Len(body)}

Query(h, body) ==
    /\ pc = "done"
    /\ found[h] = "XOR"
    /\ \E s \in Streams(body) :
           /\ stream' = s
           /\ answer' = ReadAnswer(s)
    /\ Closed
    /\ UNCHANGED firmware

(* The next sweep, by which time a device may have other firmware.         *)
Forget ==
    /\ pc \in {"done", "failed"}
    /\ Closed
    /\ UNCHANGED queryVars
    /\ \/ UNCHANGED firmware
       \/ \E h \in Hosts, f \in Firmwares : firmware' = [firmware EXCEPT ![h] = f]

-----------------------------------------------------------------------------
Listen ==
    \E h \in Hosts :
        \/ \E k \in Probes : ReadReply(h, k)
        \/ \E p \in Ports \cup {"other"} : \E data \in Noise(p) : ReadNoise(h, p, data)

Next ==
    \/ \E t \in Hosts \cup {Everyone} : Begin(t)
    \/ SendProbe \/ SendFails \/ ProbeFailed \/ ProbeDone
    \/ Listen \/ Expire \/ Break \/ Tick
    \/ \E h \in Hosts, body \in Answers : Query(h, body)
    \/ Forget

(* The sweep's goroutine runs and time passes; nothing need ever arrive.   *)
Fairness ==
    /\ WF_vars(SendProbe \/ SendFails \/ ProbeFailed \/ ProbeDone \/ Expire)
    /\ WF_vars(Tick)

Spec     == Init /\ [][Next]_vars
LiveSpec == Spec /\ Fairness

-----------------------------------------------------------------------------
(* What a sweep records of a device does not depend on the order or the    *)
(* number of its replies: its SMART reply if one was heard, otherwise the  *)
(* legacy one, and a datagram the parser refuses leaves no trace (collect, *)
(* "recorded from the SMART reply, which is the only one that names the    *)
(* transport").                                                            *)
MostSpecificWins ==
    \A h \in Hosts :
        /\ heard[h] = {}         => found[h] = None
        /\ heard[h] = {"iot"}    => found[h] = "XOR"
        /\ "smart" \in heard[h]  => found[h] = IF firmware[h].smart = "AES"
                                               THEN "AES" ELSE "KLAP"

(* A sweep that ends well misses a device only if every one of its probes  *)
(* that the device listens for, or its reply, was lost (probe, "so the     *)
(* probe is repeated").                                                    *)
MissedOnlyIfLost ==
    pc = "done" /\ target = Everyone =>
        \A h \in Hosts :
            found[h] = None => {k \in Probes : Hears(h, Port(k))} \subseteq lost[h]

(* Query returns the device's answer, whole and deciphered, or an error;   *)
(* never the part of it that arrived (xorTransport.Query).                 *)
AnswerWhole ==
    answer # NoAnswer =>
        /\ stream.complete
        /\ Len(stream.body) = stream.length
        /\ xorEncrypt(answer) = stream.body

(* However many datagrams keep arriving, a sweep ends, at its deadline     *)
(* (collect).                                                              *)
SweepOver == pc \in {"send", "collect"} ~> pc \in {"done", "failed"}
=============================================================================
