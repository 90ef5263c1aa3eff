------------------------------- MODULE Device -------------------------------
(***************************************************************************)
(* One Device over its life: Device.Read, Alias, Type and Close            *)
(* (kasa/device.go), and the negotiation that finds out how to talk to it  *)
(* (kasa/connect.go), against a device that is switched off, reboots into  *)
(* another firmware, changes its login or its name, or loses a packet.     *)
(*                                                                         *)
(* Read runs under Device.mu, so the exporter's side is one process, and   *)
(* its steps are the exchanges with the device.  The context of a Read     *)
(* gives it Timeout ticks; a tick is a quarter of a second.                *)
(***************************************************************************)
EXTENDS Integers, Sequences

CONSTANTS
    Names,          \* the names a device can be given
    Timeout,        \* Options.Timeout, in ticks
    MaxFaults       \* bound: how often the device or the network interferes

NoName == ""        \* the empty string
NoLogin == 0        \* a discovery reply without "lv"
NoType == ""        \* Device.deviceType before the first reading

ASSUME DeviceAssumption ==
    /\ NoName \notin Names
    /\ Timeout \in Nat
    /\ MaxFaults \in Nat

(* A discoveryResult, as far as a connection depends on it.                *)
Scheme(e, f, v) == [encrypt |-> e, family |-> f, lv |-> v]

XOR     == Scheme("XOR", "IOT", NoLogin)
AES     == Scheme("AES", "SMART", NoLogin)
KLAP(f, v) == Scheme("KLAP", f, v)
Newer   == Scheme("other", "SMART", NoLogin)    \* one connectAs does not know
Nil     == Scheme("none", "none", NoLogin)      \* a nil pointer, or switched off

(* What a device can speak, and what it can say of itself.                 *)
Services == {Nil, XOR, AES, Newer, KLAP("IOT", 1), KLAP("IOT", 2), KLAP("SMART", 2)}
Schemes  == Services \cup {KLAP("IOT", NoLogin), KLAP("SMART", NoLogin)}

VARIABLES
    \* the device
    service,        \* what it speaks, Nil when it is off
    described,      \* how it answers discovery, Nil when it does not
    fits,           \* whether some configured or default login is its own
    silent,         \* whether its closed ports drop packets or refuse them
    name,           \* its name, NoName when it has none
    \* the Device object
    querier,        \* what the connection speaks, Nil when there is none
    discovered,     \* Device.discovered
    alias, deviceType,
    \* the Read in progress
    pc,
    candidate,      \* what negotiate is trying
    next,           \* its place in probeOrder, 0 outside the loop
    left,           \* the ticks the context has left
    outcome,        \* what the last Read returned
    \* history
    faults,
    disturbed,      \* somebody interfered with the last Read
    refused,        \* the logins it presented in vain
    shown           \* the last name a reading carried, "none" before the first

deviceVars  == <<service, described, fits, silent, name>>
objectVars  == <<querier, discovered, alias, deviceType>>
readVars    == <<pc, candidate, next, left, outcome>>
historyVars == <<faults, disturbed, refused, shown>>
vars == <<deviceVars, objectVars, readVars, historyVars>>

(* probeOrder                                                              *)
ProbeOrder ==
    <<KLAP("SMART", 2), KLAP("IOT", 2), KLAP("IOT", 1), AES, XOR>>

TypeOK ==
    /\ service \in Services
    /\ described \in Schemes
    /\ fits \in BOOLEAN
    /\ silent \in BOOLEAN
    /\ name \in Names \cup {NoName}
    /\ querier \in Schemes
    /\ discovered \in Schemes
    /\ alias \in Names \cup {NoName}
    /\ deviceType \in {NoType, "known"}
    /\ pc \in {"idle", "ask", "try", "read"}
    /\ candidate \in Schemes
    /\ next \in 0 .. Len(ProbeOrder)
    /\ left \in 0 .. Timeout
    /\ outcome \in {"none", "ok", "failed"}
    /\ faults \in 0 .. MaxFaults
    /\ disturbed \in BOOLEAN
    /\ refused \in Nat
    /\ shown \in Names \cup {"none"}

(* What a device that speaks s can say of itself: nothing, or its scheme,  *)
(* with or without the login version.                                      *)
Descriptions(s) ==
    IF s = Nil THEN {Nil} ELSE {Nil, s, [s EXCEPT !.lv = NoLogin]}

(* Connect, for a configured host, or Discover, for one that answered.     *)
Init ==
    /\ service \in Services
    /\ described \in Descriptions(service)
    /\ fits \in BOOLEAN
    /\ silent \in BOOLEAN
    /\ name \in Names \cup {NoName}
    /\ querier = Nil
    /\ \/ discovered = Nil /\ alias = NoName
       \/ /\ described # Nil /\ discovered = described
          /\ alias \in {name, NoName}
    /\ deviceType = NoType
    /\ pc = "idle"
    /\ candidate = Nil
    /\ next = 0
    /\ left = 0
    /\ outcome = "none"
    /\ faults = 0
    /\ disturbed = FALSE
    /\ refused = 0
    /\ shown = "none"

-----------------------------------------------------------------------------
(* unicastDiscoveryBudget: a quarter, at least half a second, at most all. *)
Budget ==
    LET share == IF Timeout \div 4 < 2 THEN 2 ELSE Timeout \div 4 IN
    IF share > Timeout THEN Timeout ELSE share

(* discoveryResult.loginVersion                                            *)
LoginVersion(q) ==
    IF q.lv # NoLogin THEN q.lv ELSE IF q.family = "SMART" THEN 2 ELSE 1

(* connectAs knows the scheme.                                             *)
Supported(q) == q.encrypt \in {"XOR", "KLAP", "AES"}

Port(s) == IF s.encrypt = "XOR" THEN "9999" ELSE IF s = Nil THEN "none" ELSE "http"

(* What a Read over q gets from the device.  A KLAP device checks the      *)
(* login, hashed for its own version, before it sees a request.            *)
Reply(q) ==
    CASE left = 0 \/ ~Supported(q) \/ q.encrypt # service.encrypt -> "error"
      [] OTHER ->
         CASE q.encrypt = "XOR" -> "reading"
           [] q.encrypt = "AES" -> IF fits THEN "reading" ELSE "unauthorized"
           [] q.encrypt = "KLAP" ->
                IF ~fits \/ LoginVersion(q) # service.lv THEN "unauthorized"
                ELSE IF q.family = service.family THEN "reading" ELSE "error"

(* Fault: the exchange goes on after the deadline.                         *)
SpendOverdrawn(q) ==
    IF silent /\ Port(q) # Port(service) /\ Supported(q)
    THEN left' = 0
    ELSE left' \in {left, left - 1}

(* The time an exchange takes: all there is when the port swallows it, one *)
(* tick or less otherwise.                                                 *)
Spend(q) ==
    IF silent /\ Port(q) # Port(service) /\ Supported(q)
    THEN left' = 0
    ELSE left' \in {left, IF left = 0 THEN 0 ELSE left - 1}

(* How often a login that is rejected has been presented: over AES in both *)
(* of its shapes, one post each; over KLAP in one handshake, whose answer  *)
(* no login accounts for.                                                  *)
Presented(s) == IF s.encrypt = "AES" THEN 2 ELSE 1

(* An attempt over q had that reply.                                       *)
CountRefused(q, reply) ==
    refused' = IF reply = "unauthorized" THEN refused + Presented(q) ELSE refused

-----------------------------------------------------------------------------
(* Read.                                                                   *)

(* Connect unless there is a connection; a described device as described.  *)
Read ==
    /\ pc = "idle"
    /\ left' = Timeout
    /\ outcome' = "none"
    /\ disturbed' = FALSE
    /\ refused' = 0
    /\ next' = 0
    /\ candidate' = Nil
    /\ \/ /\ querier # Nil
          /\ pc' = "read"
          /\ UNCHANGED querier
       \/ /\ querier = Nil /\ discovered # Nil /\ Supported(discovered)
          /\ pc' = "read"
          /\ querier' = discovered
       \/ /\ querier = Nil /\ discovered = Nil
          /\ pc' = "ask"
          /\ UNCHANGED querier
    /\ UNCHANGED <<deviceVars, discovered, alias, deviceType, faults, shown>>

(* connectAs has no transport for the scheme discovery named.              *)
ReadUnsupported ==
    /\ pc = "idle"
    /\ querier = Nil /\ discovered # Nil /\ ~Supported(discovered)
    /\ outcome' = "failed"
    /\ disturbed' = FALSE
    /\ refused' = 0
    /\ UNCHANGED <<deviceVars, objectVars, pc, candidate, next, left, faults, shown>>

Try(q, n) == pc' = "try" /\ candidate' = q /\ next' = n

(* negotiate asks the device itself: collect listens until its deadline,   *)
(* answer or not.                                                          *)
Ask ==
    /\ pc = "ask"
    /\ left' = left - Budget
    /\ IF described # Nil /\ Supported(described)
       THEN Try(described, 0)
       ELSE Try(ProbeOrder[1], 1)
    /\ UNCHANGED <<deviceVars, objectVars, outcome, historyVars>>

(* negotiate returns its error, or Read's own: no connection is left.      *)
GiveUp ==
    /\ pc' = "idle"
    /\ outcome' = "failed"
    /\ querier' = Nil
    /\ UNCHANGED <<candidate, next>>

(* Fault: a rejected login is not the end of the loop.                     *)
AfterFailureStubborn(reply) ==
    IF next < Len(ProbeOrder)
    THEN Try(ProbeOrder[next + 1], next + 1) /\ UNCHANGED <<outcome, querier>>
    ELSE GiveUp

(* A failed attempt: the next candidate, unless the loop has reached the   *)
(* end of its list or a rejected login.                                    *)
AfterFailure(reply) ==
    IF next < Len(ProbeOrder) /\ (next > 0 => reply # "unauthorized")
    THEN Try(ProbeOrder[next + 1], next + 1) /\ UNCHANGED <<outcome, querier>>
    ELSE GiveUp

(* negotiate reads once over a candidate before it settles on it.          *)
Attempt ==
    /\ pc = "try"
    /\ Spend(candidate)
    /\ CountRefused(candidate, Reply(candidate))
    /\ IF Reply(candidate) = "reading"
       THEN /\ querier' = candidate
            /\ pc' = "read"
            /\ UNCHANGED <<candidate, next, outcome>>
       ELSE AfterFailure(Reply(candidate))
    /\ UNCHANGED <<deviceVars, discovered, alias, deviceType, faults, disturbed, shown>>

(* Fault: a reading without a name clears the remembered one.              *)
AliasAfterCleared == name

(* The remembered name, after a reading.                                   *)
AliasAfter == IF name # NoName THEN name ELSE alias

(* Device.Read's own read succeeds.                                        *)
ReadOK ==
    /\ pc = "read"
    /\ Reply(querier) = "reading"
    /\ Spend(querier)
    /\ pc' = "idle"
    /\ outcome' = "ok"
    /\ alias' = AliasAfter
    /\ deviceType' = "known"
    /\ shown' = IF name # NoName THEN name ELSE shown
    /\ UNCHANGED <<deviceVars, querier, discovered, candidate, next, faults, disturbed,
                   refused>>

(* Fault: the connection that failed is kept.                              *)
ReadFailsKept ==
    /\ pc = "read"
    /\ Reply(querier) # "reading"
    /\ Spend(querier)
    /\ CountRefused(querier, Reply(querier))
    /\ pc' = "idle"
    /\ outcome' = "failed"
    /\ UNCHANGED <<deviceVars, objectVars, candidate, next, faults, disturbed, shown>>

(* It fails, and the connection is dropped.                                *)
ReadFails ==
    /\ pc = "read"
    /\ Reply(querier) # "reading"
    /\ Spend(querier)
    /\ CountRefused(querier, Reply(querier))
    /\ GiveUp
    /\ UNCHANGED <<deviceVars, discovered, alias, deviceType, faults, disturbed, shown>>

(* Close, by the registry.                                                 *)
Close ==
    /\ pc = "idle"
    /\ querier # Nil
    /\ querier' = Nil
    /\ UNCHANGED <<deviceVars, discovered, alias, deviceType, readVars, historyVars>>

-----------------------------------------------------------------------------
(* The device and the network.                                             *)

Interfere ==
    /\ faults < MaxFaults
    /\ faults' = faults + 1
    /\ disturbed' = TRUE

(* An exchange is lost, or only its answer is: in the login of the AES     *)
(* transport that too is reported as a rejected login.                     *)
Lost ==
    /\ Interfere
    /\ \/ /\ pc = "ask"
          /\ left' \in {left, left - Budget}
          /\ Try(ProbeOrder[1], 1)
          /\ UNCHANGED <<querier, outcome, refused>>
       \/ /\ pc = "try"
          /\ left' \in {0, left}
          /\ \/ AfterFailure("error") /\ UNCHANGED refused
             \/ /\ candidate.encrypt = "AES"
                /\ AfterFailure("unauthorized")
                /\ CountRefused(candidate, "unauthorized")
       \/ /\ pc = "read"
          /\ left' \in {0, left}
          /\ GiveUp
          /\ \/ UNCHANGED refused
             \/ querier.encrypt = "AES" /\ CountRefused(querier, "unauthorized")
    /\ UNCHANGED <<deviceVars, discovered, alias, deviceType, shown>>

(* A reboot, a firmware update, another login, a router that drops.        *)
Change ==
    /\ Interfere
    /\ service' \in Services
    /\ described' \in Descriptions(service')
    /\ fits' \in BOOLEAN
    /\ silent' \in BOOLEAN
    /\ UNCHANGED <<name, objectVars, readVars, refused, shown>>

Rename ==
    /\ Interfere
    /\ name' \in (Names \cup {NoName}) \ {name}
    /\ UNCHANGED <<service, described, fits, silent, objectVars, readVars, refused, shown>>

Next ==
    \/ Read \/ ReadUnsupported \/ Ask \/ Attempt \/ ReadOK \/ ReadFails \/ Close
    \/ Lost \/ Change \/ Rename

(* Prometheus scrapes on, so Read is called again and again, and a Read    *)
(* that can go on does.                                                    *)
Fairness == WF_vars(Read \/ ReadUnsupported \/ Ask \/ Attempt \/ ReadOK \/ ReadFails)

Spec     == Init /\ [][Next]_vars
LiveSpec == Spec /\ Fairness

-----------------------------------------------------------------------------
(* Device.Alias, the label of a device that is not reachable.              *)
Label == IF alias # NoName THEN alias ELSE "address"

(* A device that fails is still reported under the last name it gave and   *)
(* in its own category (Device.alias, Device.deviceType).                  *)
SeriesKept == shown # "none" => Label = shown /\ deviceType # NoType

(* A login that does not fit is presented in two attempts of a Read at the *)
(* very most, as the device described itself and once more by probing: to  *)
(* a KLAP device twice, to an AES device, which is given both shapes each  *)
(* time, four times, and never more often, not even to one that changes    *)
(* between two attempts (negotiate, "there is nothing to gain from trying  *)
(* the rest").                                                             *)
FewRejectedLogins ==
    /\ refused <= 4
    /\ ~disturbed => refused <= 2 * Presented(service)

(* What this Device can find out how to talk to, left alone.               *)
Matches(q) ==
    /\ q.encrypt = service.encrypt /\ q.family = service.family
    /\ q.encrypt = "KLAP" => LoginVersion(q) = service.lv

Findable ==
    IF discovered # Nil
    THEN Supported(discovered) /\ Matches(discovered)
    ELSE \/ described # Nil /\ Matches(described)
         \/ service \in {KLAP("IOT", 2), KLAP("SMART", 2), AES}
         \/ service = XOR /\ ~silent

Readable ==
    /\ service \notin {Nil, Newer}
    /\ service # XOR => fits
    /\ Findable

(* A device that stays readable is read again, whatever state it and its   *)
(* Device were left in: a reboot, a firmware update of a configured host,  *)
(* a lost packet need no restart of the exporter (Read).                   *)
Recovers == []<>(outcome = "ok" \/ ~Readable)

(* README, Protocols: "A device that is reachable but never answered       *)
(* discovery is probed transport by transport"; klap.go, of the login      *)
(* version: "when that is missing, both are tried".  A Read of such a      *)
(* device fails only if its login does not fit.                            *)
ProbedUntilFound ==
    pc = "idle" /\ outcome = "failed" /\ ~disturbed =>
        \/ discovered # Nil \/ described # Nil
        \/ service \in {Nil, Newer}
        \/ silent
        \/ ~fits
=============================================================================
