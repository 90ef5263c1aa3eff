------------------------------ MODULE Dialects ------------------------------
(***************************************************************************)
(* The two dialects, kasa/iot.go and kasa/smart.go: what one Read asks of  *)
(* a device, which failures it tolerates, and what a querier remembers     *)
(* from one Read to the next.                                              *)
(*                                                                         *)
(* A Read runs under Device.mu.  Its steps are its queries, between which  *)
(* meters count on.  A query can be lost (the transport returns an error), *)
(* and a device that answers can fail to answer part of the question: a    *)
(* glitch.  A Read that fails makes Device.Read discard the querier.       *)
(***************************************************************************)
EXTENDS Integers, FiniteSets

CONSTANTS
    NOutlets,       \* how many outlets a strip has
    MaxFaults,      \* bound: losses and glitches
    MaxCount        \* bound: how far an outlet's meter counts

ASSUME DialectsAssumption ==
    /\ NOutlets \in Nat \ {0}      \* readSockets does nothing for none
    /\ {MaxFaults, MaxCount} \subseteq Nat

VARIABLES
    \* the device
    dialect,
    kind,           \* "bulb" is any light, "plug" any other device without children
    model,          \* the kind deviceTypeFor makes of its model
    meter,          \* IOT: the module its readings, or its outlets', are kept in
    supports,       \* SMART: the optional methods it has
    batching,       \* SMART: it answers a multipleRequest
    totals,         \* IOT strip: its outlets report a cumulative total, all alike
    count,          \* IOT strip: the cumulative meter of each outlet
    \* the querier
    emeterModule, deviceHasEmeter,      \* iotQuerier
    wants,                              \* smartQuerier: wantsEnergy, -Power, -Children
    \* the Read in progress
    pc, queries,
    results,                            \* SMART: the answers of the batch
    measured, failures, total,          \* readSockets
    reading,        \* what the last Read returned
    \* history
    faults,
    disturbed,      \* a loss or a glitch during this Read
    glitched,       \* a glitch in the life of this querier
    settled,        \* this querier has made an undisturbed Read
    lastTotal       \* the last cumulative total a strip reported

device  == <<dialect, kind, model, meter, supports, batching, totals>>
querier == <<emeterModule, deviceHasEmeter, wants>>
sockets == <<measured, failures, total>>
noise   == <<faults, disturbed>>
memory  == <<glitched, settled>>
vars    == <<device, count, querier, pc, queries, results, sockets, reading, noise,
             memory, lastTotal>>

Absent == -1
Modules == {"emeter", "smartlife"}
Methods == {"energy", "power", "children"}
Outlets == 1 .. NOutlets
NoResults == [answered |-> {}, usable |-> {}]

(* What a Read returns: the type of the device, whether it has energy      *)
(* readings, its cumulative total, and whether its outlets are listed.     *)
Failed == [ok |-> FALSE, type |-> "unknown", energy |-> FALSE, total |-> Absent, sockets |-> FALSE]
Reading(type, energy, kwh, listed) ==
    [ok |-> TRUE, type |-> type, energy |-> energy, total |-> kwh, sockets |-> listed]

(* The types of the device, the queriers and a Read.                       *)
TypeOK ==
    /\ dialect \in {"iot", "smart"}
    /\ {kind, model} \subseteq {"plug", "bulb", "strip", "hub"}
    /\ meter \in Modules \cup {"none"}
    /\ supports \subseteq Methods
    /\ {batching, totals} \subseteq BOOLEAN
    /\ count \in [Outlets -> 0 .. MaxCount]
    /\ emeterModule \in Modules
    /\ deviceHasEmeter \in BOOLEAN
    /\ wants \subseteq Methods
    /\ pc \in {"idle", "sysinfo", "emeter", "outlet", "batch", "info"}
    /\ queries \in 0 .. NOutlets + 2
    /\ results.answered \subseteq Methods \cup {"info"}
    /\ results.usable \subseteq results.answered
    /\ measured \in 0 .. NOutlets
    /\ failures \in 0 .. NOutlets - measured
    /\ total \in 0 .. NOutlets * MaxCount
    /\ reading.ok \in BOOLEAN
    /\ faults \in 0 .. MaxFaults
    /\ {disturbed, glitched, settled} \subseteq BOOLEAN
    /\ lastTotal \in Absent .. NOutlets * MaxCount

(* The devices there are: an IOT bulb may keep its meter under the other   *)
(* module's name, a strip's outlets have one each or none, only SMART has  *)
(* hubs, and a SMART strip may be of a model that is not recognised.       *)
Devices ==
    \/ /\ dialect = "iot" /\ supports = {} /\ batching = FALSE
       /\ \/ kind = "plug" /\ meter \in {"emeter", "none"}
          \/ kind = "bulb" /\ meter \in Modules \cup {"none"}
          \/ kind = "strip" /\ meter \in {"emeter", "none"}
       /\ model = kind
    \/ /\ dialect = "smart" /\ kind \in {"plug", "bulb", "strip", "hub"} /\ meter = "none"
       /\ supports \in SUBSET Methods
       /\ "children" \in supports <=> kind \in {"strip", "hub"}
       /\ batching \in BOOLEAN
       /\ model \in {kind} \cup (IF kind = "strip" THEN {"plug"} ELSE {})

Init ==
    /\ Devices
    /\ totals \in IF kind = "strip" /\ meter = "emeter" THEN BOOLEAN ELSE {FALSE}
    /\ count = [o \in Outlets |-> 0]
    /\ emeterModule = "emeter" /\ deviceHasEmeter = TRUE
    /\ wants = Methods
    /\ pc = "idle"
    /\ queries = 0
    /\ results = NoResults
    /\ measured = 0 /\ failures = 0 /\ total = 0
    /\ reading = Failed
    /\ faults = 0
    /\ disturbed = FALSE /\ glitched = FALSE /\ settled = FALSE
    /\ lastTotal = Absent

(* Time passes and an outlet uses energy.                                  *)
Consume(o) ==
    /\ totals
    /\ count[o] < MaxCount
    /\ count' = [count EXCEPT ![o] = @ + 1]
    /\ UNCHANGED <<device, querier, pc, queries, results, sockets, reading, noise,
                   memory, lastTotal>>

-----------------------------------------------------------------------------
(* A query and its ways to go wrong.                                       *)

Calm == UNCHANGED noise
Disturb == faults < MaxFaults /\ faults' = faults + 1 /\ disturbed' = TRUE

(* The query of this step is sent.                                         *)
Ask(step) ==
    /\ pc = step
    /\ queries' = queries + 1
    /\ UNCHANGED <<device, count>>

(* Read returns a reading.                                                 *)
Return(r) ==
    /\ pc' = "idle"
    /\ reading' = r
    /\ settled' = (settled \/ ~disturbed')
    /\ lastTotal' = IF r.total = Absent THEN lastTotal ELSE r.total

(* Read fails; Device.Read discards the querier and the next Read builds   *)
(* another.                                                                *)
Fail ==
    /\ pc' = "idle"
    /\ reading' = Failed
    /\ emeterModule' = "emeter" /\ deviceHasEmeter' = TRUE /\ wants' = Methods
    /\ glitched' = FALSE /\ settled' = FALSE
    /\ UNCHANGED lastTotal

(* Fault: the outlets of the last Read are still counted.                  *)
ReadCarriesOver ==
    /\ pc = "idle"
    /\ disturbed' = FALSE
    /\ queries' = 0
    /\ pc' = IF dialect = "iot" THEN "sysinfo" ELSE "batch"
    /\ results' = NoResults
    /\ UNCHANGED <<device, count, querier, reading, sockets, faults, memory, lastTotal>>

Read ==
    /\ pc = "idle"
    /\ disturbed' = FALSE
    /\ queries' = 0
    /\ pc' = IF dialect = "iot" THEN "sysinfo" ELSE "batch"
    /\ measured' = 0 /\ failures' = 0 /\ total' = 0
    /\ results' = NoResults
    /\ UNCHANGED <<device, count, querier, reading, faults, memory, lastTotal>>

(* The first query of a Read, or the plain get_device_info, is lost, or    *)
(* its answer is an error code, holds no sysinfo, or does not decode.      *)
ReadFails ==
    /\ \E step \in {"sysinfo", "batch", "info"} : Ask(step)
    /\ Disturb
    /\ Fail
    /\ UNCHANGED <<results, sockets>>

-----------------------------------------------------------------------------
(* IOT.                                                                    *)

(* The answers of a meter's module: "silent" if it is missing or answers   *)
(* with an error code of the module, "bad" if the reading itself carries   *)
(* an error or nothing usable.                                             *)
Answers == {"reading", "bad", "silent"}
Proper(module) == IF meter = module THEN "reading" ELSE "silent"
Possible(module) == IF meter = module THEN Answers ELSE {"silent"}
realtime(answer) == answer # "silent"       \* what realtime() returns is not nil
energy(answer) == answer = "reading"        \* what energy() returns is not nil

(* A glitch is an answer other than the proper one.                        *)
Hear(answer, proper) ==
    IF answer = proper THEN Calm /\ UNCHANGED glitched
                       ELSE Disturb /\ glitched' = TRUE

(* sysinfo of a strip: its outlets are next.                               *)
SysinfoStrip ==
    /\ kind = "strip"
    /\ Ask("sysinfo")
    /\ deviceHasEmeter' = FALSE
    /\ pc' = "outlet"
    /\ Calm
    /\ UNCHANGED <<emeterModule, wants, results, sockets, reading, memory, lastTotal>>

(* sysinfo with the answer of the meter, if it was asked.                  *)
SysinfoMetered ==
    /\ kind # "strip"
    /\ Ask("sysinfo")
    /\ deviceHasEmeter
    /\ \E a \in Possible(emeterModule) :
         /\ Hear(a, Proper(emeterModule))
         /\ \/ /\ realtime(a)
               /\ Return(Reading(kind, energy(a), Absent, FALSE))
               /\ UNCHANGED deviceHasEmeter
            \/ /\ ~realtime(a) /\ kind = "bulb"
               /\ pc' = "emeter"
               /\ UNCHANGED <<deviceHasEmeter, reading, settled, lastTotal>>
            \/ /\ ~realtime(a) /\ kind # "bulb"
               /\ deviceHasEmeter' = FALSE
               /\ Return(Reading(kind, FALSE, Absent, FALSE))
    /\ UNCHANGED <<emeterModule, wants, results, sockets>>

SysinfoOnly ==
    /\ kind # "strip"
    /\ Ask("sysinfo")
    /\ ~deviceHasEmeter
    /\ Calm
    /\ Return(Reading(kind, FALSE, Absent, FALSE))
    /\ UNCHANGED <<querier, glitched, results, sockets>>

(* The module retryEmeter asks next.                                       *)
Other == IF emeterModule = "smartlife" THEN "emeter" ELSE "smartlife"

(* Fault: the name that answered is not remembered.                        *)
RememberNothing(a) == deviceHasEmeter' = realtime(a) /\ UNCHANGED emeterModule

(* A hit switches to the other module, a miss ends the asking.             *)
Remember(a) ==
    /\ deviceHasEmeter' = realtime(a)
    /\ emeterModule' = IF realtime(a) THEN Other ELSE emeterModule

(* retryEmeter is answered.                                                *)
RetryEmeter ==
    /\ Ask("emeter")
    /\ \E a \in Possible(Other) :
         /\ Hear(a, Proper(Other))
         /\ Remember(a)
         /\ Return(Reading(kind, energy(a), Absent, FALSE))
    /\ UNCHANGED <<wants, results, sockets>>

(* Fault: a lost query counts as a miss.                                   *)
RetryEmeterLostGivesUp ==
    /\ Ask("emeter")
    /\ Disturb
    /\ deviceHasEmeter' = FALSE
    /\ Return(Reading(kind, FALSE, Absent, FALSE))
    /\ UNCHANGED <<emeterModule, wants, glitched, results, sockets>>

(* Its query is lost: no energy this time, and nothing is concluded.       *)
RetryEmeterLost ==
    /\ Ask("emeter")
    /\ Disturb
    /\ Return(Reading(kind, FALSE, Absent, FALSE))
    /\ UNCHANGED <<querier, glitched, results, sockets>>

-----------------------------------------------------------------------------
(* IOT strips: readSockets.                                                *)

(* Fault: the total is left out only if an outlet failed outright.         *)
StripTotalUnlessFailed(m, f, t) == IF totals /\ m > 0 /\ f = 0 THEN t ELSE Absent

(* The cumulative total, given how many outlets were measured and failed.  *)
StripTotal(m, f, t) == IF totals /\ m = NOutlets THEN t ELSE Absent

Outlet == queries                   \* the outlet that is next: sysinfo was the first query

addEnergy(sum, o) == sum + count[o]

(* An outlet is done, which makes m measured, f failed and a sum of t;     *)
(* after the last one the strip's own energy is derived.                   *)
EndOutlet(m, f, t) ==
    /\ measured' = m /\ failures' = f /\ total' = t
    /\ \/ /\ Outlet < NOutlets
          /\ UNCHANGED <<pc, reading, querier, settled, lastTotal>>
       \/ /\ Outlet = NOutlets /\ f < NOutlets
          /\ Return(Reading(kind, m > 0, StripTotal(m, f, t), TRUE))
          /\ UNCHANGED querier

(* An outlet's meter answers, without a reading in case of a glitch.       *)
SocketAnswers ==
    /\ Ask("outlet")
    /\ \E a \in Possible("emeter") :
         /\ Hear(a, Proper("emeter"))
         /\ IF energy(a) THEN EndOutlet(measured + 1, failures, addEnergy(total, Outlet))
                         ELSE EndOutlet(measured, failures, total)
    /\ UNCHANGED results

(* An outlet's query is lost; the strip fails if all of them are.          *)
SocketLost ==
    /\ Ask("outlet")
    /\ Disturb
    /\ \/ EndOutlet(measured, failures + 1, total) /\ UNCHANGED glitched
       \/ failures + 1 = NOutlets /\ Fail /\ UNCHANGED sockets
    /\ UNCHANGED results

-----------------------------------------------------------------------------
(* SMART.                                                                  *)

(* Fault: what the batch did not answer is asked for again next time.      *)
StillWantedAlways(res) == wants

(* What the batch did not answer is not asked for again.                   *)
StillWanted(res) == wants \cap res.answered

(* applyChildren: a device with children is a strip, unless it is a hub.   *)
TypeOf(res) == IF "children" \in res.usable /\ model # "hub" THEN "strip" ELSE model

(* readEnergy and applyChildren on the members of the batch.  One that     *)
(* does not decode adds nothing, but is asked for again.                   *)
Finish(res) ==
    /\ wants' = StillWanted(res)
    /\ Return(Reading(TypeOf(res), res.usable \cap {"energy", "power"} # {}, Absent,
                      "children" \in res.usable /\ model # "hub"))
    /\ UNCHANGED <<emeterModule, deviceHasEmeter>>

Batches(asked) == {[answered |-> a, usable |-> u] : a \in SUBSET asked, u \in SUBSET asked}

(* The batch is answered, one method at a time; without get_device_info    *)
(* it is asked for in a query of its own.  "info" is usable or ReadFails.  *)
Batch ==
    /\ Ask("batch")
    /\ LET asked == IF batching THEN {"info"} \cup (wants \cap supports) ELSE {} IN
       \E res \in Batches(asked) :
         /\ res.usable \subseteq res.answered
         /\ "info" \in res.answered => "info" \in res.usable
         /\ Hear(res, [answered |-> asked, usable |-> asked])
         /\ results' = res
         /\ \/ "info" \in res.answered /\ Finish(res)
            \/ /\ "info" \notin res.answered
               /\ pc' = "info"
               /\ UNCHANGED <<querier, reading, settled, lastTotal>>
    /\ UNCHANGED sockets

DeviceInfo ==
    /\ Ask("info")
    /\ Calm
    /\ Finish(results)
    /\ UNCHANGED <<results, sockets, glitched>>

-----------------------------------------------------------------------------
Next ==
    \/ Read \/ ReadFails
    \/ SysinfoStrip \/ SysinfoMetered \/ SysinfoOnly
    \/ RetryEmeter \/ RetryEmeterLost
    \/ SocketAnswers \/ SocketLost
    \/ Batch \/ DeviceInfo
    \/ \E o \in Outlets : Consume(o)

Spec == Init /\ [][Next]_vars

-----------------------------------------------------------------------------
(* The device has energy readings that a Read can get at: of a SMART       *)
(* device only those that a batch answers.                                 *)
Metered ==
    \/ dialect = "iot" /\ meter # "none"
    \/ dialect = "smart" /\ batching /\ supports \cap {"energy", "power"} # {}

ReadEnds == pc # "idle" /\ pc' = "idle"

(* The cumulative energy of a strip never goes down, whatever is lost or   *)
(* answered with an error between or during its Reads (readSockets: "a     *)
(* partial sum reads as a counter reset").                                 *)
TotalNeverFalls == [][lastTotal # Absent => lastTotal' >= lastTotal]_vars

(* An undisturbed Read is complete: the device's energy, outlets and type  *)
(* are what they are, and queries lost in earlier Reads have taught the    *)
(* querier nothing.  An error code has: the meter that answered with one   *)
(* is not asked again while the querier lives (retryEmeter: "a miss stops  *)
(* the device being asked for energy at all").                             *)
CompleteReading ==
    [][ReadEnds /\ ~disturbed' /\ ~glitched' =>
         /\ reading'.ok
         /\ reading'.energy <=> Metered
         /\ dialect = "iot" \/ batching =>
              reading'.type = kind /\ (reading'.sockets <=> kind = "strip")
         /\ dialect = "iot" /\ kind = "strip" => (reading'.total # Absent <=> totals)]_vars

(* Once a querier has made an undisturbed Read it asks for nothing the     *)
(* device cannot answer, whatever was lost before or since (iotQuerier:    *)
(* "later scrapes stop asking for a module that will never answer").       *)
NoDeadQuestions ==
    settled => /\ dialect = "smart" => wants \subseteq supports
               /\ dialect = "iot" /\ deviceHasEmeter => meter = emeterModule

(* Once a querier has made an undisturbed Read, every such Read costs one  *)
(* query, and one more per outlet of an IOT strip or for firmware without  *)
(* batches (iotQuerier.Read: "the common case - a plug - costs one round   *)
(* trip").                                                                 *)
SettledCost ==
    [][ReadEnds /\ settled /\ ~disturbed' =>
         queries' = 1 + (IF dialect = "iot" /\ kind = "strip" THEN NOutlets ELSE 0)
                      + (IF dialect = "smart" /\ ~batching THEN 1 ELSE 0)]_vars
=============================================================================
