--------------------------- MODULE DialectsProofs ---------------------------
(***************************************************************************)
(* Proofs about Dialects: the types, that the total of a strip never goes  *)
(* down, that an undisturbed Read is complete, that a settled querier asks *)
(* nothing in vain and what it costs, for strips of any number of outlets, *)
(* meters that count as far as they like and any number of faults.         *)
(***************************************************************************)
EXTENDS Dialects, TLAPS

(* What tells the devices apart, as far as a Read depends on it.           *)
DeviceInv ==
    /\ dialect = "smart" =>
         /\ meter = "none"
         /\ "children" \in supports <=> kind \in {"strip", "hub"}
         /\ IF kind = "strip" THEN model # "hub" ELSE model = kind
    /\ dialect = "iot" /\ kind # "bulb" => meter # "smartlife"
    /\ totals => dialect = "iot" /\ kind = "strip" /\ meter = "emeter"

(* Where a Read can be, and how many queries it has made by then.          *)
PlaceInv ==
    /\ pc \in {"sysinfo", "emeter", "outlet"} => dialect = "iot"
    /\ pc \in {"batch", "info"} => dialect = "smart"
    /\ pc \in {"sysinfo", "batch"} => queries = 0 /\ measured = 0 /\ failures = 0 /\ total = 0
    /\ pc = "emeter" => kind = "bulb" /\ queries = 1
    /\ pc = "info" => queries = 1
    /\ pc = "outlet" => kind = "strip" /\ queries \in Outlets /\ measured + failures < queries

(* The outlets read so far; all of them have a reading unless something    *)
(* disturbed the Read or they have no meter.                               *)
SocketInv ==
    /\ total <= measured * MaxCount
    /\ pc = "outlet" => ~deviceHasEmeter
    /\ pc = "outlet" /\ ~disturbed => measured = (IF meter = "emeter" THEN queries - 1 ELSE 0)

(* What an iotQuerier has concluded: a module is preferred only if it has  *)
(* answered, and a meter is given up only on the word of the device.       *)
IotInv ==
    /\ emeterModule = "smartlife" => meter = "smartlife"
    /\ dialect = "iot" /\ kind # "strip" /\ ~deviceHasEmeter /\ ~glitched => meter = "none"
    /\ pc = "emeter" /\ ~glitched => meter # emeterModule
    /\ pc = "emeter" /\ settled => disturbed

(* What a smartQuerier has concluded, and what a batch without             *)
(* get_device_info has left behind.                                        *)
SmartInv ==
    /\ dialect = "smart" /\ batching /\ ~glitched => supports \subseteq wants
    /\ pc = "info" => results.answered \subseteq supports \cup {"info"}
    /\ pc = "info" /\ batching => glitched /\ disturbed
    /\ pc = "info" /\ ~batching => results = NoResults

(* Sums over the first n outlets, of readings the meters have passed.      *)
Sums(s, n) ==
    /\ s \in [0 .. n -> Int]
    /\ s[0] = 0
    /\ \A o \in 1 .. n : s[o] <= s[o - 1] + count[o]

(* The last total is such a sum over all outlets, and a Read that has      *)
(* measured every outlet so far has not fallen behind it ...               *)
LastInv ==
    \E s : /\ Sums(s, NOutlets)
           /\ lastTotal # Absent => s[NOutlets] = lastTotal
           /\ pc = "outlet" /\ measured = queries - 1 => s[queries - 1] <= total

(* ... and has such a sum itself.                                          *)
TotalInv ==
    pc = "outlet" /\ measured = queries - 1 =>
        \E s : Sums(s, queries - 1) /\ s[queries - 1] = total

IndInv ==
    /\ TypeOK /\ DeviceInv /\ PlaceInv /\ SocketInv /\ IotInv /\ SmartInv
    /\ LastInv /\ TotalInv /\ NoDeadQuestions

(* What the three action properties say of one step.                       *)
TotalStep == lastTotal # Absent => lastTotal' >= lastTotal

CompleteStep ==
    ReadEnds /\ ~disturbed' /\ ~glitched' =>
         /\ reading'.ok
         /\ reading'.energy <=> Metered
         /\ dialect = "iot" \/ batching =>
              reading'.type = kind /\ (reading'.sockets <=> kind = "strip")
         /\ dialect = "iot" /\ kind = "strip" => (reading'.total # Absent <=> totals)

CostStep ==
    ReadEnds /\ settled /\ ~disturbed' =>
         queries' = 1 + (IF dialect = "iot" /\ kind = "strip" THEN NOutlets ELSE 0)
                      + (IF dialect = "smart" /\ ~batching THEN 1 ELSE 0)

Kept == IndInv' /\ TotalStep /\ CompleteStep /\ CostStep

-----------------------------------------------------------------------------
(* Lemmas about the operators.                                             *)

(* The bounds, and the numbers a Read counts with.                         *)
LEMMA Numbers ==
  /\ NOutlets \in Nat /\ NOutlets > 0 /\ MaxFaults \in Nat /\ MaxCount \in Nat
  /\ NOutlets * MaxCount \in Nat /\ Absent \in Int /\ Absent < 0
BY DialectsAssumption DEF Absent

(* m outlets of at most MaxCount each.                                     *)
LEMMA Products ==
  ASSUME NEW m \in 0 .. NOutlets
  PROVE  /\ m * MaxCount \in Nat /\ m * MaxCount <= NOutlets * MaxCount
         /\ (m + 1) * MaxCount = m * MaxCount + MaxCount
<1>1. PICK k \in Nat : NOutlets = m + k
  BY Numbers
<1>2. NOutlets * MaxCount = m * MaxCount + k * MaxCount
  BY <1>1, Numbers
<1>3. m * MaxCount \in Nat /\ k * MaxCount \in Nat
  BY Numbers
<1>4. (m + 1) * MaxCount = m * MaxCount + MaxCount
  BY Numbers
<1> QED  BY <1>2, <1>3, <1>4, Numbers

(* Something goes wrong.                                                   *)
LEMMA Disturbed ==
  ASSUME TypeOK, Disturb
  PROVE  faults' \in 0 .. MaxFaults /\ disturbed' \in BOOLEAN /\ disturbed'
BY Numbers DEF TypeOK, Disturb

(* An answer that is not the proper one is a fault, and only that is.      *)
LEMMA Heard ==
  ASSUME TypeOK, NEW a, NEW proper, Hear(a, proper)
  PROVE  /\ faults' \in 0 .. MaxFaults /\ disturbed' \in BOOLEAN /\ glitched' \in BOOLEAN
         /\ disturbed => disturbed'
         /\ glitched => glitched'
         /\ a # proper => disturbed' /\ glitched'
<1>0. faults \in 0 .. MaxFaults /\ disturbed \in BOOLEAN /\ glitched \in BOOLEAN
  BY DEF TypeOK
<1>1. CASE a = proper
  BY <1>0, <1>1 DEF Hear, Calm, noise
<1>2. CASE a # proper
  <2>1. Disturb /\ glitched' = TRUE
    BY <1>2 DEF Hear
  <2> QED  BY <2>1, Disturbed
<1> QED  BY <1>1, <1>2

(* A meter speaks only under the name of its own module, and without a     *)
(* fault it does.                                                          *)
LEMMA Spoken ==
  ASSUME NEW module \in Modules, NEW a \in Possible(module)
  PROVE  /\ realtime(a) \in BOOLEAN /\ energy(a) \in BOOLEAN
         /\ energy(a) => realtime(a)
         /\ realtime(a) => meter = module
         /\ a = Proper(module) => (energy(a) <=> meter = module)
         /\ a = Proper(module) => (realtime(a) <=> meter = module)
BY DEF Possible, Proper, realtime, energy, Answers

(* What Read returns.                                                      *)
LEMMA Returned ==
  ASSUME NEW k, NEW e, NEW x, NEW l, Return(Reading(k, e, x, l))
  PROVE  /\ pc' = "idle"
         /\ reading'.ok = TRUE /\ reading'.type = k /\ reading'.energy = e
         /\ reading'.total = x /\ reading'.sockets = l
         /\ reading'.ok \in BOOLEAN /\ settled' \in BOOLEAN
         /\ settled' <=> settled \/ ~disturbed'
         /\ lastTotal' = IF x = Absent THEN lastTotal ELSE x
<1>1. reading' = Reading(k, e, x, l) /\ pc' = "idle"
  BY DEF Return
<1>2. /\ reading'.ok = TRUE /\ reading'.type = k /\ reading'.energy = e
      /\ reading'.total = x /\ reading'.sockets = l
  BY <1>1 DEF Reading
<1>3. settled' = (settled \/ ~disturbed')
  BY DEF Return
<1>4. lastTotal' = IF x = Absent THEN lastTotal ELSE x
  BY DEF Return, Reading
<1> QED  BY <1>1, <1>2, <1>3, <1>4

-----------------------------------------------------------------------------
(* The invariant holds before the first Read.                              *)
LEMMA InitIndInv == Init => IndInv
<1> SUFFICES ASSUME Init PROVE IndInv
  OBVIOUS
<1> USE DEF Init
<1>1. /\ dialect \in {"iot", "smart"} /\ {kind, model} \subseteq {"plug", "bulb", "strip", "hub"}
      /\ meter \in Modules \cup {"none"} /\ supports \subseteq Methods
  BY DEF Devices, Modules
<1>2. {batching, totals} \subseteq BOOLEAN
  BY DEF Devices
<1>3. {disturbed, glitched, settled} \subseteq BOOLEAN /\ deviceHasEmeter \in BOOLEAN
  OBVIOUS
<1>4. reading.ok \in BOOLEAN
  BY DEF Failed
<1>5. count \in [Outlets -> 0 .. MaxCount] /\ lastTotal \in Absent .. NOutlets * MaxCount
  BY Numbers
<1>6. TypeOK
  BY <1>1, <1>2, <1>3, <1>4, <1>5, Numbers DEF TypeOK, Modules, NoResults
<1>7. DeviceInv
  BY DEF Devices, DeviceInv
<1>8. PlaceInv /\ SocketInv /\ IotInv
  BY Numbers DEF PlaceInv, SocketInv, IotInv
<1>9. SmartInv
  BY <1>1 DEF SmartInv
<1>10. LastInv
  <2> DEFINE z == [o \in 0 .. NOutlets |-> 0]
  <2>1. Sums(z, NOutlets)
    BY Numbers DEF Sums, Outlets
  <2> HIDE DEF z
  <2> QED  BY <2>1 DEF LastInv
<1>11. TotalInv /\ NoDeadQuestions
  BY DEF TotalInv, NoDeadQuestions
<1> QED  BY <1>6, <1>7, <1>8, <1>9, <1>10, <1>11 DEF IndInv

(* A Read has ended, and the strip's total is what it was.                 *)
LEMMA IdleKeeps ==
  ASSUME IndInv, pc' # "outlet", UNCHANGED <<device, count, lastTotal>>
  PROVE  DeviceInv' /\ LastInv' /\ TotalInv'
<1>1. DeviceInv'
  BY DEF IndInv, DeviceInv, device
<1>2. LastInv' /\ TotalInv'
  BY DEF IndInv, LastInv, TotalInv, Sums
<1> QED  BY <1>1, <1>2

-----------------------------------------------------------------------------
(* The steps.                                                              *)

(* A Read begins with nothing counted.                                     *)
LEMMA ReadKeeps == ASSUME IndInv, Read PROVE Kept
<1> USE DEF IndInv
<1>0. /\ pc = "idle" /\ queries' = 0 /\ measured' = 0 /\ failures' = 0 /\ total' = 0
      /\ results' = NoResults /\ disturbed' \in BOOLEAN
      /\ UNCHANGED <<device, count, querier, reading, faults, memory, lastTotal>>
      /\ pc' = IF dialect = "iot" THEN "sysinfo" ELSE "batch"
  BY DEF Read
<1>1. TypeOK'
  BY <1>0, Numbers DEF TypeOK, device, querier, memory, NoResults
<1>2. DeviceInv' /\ LastInv' /\ TotalInv'
  BY <1>0, IdleKeeps
<1>3. PlaceInv' /\ SocketInv'
  BY <1>0, Numbers DEF PlaceInv, SocketInv, device, TypeOK
<1>4. IotInv' /\ SmartInv' /\ NoDeadQuestions'
  BY <1>0 DEF IotInv, SmartInv, NoDeadQuestions, device, querier, memory
<1>5. TotalStep /\ CompleteStep /\ CostStep
  BY <1>0, Numbers DEF TypeOK, TotalStep, CompleteStep, CostStep, ReadEnds
<1> QED  BY <1>1, <1>2, <1>3, <1>4, <1>5 DEF Kept

(* A Read that fails leaves nothing of its querier.                        *)
LEMMA FailKeeps ==
  ASSUME IndInv, Fail, disturbed' \in BOOLEAN, disturbed', faults' \in 0 .. MaxFaults,
         queries' \in 0 .. NOutlets + 2, UNCHANGED <<device, count, results, sockets>>
  PROVE  Kept
<1> USE DEF IndInv
<1>0. /\ pc' = "idle" /\ reading' = Failed /\ emeterModule' = "emeter" /\ deviceHasEmeter'
      /\ deviceHasEmeter' \in BOOLEAN /\ wants' = Methods
      /\ glitched' \in BOOLEAN /\ settled' \in BOOLEAN /\ ~settled' /\ lastTotal' = lastTotal
  BY DEF Fail
<1>a. reading'.ok \in BOOLEAN
  BY <1>0 DEF Failed
<1>1. TypeOK'
  BY <1>0, <1>a DEF TypeOK, device, sockets, Modules
<1>2. DeviceInv' /\ LastInv' /\ TotalInv'
  BY <1>0, IdleKeeps
<1>3. PlaceInv' /\ SocketInv'
  BY <1>0 DEF PlaceInv, SocketInv, sockets
<1>4. IotInv' /\ NoDeadQuestions'
  BY <1>0 DEF IotInv, NoDeadQuestions
<1>5. SmartInv'
  BY <1>0 DEF SmartInv, device, TypeOK
<1>6. TotalStep /\ CompleteStep /\ CostStep
  BY <1>0, Numbers DEF TypeOK, TotalStep, CompleteStep, CostStep
<1> QED  BY <1>1, <1>2, <1>3, <1>4, <1>5, <1>6 DEF Kept

(* The first query of a Read fails.                                        *)
LEMMA ReadFailsKeeps == ASSUME IndInv, ReadFails PROVE Kept
<1>1. /\ Fail /\ Disturb /\ UNCHANGED <<device, count, results, sockets>>
      /\ pc \in {"sysinfo", "batch", "info"} /\ queries' = queries + 1
  BY DEF ReadFails, Ask
<1>2. queries' \in 0 .. NOutlets + 2
  BY <1>1, Numbers DEF IndInv, PlaceInv
<1> QED  BY <1>1, <1>2, Disturbed, FailKeeps DEF IndInv

(* A strip has described itself: no outlet is read yet.                    *)
LEMMA SysinfoStripKeeps == ASSUME IndInv, SysinfoStrip PROVE Kept
<1> USE DEF IndInv
<1>0. /\ pc = "sysinfo" /\ kind = "strip" /\ queries' = queries + 1 /\ pc' = "outlet"
      /\ ~deviceHasEmeter' /\ deviceHasEmeter' \in BOOLEAN
      /\ UNCHANGED <<device, count, emeterModule, wants, results, sockets, reading, noise,
                     memory, lastTotal>>
  BY DEF SysinfoStrip, Ask, Calm
<1>a. /\ dialect = "iot" /\ queries = 0 /\ measured = 0 /\ failures = 0 /\ total = 0
      /\ queries' = 1
  BY <1>0 DEF PlaceInv
<1>b. disturbed' \in BOOLEAN
  BY <1>0 DEF TypeOK, noise
<1>1. TypeOK'
  BY <1>0, <1>a, <1>b, Numbers DEF TypeOK, device, sockets, noise, memory
<1>2. DeviceInv'
  BY <1>0 DEF DeviceInv, device
<1>3. PlaceInv' /\ SocketInv'
  BY <1>0, <1>a, Numbers DEF PlaceInv, SocketInv, sockets, device, Outlets
<1>4. IotInv' /\ SmartInv' /\ NoDeadQuestions'
  BY <1>0, <1>a DEF IotInv, SmartInv, NoDeadQuestions, device, memory
<1>5. LastInv'
  <2>1. PICK s : Sums(s, NOutlets) /\ (lastTotal # Absent => s[NOutlets] = lastTotal)
    BY DEF LastInv
  <2>2. Sums(s, NOutlets)' /\ (lastTotal' # Absent => s[NOutlets] = lastTotal')
    BY <1>0, <2>1 DEF Sums
  <2>3. queries' - 1 = 0 /\ total' = 0 /\ s[0] = 0
    BY <1>0, <1>a, <2>1 DEF Sums, sockets
  <2>4. s[queries' - 1] <= total'
    BY <2>3
  <2> QED  BY <2>2, <2>4 DEF LastInv
<1>6. TotalInv'
  <2> DEFINE z == [o \in 0 .. 0 |-> 0]
  <2>1. Sums(z, 0)' /\ z[0] = 0
    BY DEF Sums
  <2> HIDE DEF z
  <2> QED  BY <1>0, <1>a, <2>1 DEF TotalInv, sockets
<1>7. TotalStep /\ CompleteStep /\ CostStep
  BY <1>0, Numbers DEF TypeOK, TotalStep, CompleteStep, CostStep, ReadEnds
<1> QED  BY <1>1, <1>2, <1>3, <1>4, <1>5, <1>6, <1>7 DEF Kept

(* The other first queries of the IOT dialect; a strip's is not one.       *)
LEMMA SysinfoMeteredKeeps == ASSUME IndInv, SysinfoMetered PROVE Kept
<1> USE DEF IndInv
<1>0. /\ pc = "sysinfo" /\ kind # "strip" /\ deviceHasEmeter
      /\ queries' = queries + 1
      /\ UNCHANGED <<device, count, emeterModule, wants, results, sockets>>
  BY DEF SysinfoMetered, Ask
<1>1. PICK a \in Possible(emeterModule) :
        /\ Hear(a, Proper(emeterModule))
        /\ \/ /\ realtime(a)
              /\ Return(Reading(kind, energy(a), Absent, FALSE))
              /\ UNCHANGED deviceHasEmeter
           \/ /\ ~realtime(a) /\ kind = "bulb"
              /\ pc' = "emeter"
              /\ UNCHANGED <<deviceHasEmeter, reading, settled, lastTotal>>
           \/ /\ ~realtime(a) /\ kind # "bulb"
              /\ deviceHasEmeter' = FALSE
              /\ Return(Reading(kind, FALSE, Absent, FALSE))
  BY DEF SysinfoMetered
<1>a. dialect = "iot" /\ queries' = 1 /\ emeterModule \in Modules
  BY <1>0 DEF PlaceInv, TypeOK
<1>s. /\ realtime(a) \in BOOLEAN /\ energy(a) \in BOOLEAN
      /\ energy(a) => realtime(a)
      /\ realtime(a) => meter = emeterModule
      /\ a = Proper(emeterModule) => (energy(a) <=> meter = emeterModule)
      /\ a = Proper(emeterModule) => (realtime(a) <=> meter = emeterModule)
  BY <1>a, Spoken
<1>h. /\ faults' \in 0 .. MaxFaults /\ disturbed' \in BOOLEAN /\ glitched' \in BOOLEAN
      /\ disturbed => disturbed'
      /\ glitched => glitched'
      /\ a # Proper(emeterModule) => disturbed' /\ glitched'
  BY <1>1, Heard
<1>m. emeterModule = "emeter" \/ meter = emeterModule
  BY <1>a DEF IotInv, Modules
<1>2. CASE realtime(a)
  <2>1. Return(Reading(kind, energy(a), Absent, FALSE)) /\ UNCHANGED deviceHasEmeter
    BY <1>1, <1>2
  <2>2. /\ pc' = "idle" /\ reading'.ok = TRUE /\ reading'.type = kind
        /\ reading'.energy = energy(a) /\ reading'.sockets = FALSE
        /\ reading'.ok \in BOOLEAN /\ settled' \in BOOLEAN /\ lastTotal' = lastTotal
    BY <2>1, Returned
  <2>3. TypeOK'
    BY <1>0, <1>a, <1>h, <2>1, <2>2, Numbers DEF TypeOK, device, sockets
  <2>4. DeviceInv' /\ LastInv' /\ TotalInv'
    BY <1>0, <2>2, IdleKeeps
  <2>5. PlaceInv' /\ SocketInv'
    BY <1>0, <2>2 DEF PlaceInv, SocketInv, sockets
  <2>6. IotInv' /\ SmartInv' /\ NoDeadQuestions'
    BY <1>0, <1>2, <1>a, <1>s, <2>1, <2>2 DEF IotInv, SmartInv, NoDeadQuestions, device
  <2>7. CompleteStep
    BY <1>0, <1>2, <1>a, <1>s, <1>h, <2>2 DEF CompleteStep, Metered, Modules
  <2>8. TotalStep /\ CostStep
    BY <1>0, <1>a, <2>2, Numbers DEF TypeOK, TotalStep, CostStep
  <2> QED  BY <2>3, <2>4, <2>5, <2>6, <2>7, <2>8 DEF Kept
<1>3. CASE ~realtime(a) /\ kind = "bulb"
  <2>1. pc' = "emeter" /\ UNCHANGED <<deviceHasEmeter, reading, settled, lastTotal>>
    BY <1>1, <1>3
  <2>3. TypeOK'
    BY <1>0, <1>a, <1>h, <2>1, Numbers DEF TypeOK, device, sockets
  <2>4. DeviceInv' /\ LastInv' /\ TotalInv'
    BY <1>0, <2>1, IdleKeeps
  <2>5. PlaceInv' /\ SocketInv'
    BY <1>0, <1>3, <1>a, <2>1 DEF PlaceInv, SocketInv, sockets, device
  <2>6. IotInv' /\ SmartInv' /\ NoDeadQuestions'
    BY <1>0, <1>3, <1>a, <1>s, <1>h, <2>1 DEF IotInv, SmartInv, NoDeadQuestions, device
  <2>7. TotalStep /\ CompleteStep /\ CostStep
    BY <2>1, Numbers DEF TypeOK, TotalStep, CompleteStep, CostStep, ReadEnds
  <2> QED  BY <2>3, <2>4, <2>5, <2>6, <2>7 DEF Kept
<1>4. CASE ~realtime(a) /\ kind # "bulb"
  <2>1. /\ Return(Reading(kind, FALSE, Absent, FALSE))
        /\ ~deviceHasEmeter' /\ deviceHasEmeter' \in BOOLEAN
    BY <1>1, <1>4
  <2>2. /\ pc' = "idle" /\ reading'.ok = TRUE /\ reading'.type = kind
        /\ reading'.energy = FALSE /\ reading'.sockets = FALSE
        /\ reading'.ok \in BOOLEAN /\ settled' \in BOOLEAN /\ lastTotal' = lastTotal
    BY <2>1, Returned
  <2>n. ~glitched' => meter = "none"
    BY <1>4, <1>a, <1>s, <1>h, <1>m DEF TypeOK, DeviceInv, Modules
  <2>3. TypeOK'
    BY <1>0, <1>a, <1>h, <2>1, <2>2, Numbers DEF TypeOK, device, sockets
  <2>4. DeviceInv' /\ LastInv' /\ TotalInv'
    BY <1>0, <2>2, IdleKeeps
  <2>5. PlaceInv' /\ SocketInv'
    BY <1>0, <2>2 DEF PlaceInv, SocketInv, sockets
  <2>6. IotInv' /\ SmartInv' /\ NoDeadQuestions'
    BY <1>0, <1>a, <2>1, <2>2, <2>n DEF IotInv, SmartInv, NoDeadQuestions, device
  <2>7. CompleteStep
    BY <1>0, <1>a, <2>2, <2>n DEF CompleteStep, Metered
  <2>8. TotalStep /\ CostStep
    BY <1>0, <1>a, <2>2, Numbers DEF TypeOK, TotalStep, CostStep
  <2> QED  BY <2>3, <2>4, <2>5, <2>6, <2>7, <2>8 DEF Kept
<1> QED  BY <1>2, <1>3, <1>4, <1>s

(* A device without a meter has described itself.                          *)
LEMMA SysinfoOnlyKeeps == ASSUME IndInv, SysinfoOnly PROVE Kept
<1> USE DEF IndInv
<1>0. /\ pc = "sysinfo" /\ kind # "strip" /\ ~deviceHasEmeter /\ queries' = queries + 1
      /\ Return(Reading(kind, FALSE, Absent, FALSE))
      /\ UNCHANGED <<device, count, querier, glitched, results, sockets, noise>>
  BY DEF SysinfoOnly, Ask, Calm
<1>a. dialect = "iot" /\ queries' = 1 /\ disturbed' \in BOOLEAN /\ glitched' \in BOOLEAN
  BY <1>0 DEF PlaceInv, TypeOK, noise
<1>1. /\ pc' = "idle" /\ reading'.ok = TRUE /\ reading'.type = kind
      /\ reading'.energy = FALSE /\ reading'.sockets = FALSE
      /\ reading'.ok \in BOOLEAN /\ settled' \in BOOLEAN /\ lastTotal' = lastTotal
  BY <1>0, Returned
<1>2. TypeOK'
  BY <1>0, <1>a, <1>1, Numbers DEF TypeOK, device, querier, sockets, noise
<1>3. DeviceInv' /\ LastInv' /\ TotalInv'
  BY <1>0, <1>1, IdleKeeps
<1>4. PlaceInv' /\ SocketInv'
  BY <1>0, <1>1 DEF PlaceInv, SocketInv, sockets
<1>5. IotInv' /\ SmartInv' /\ NoDeadQuestions'
  BY <1>0, <1>a, <1>1 DEF IotInv, SmartInv, NoDeadQuestions, device, querier
<1>6. CompleteStep
  BY <1>0, <1>a, <1>1 DEF CompleteStep, Metered, IotInv
<1>7. TotalStep /\ CostStep
  BY <1>0, <1>a, <1>1, Numbers DEF TypeOK, TotalStep, CostStep
<1> QED  BY <1>2, <1>3, <1>4, <1>5, <1>6, <1>7 DEF Kept

(* The bulb's meter is asked for under its other name.                     *)
LEMMA RetryEmeterKeeps == ASSUME IndInv, RetryEmeter PROVE Kept
<1> USE DEF IndInv
<1>0. /\ pc = "emeter" /\ queries' = queries + 1
      /\ UNCHANGED <<device, count, wants, results, sockets>>
  BY DEF RetryEmeter, Ask
<1>1. PICK a \in Possible(Other) :
        /\ Hear(a, Proper(Other))
        /\ Remember(a)
        /\ Return(Reading(kind, energy(a), Absent, FALSE))
  BY DEF RetryEmeter
<1>a. /\ dialect = "iot" /\ kind = "bulb" /\ queries' = 2 /\ emeterModule \in Modules
      /\ Other \in Modules /\ Other # emeterModule
  BY <1>0 DEF PlaceInv, TypeOK, Other, Modules
<1>s. /\ realtime(a) \in BOOLEAN /\ energy(a) \in BOOLEAN
      /\ energy(a) => realtime(a)
      /\ realtime(a) => meter = Other
      /\ a = Proper(Other) => (energy(a) <=> meter = Other)
      /\ a = Proper(Other) => (realtime(a) <=> meter = Other)
  BY <1>a, Spoken
<1>h. /\ faults' \in 0 .. MaxFaults /\ disturbed' \in BOOLEAN /\ glitched' \in BOOLEAN
      /\ disturbed => disturbed'
      /\ glitched => glitched'
      /\ a # Proper(Other) => disturbed' /\ glitched'
  BY <1>1, Heard
<1>r. /\ deviceHasEmeter' \in BOOLEAN /\ (deviceHasEmeter' <=> realtime(a))
      /\ emeterModule' = IF realtime(a) THEN Other ELSE emeterModule
  BY <1>1, <1>s DEF Remember
<1>2. /\ pc' = "idle" /\ reading'.ok = TRUE /\ reading'.type = kind
      /\ reading'.energy = energy(a) /\ reading'.sockets = FALSE
      /\ reading'.ok \in BOOLEAN /\ settled' \in BOOLEAN /\ lastTotal' = lastTotal
  BY <1>1, Returned
<1>n. ~glitched' /\ meter # Other => meter = "none"
  BY <1>0, <1>a, <1>h DEF TypeOK, IotInv, Modules, Other
<1>3. TypeOK'
  <2>1. emeterModule' \in Modules
    BY <1>a, <1>r
  <2> QED  BY <1>0, <1>a, <1>h, <1>r, <1>2, <2>1, Numbers DEF TypeOK, device, sockets
<1>4. DeviceInv' /\ LastInv' /\ TotalInv'
  BY <1>0, <1>2, IdleKeeps
<1>5. PlaceInv' /\ SocketInv'
  BY <1>0, <1>2 DEF PlaceInv, SocketInv, sockets
<1>6. IotInv'
  <2>1. emeterModule' = "smartlife" => meter = "smartlife"
    BY <1>s, <1>r DEF IotInv
  <2>2. ~deviceHasEmeter' /\ ~glitched' => meter = "none"
    BY <1>s, <1>h, <1>r, <1>n
  <2>3. UNCHANGED <<dialect, kind, meter>>
    BY <1>0 DEF device
  <2> QED  BY <1>2, <2>1, <2>2, <2>3 DEF IotInv
<1>7. SmartInv' /\ NoDeadQuestions'
  BY <1>0, <1>a, <1>s, <1>r, <1>2 DEF SmartInv, NoDeadQuestions, device
<1>8. CompleteStep
  BY <1>0, <1>a, <1>s, <1>h, <1>n, <1>2 DEF CompleteStep, Metered, Modules
<1>9. TotalStep /\ CostStep
  BY <1>0, <1>h, <1>2, Numbers DEF TypeOK, TotalStep, CostStep, IotInv
<1> QED  BY <1>3, <1>4, <1>5, <1>6, <1>7, <1>8, <1>9 DEF Kept

(* That query is lost: the Read is disturbed and the querier as it was.    *)
LEMMA RetryEmeterLostKeeps == ASSUME IndInv, RetryEmeterLost PROVE Kept
<1> USE DEF IndInv
<1>0. /\ pc = "emeter" /\ queries' = queries + 1 /\ Disturb
      /\ Return(Reading(kind, FALSE, Absent, FALSE))
      /\ UNCHANGED <<device, count, querier, glitched, results, sockets>>
  BY DEF RetryEmeterLost, Ask
<1>a. /\ dialect = "iot" /\ queries' = 2 /\ glitched' \in BOOLEAN
      /\ disturbed' \in BOOLEAN /\ disturbed' /\ faults' \in 0 .. MaxFaults
  BY <1>0, Disturbed DEF PlaceInv, TypeOK
<1>1. /\ pc' = "idle" /\ reading'.ok \in BOOLEAN /\ settled' \in BOOLEAN
      /\ settled' => settled
      /\ lastTotal' = lastTotal
  BY <1>0, <1>a, Returned
<1>2. TypeOK'
  BY <1>0, <1>a, <1>1, Numbers DEF TypeOK, device, querier, sockets
<1>3. DeviceInv' /\ LastInv' /\ TotalInv'
  BY <1>0, <1>1, IdleKeeps
<1>4. PlaceInv' /\ SocketInv'
  BY <1>0, <1>1 DEF PlaceInv, SocketInv, sockets
<1>5. IotInv' /\ SmartInv' /\ NoDeadQuestions'
  BY <1>0, <1>a, <1>1 DEF IotInv, SmartInv, NoDeadQuestions, device, querier
<1>6. TotalStep /\ CompleteStep /\ CostStep
  BY <1>a, <1>1, Numbers DEF TypeOK, TotalStep, CompleteStep, CostStep
<1> QED  BY <1>2, <1>3, <1>4, <1>5, <1>6 DEF Kept

(* A meter counts on: what has been read of it is still not more.          *)
LEMMA ConsumeKeeps ==
  ASSUME IndInv, NEW o \in Outlets, Consume(o) PROVE Kept
<1> USE DEF IndInv
<1>0. /\ count[o] < MaxCount /\ count' = [count EXCEPT ![o] = count[o] + 1]
      /\ UNCHANGED <<device, querier, pc, queries, results, sockets, reading, noise,
                     memory, lastTotal>>
  BY DEF Consume
<1>b. disturbed' \in BOOLEAN /\ deviceHasEmeter' \in BOOLEAN
  BY <1>0 DEF TypeOK, noise, querier
<1>c. count' \in [Outlets -> 0 .. MaxCount] /\ \A u \in Outlets : count[u] <= count'[u]
  BY <1>0, Numbers DEF TypeOK
<1>1. TypeOK'
  BY <1>0, <1>b, <1>c DEF TypeOK, device, querier, sockets, noise, memory
<1>2. DeviceInv' /\ PlaceInv' /\ SocketInv'
  BY <1>0 DEF DeviceInv, PlaceInv, SocketInv, device, querier, sockets, noise
<1>3. IotInv' /\ SmartInv' /\ NoDeadQuestions'
  BY <1>0 DEF IotInv, SmartInv, NoDeadQuestions, device, querier, noise, memory
<1>4. ASSUME NEW s, NEW n \in 0 .. NOutlets, Sums(s, n) PROVE Sums(s, n)'
  <2>1. s \in [0 .. n -> Int] /\ s[0] = 0
    BY <1>4 DEF Sums
  <2>2. ASSUME NEW u \in 1 .. n PROVE s[u] <= s[u - 1] + count'[u]
    <3>1. u \in Outlets /\ s[u] \in Int /\ s[u - 1] \in Int
      BY <2>1, Numbers DEF Outlets
    <3>2. count[u] \in Int /\ count'[u] \in Int /\ count[u] <= count'[u]
      BY <1>c, <3>1, Numbers DEF TypeOK
    <3> QED  BY <1>4, <3>1, <3>2 DEF Sums
  <2> QED  BY <2>1, <2>2 DEF Sums
<1>5. LastInv'
  <2>1. PICK s : /\ Sums(s, NOutlets)
                 /\ lastTotal # Absent => s[NOutlets] = lastTotal
                 /\ pc = "outlet" /\ measured = queries - 1 => s[queries - 1] <= total
    BY DEF LastInv
  <2>2. Sums(s, NOutlets)'
    BY <1>4, <2>1, Numbers
  <2> QED  BY <1>0, <2>1, <2>2 DEF LastInv, sockets
<1>6. TotalInv'
  <2> SUFFICES ASSUME pc = "outlet", NEW n \in 0 .. NOutlets, n = queries - 1, measured = n
               PROVE  \E s : Sums(s, n)' /\ s[n] = total
    BY <1>0, Numbers DEF TotalInv, PlaceInv, Outlets, sockets
  <2>1. PICK s : Sums(s, n) /\ s[n] = total
    BY DEF TotalInv
  <2> QED  BY <1>4, <2>1
<1>7. TotalStep /\ CompleteStep /\ CostStep
  BY <1>0, Numbers DEF TypeOK, TotalStep, CompleteStep, CostStep, ReadEnds
<1> QED  BY <1>1, <1>2, <1>3, <1>5, <1>6, <1>7 DEF Kept

-----------------------------------------------------------------------------
(* The outlets of a strip.                                                 *)

(* Reading one more outlet extends the sum of this Read, and keeps it      *)
(* ahead of any sum of earlier readings.                                   *)
LEMMA SumsExtended ==
  ASSUME IndInv, pc = "outlet", measured = queries - 1, NEW t, t = total + count[queries]
  PROVE  /\ \E s : Sums(s, queries) /\ s[queries] = t
         /\ \A s : Sums(s, NOutlets) /\ s[queries - 1] <= total => s[queries] <= t
<1>0. /\ queries \in Outlets /\ queries \in 1 .. NOutlets /\ total \in Int /\ t \in Int
      /\ count[queries] \in Int /\ NOutlets \in Nat
  BY Numbers DEF IndInv, TypeOK, PlaceInv, Outlets
<1>1. \E s : Sums(s, queries) /\ s[queries] = t
  <2>1. PICK s : Sums(s, queries - 1) /\ s[queries - 1] = total
    BY DEF IndInv, TotalInv
  <2> DEFINE r == [o \in 0 .. queries |-> IF o = queries THEN t ELSE s[o]]
  <2>2. r \in [0 .. queries -> Int] /\ r[0] = 0 /\ r[queries] = t
    BY <1>0, <2>1 DEF Sums
  <2>3. ASSUME NEW o \in 1 .. queries PROVE r[o] <= r[o - 1] + count[o]
    <3>1. CASE o = queries
      BY <1>0, <2>1, <3>1
    <3>2. CASE o # queries
      BY <1>0, <2>1, <3>2 DEF Sums
    <3> QED  BY <3>1, <3>2
  <2>4. Sums(r, queries)
    BY <2>2, <2>3 DEF Sums
  <2> QED  BY <2>2, <2>4
<1>2. ASSUME NEW s, Sums(s, NOutlets), s[queries - 1] <= total PROVE s[queries] <= t
  <2>1. /\ s[queries] <= s[queries - 1] + count[queries]
        /\ s[queries] \in Int /\ s[queries - 1] \in Int
    BY <1>0, <1>2 DEF Sums
  <2> QED  BY <1>0, <1>2, <2>1
<1> QED  BY <1>1, <1>2

(* An outlet is done, with a reading or without one; without one though it *)
(* has a meter only if something went wrong.                               *)
LEMMA EndOutletKeeps ==
  ASSUME IndInv, pc = "outlet", queries' = queries + 1,
         NEW m, NEW f, NEW t, EndOutlet(m, f, t),
         \/ meter = "emeter" /\ m = measured + 1 /\ f = failures /\ t = total + count[queries]
         \/ /\ m = measured /\ f \in {failures, failures + 1} /\ t = total
            /\ disturbed' \/ meter # "emeter",
         faults' \in 0 .. MaxFaults, disturbed' \in BOOLEAN, glitched' \in BOOLEAN,
         disturbed => disturbed', UNCHANGED <<device, count, results>>
  PROVE  Kept
<1> USE DEF IndInv
<1>d. UNCHANGED <<dialect, kind, model, meter, supports, batching, totals, count, results>>
  BY DEF device
<1>0. /\ dialect = "iot" /\ kind = "strip" /\ queries \in 1 .. NOutlets
      /\ measured + failures < queries /\ measured \in Nat /\ failures \in Nat
      /\ total \in Nat /\ count[queries] \in 0 .. MaxCount /\ ~deviceHasEmeter
      /\ measured' = m /\ failures' = f /\ total' = t
  BY Numbers DEF TypeOK, PlaceInv, SocketInv, Outlets, EndOutlet
<1>1. /\ m \in Nat /\ f \in Nat /\ t \in Nat /\ m + f <= queries
      /\ measured <= m
      /\ m = queries => measured = queries - 1 /\ t = total + count[queries]
  BY <1>0, Numbers
<1>2. t <= m * MaxCount /\ t <= NOutlets * MaxCount
  <2>1. /\ measured \in 0 .. NOutlets /\ m \in 0 .. NOutlets
    BY <1>0, <1>1, Numbers
  <2>2. /\ (measured + 1) * MaxCount = measured * MaxCount + MaxCount
        /\ measured * MaxCount \in Nat /\ m * MaxCount \in Nat
        /\ m * MaxCount <= NOutlets * MaxCount
    BY <2>1, Products
  <2>3. t <= m * MaxCount
    <3>1. CASE m = measured + 1 /\ t = total + count[queries]
      BY <1>0, <2>2, <3>1, Numbers DEF SocketInv
    <3>2. CASE m = measured /\ t = total
      BY <3>2 DEF SocketInv
    <3> QED  BY <3>1, <3>2
  <2> QED  BY <1>1, <2>2, <2>3, Numbers
<1>t. /\ queries' \in 0 .. NOutlets + 2 /\ measured' \in 0 .. NOutlets
      /\ failures' \in 0 .. NOutlets - measured' /\ total' \in 0 .. NOutlets * MaxCount
  BY <1>0, <1>1, <1>2, Numbers
<1>3. ~disturbed' => m = IF meter = "emeter" THEN queries ELSE 0
  BY <1>0, Numbers DEF SocketInv
<1>4. CASE queries < NOutlets
  <2>0. UNCHANGED <<pc, reading, querier, settled, lastTotal>>
    <3>1. queries # NOutlets
      BY <1>0, <1>4, Numbers
    <3> QED  BY <3>1, Zenon DEF EndOutlet, Outlet
  <2>b. /\ deviceHasEmeter' \in BOOLEAN /\ settled' \in BOOLEAN /\ reading'.ok \in BOOLEAN
        /\ emeterModule' \in Modules /\ wants' \subseteq Methods
        /\ lastTotal' \in Absent .. NOutlets * MaxCount
    BY <2>0 DEF querier, TypeOK
  <2>1. TypeOK'
    BY <1>d, <1>t, <2>0, <2>b DEF TypeOK
  <2>2. DeviceInv' /\ IotInv' /\ SmartInv' /\ NoDeadQuestions'
    BY <1>d, <1>0, <2>0 DEF DeviceInv, IotInv, SmartInv, NoDeadQuestions, querier
  <2>3. PlaceInv'
    BY <1>d, <1>0, <1>1, <1>4, <2>0, Numbers DEF PlaceInv, Outlets
  <2>4. SocketInv'
    BY <1>d, <1>0, <1>2, <1>3, <2>0 DEF SocketInv, querier
  <2>5. LastInv'
    <3>1. PICK s : /\ Sums(s, NOutlets)
                   /\ lastTotal # Absent => s[NOutlets] = lastTotal
                   /\ measured = queries - 1 => s[queries - 1] <= total
      BY DEF LastInv
    <3>2. m = queries => s[queries] <= t
      BY <1>1, <3>1, SumsExtended
    <3>3. Sums(s, NOutlets)'
      BY <1>d, <3>1 DEF Sums
    <3>4. queries' - 1 = queries
      BY <1>0
    <3> QED  BY <1>0, <2>0, <3>1, <3>2, <3>3, <3>4 DEF LastInv
  <2>6. TotalInv'
    <3> SUFFICES ASSUME NEW n \in Nat, n = queries, m = n
                 PROVE  \E s : Sums(s, n)' /\ s[n] = t
      BY <1>0, <2>0 DEF TotalInv
    <3>1. PICK s : Sums(s, n) /\ s[n] = t
      BY <1>1, SumsExtended
    <3> QED  BY <1>d, <3>1 DEF Sums
  <2>7. TotalStep /\ CompleteStep /\ CostStep
    BY <2>0, Numbers DEF TypeOK, TotalStep, CompleteStep, CostStep, ReadEnds
  <2> QED  BY <2>1, <2>2, <2>3, <2>4, <2>5, <2>6, <2>7 DEF Kept
<1>5. CASE queries = NOutlets
  <2> DEFINE x == StripTotal(m, f, t)
  <2>0. Return(Reading(kind, m > 0, x, TRUE)) /\ UNCHANGED querier
    <3>1. ~(queries < NOutlets)
      BY <1>0, <1>5, Numbers
    <3> QED  BY <3>1, Zenon DEF EndOutlet, Outlet
  <2>x. x = IF totals /\ m = NOutlets THEN t ELSE Absent
    BY DEF StripTotal
  <2> HIDE DEF x
  <2>1. /\ pc' = "idle"
        /\ reading'.ok = TRUE /\ reading'.type = kind /\ reading'.energy = (m > 0)
        /\ reading'.total = x /\ reading'.sockets = TRUE
        /\ reading'.ok \in BOOLEAN /\ settled' \in BOOLEAN
        /\ lastTotal' = IF x = Absent THEN lastTotal ELSE x
    BY <2>0, Returned
  <2>b. /\ deviceHasEmeter' \in BOOLEAN /\ emeterModule' \in Modules /\ wants' \subseteq Methods
    BY <2>0 DEF querier, TypeOK
  <2>l. /\ totals /\ m = NOutlets => lastTotal' = t
        /\ ~(totals /\ m = NOutlets) => lastTotal' = lastTotal
    BY <1>1, <2>1, <2>x, Numbers
  <2>2. TypeOK'
    <3>1. lastTotal' \in Absent .. NOutlets * MaxCount
      BY <1>1, <1>2, <2>l, Numbers DEF TypeOK
    <3> QED  BY <1>d, <1>t, <2>1, <2>b, <3>1 DEF TypeOK
  <2>3. DeviceInv' /\ IotInv' /\ SmartInv' /\ NoDeadQuestions'
    BY <1>d, <1>0, <2>0, <2>1 DEF DeviceInv, IotInv, SmartInv, NoDeadQuestions, querier
  <2>4. PlaceInv' /\ SocketInv' /\ TotalInv'
    BY <1>0, <1>2, <2>1 DEF PlaceInv, SocketInv, TotalInv
  <2>s. PICK s : /\ Sums(s, NOutlets)
                 /\ lastTotal # Absent => s[NOutlets] = lastTotal
                 /\ measured = queries - 1 => s[queries - 1] <= total
    BY DEF LastInv
  <2>5. LastInv'
    <3>1. CASE totals /\ m = NOutlets
      <4>1. PICK r : Sums(r, NOutlets) /\ r[NOutlets] = t
        BY <1>1, <1>5, <3>1, SumsExtended
      <4>2. Sums(r, NOutlets)'
        BY <1>d, <4>1 DEF Sums
      <4> QED  BY <2>1, <2>l, <3>1, <4>1, <4>2 DEF LastInv
    <3>2. CASE ~(totals /\ m = NOutlets)
      <4>1. Sums(s, NOutlets)'
        BY <1>d, <2>s DEF Sums
      <4> QED  BY <2>1, <2>l, <2>s, <3>2, <4>1 DEF LastInv
    <3> QED  BY <3>1, <3>2
  <2>6. TotalStep
    <3>1. CASE totals /\ m = NOutlets
      <4>1. s[NOutlets] <= t
        BY <1>1, <1>5, <2>s, <3>1, SumsExtended
      <4>2. lastTotal \in Int /\ t \in Int
        BY <1>1, Numbers DEF TypeOK
      <4> QED  BY <2>l, <2>s, <3>1, <4>1, <4>2 DEF TotalStep
    <3>2. CASE ~(totals /\ m = NOutlets)
      BY <2>l, <3>2, Numbers DEF TotalStep, TypeOK
    <3> QED  BY <3>1, <3>2
  <2>7. CompleteStep
    <3> SUFFICES ASSUME ~disturbed'
                 PROVE  (m > 0 <=> Metered) /\ (x # Absent <=> totals)
      BY <1>0, <2>1 DEF CompleteStep
    <3>1. m = IF meter = "emeter" THEN NOutlets ELSE 0
      BY <1>3, <1>5
    <3>2. meter # "emeter" => meter = "none" /\ ~totals
      BY <1>0 DEF DeviceInv, TypeOK, Modules
    <3>3. m > 0 <=> Metered
      BY <1>0, <3>1, <3>2, Numbers DEF Metered
    <3>4. x # Absent <=> totals
      BY <1>1, <2>x, <3>1, <3>2, Numbers
    <3> QED  BY <3>3, <3>4
  <2>8. CostStep
    BY <1>0, <1>5, Numbers DEF CostStep
  <2> QED  BY <2>2, <2>3, <2>4, <2>5, <2>6, <2>7, <2>8 DEF Kept
<1> QED  BY <1>0, <1>4, <1>5, Numbers

(* An outlet answers, with a reading or without.                           *)
LEMMA SocketAnswersKeeps == ASSUME IndInv, SocketAnswers PROVE Kept
<1>0. /\ pc = "outlet" /\ queries' = queries + 1 /\ UNCHANGED <<device, count, results>>
  BY DEF SocketAnswers, Ask
<1>1. PICK a \in Possible("emeter") :
        /\ Hear(a, Proper("emeter"))
        /\ IF energy(a) THEN EndOutlet(measured + 1, failures, addEnergy(total, Outlet))
                        ELSE EndOutlet(measured, failures, total)
  BY DEF SocketAnswers
<1>s. /\ energy(a) \in BOOLEAN /\ energy(a) => meter = "emeter"
      /\ a = Proper("emeter") => (energy(a) <=> meter = "emeter")
  BY Spoken DEF Modules
<1>h. /\ faults' \in 0 .. MaxFaults /\ disturbed' \in BOOLEAN /\ glitched' \in BOOLEAN
      /\ disturbed => disturbed'
      /\ a # Proper("emeter") => disturbed' /\ glitched'
  BY <1>1, Heard DEF IndInv
<1>2. CASE energy(a)
  <2>1. EndOutlet(measured + 1, failures, total + count[queries]) /\ meter = "emeter"
    BY <1>1, <1>s, <1>2 DEF addEnergy, Outlet
  <2> QED  BY <1>0, <1>h, <2>1, EndOutletKeeps
<1>3. CASE ~energy(a)
  <2>1. EndOutlet(measured, failures, total) /\ (disturbed' \/ meter # "emeter")
    BY <1>1, <1>s, <1>h, <1>3
  <2> QED  BY <1>0, <1>h, <2>1, EndOutletKeeps
<1> QED  BY <1>2, <1>3

(* An outlet is not heard of: one more has failed, or all have.            *)
LEMMA SocketLostKeeps == ASSUME IndInv, SocketLost PROVE Kept
<1>0. /\ pc = "outlet" /\ queries' = queries + 1 /\ UNCHANGED <<device, count, results>>
      /\ Disturb
  BY DEF SocketLost, Ask
<1>1. faults' \in 0 .. MaxFaults /\ disturbed' \in BOOLEAN /\ disturbed'
  BY <1>0, Disturbed DEF IndInv
<1>2. CASE EndOutlet(measured, failures + 1, total) /\ UNCHANGED glitched
  <2>1. glitched' \in BOOLEAN
    BY <1>2 DEF IndInv, TypeOK
  <2> QED  BY <1>0, <1>1, <1>2, <2>1, EndOutletKeeps
<1>3. CASE Fail /\ UNCHANGED sockets
  <2>1. queries' \in 0 .. NOutlets + 2
    BY <1>0, Numbers DEF IndInv, PlaceInv, Outlets
  <2> QED  BY <1>0, <1>1, <1>3, <2>1, FailKeeps
<1> QED  BY <1>2, <1>3 DEF SocketLost

-----------------------------------------------------------------------------
(* SMART.                                                                  *)

(* A Read of the SMART dialect ends: what was not answered is not asked    *)
(* again, and a batch that nothing disturbed has all there is.             *)
LEMMA FinishKeeps ==
  ASSUME IndInv, NEW res, Finish(res), results' = res,
         res.answered \subseteq supports \cup {"info"}, res.usable \subseteq res.answered,
         \/ ~batching /\ pc = "info" /\ res.answered = {}
         \/ /\ batching /\ pc = "batch"
            /\ ~glitched' => /\ res.answered = {"info"} \cup (wants \cap supports)
                             /\ res.usable = res.answered
         \/ batching /\ pc = "info" /\ glitched' /\ disturbed',
         queries' = queries + 1, glitched => glitched',
         faults' \in 0 .. MaxFaults, disturbed' \in BOOLEAN, glitched' \in BOOLEAN,
         UNCHANGED <<device, count, sockets>>
  PROVE  Kept
<1> USE DEF IndInv
<1>d. UNCHANGED <<dialect, kind, model, meter, supports, batching, totals, count>>
  BY DEF device
<1>a. /\ dialect = "smart" /\ queries' \in {1, 2}
      /\ queries' = IF pc = "batch" THEN 1 ELSE 2
      /\ supports \subseteq Methods /\ wants \subseteq Methods
  BY DEF PlaceInv, TypeOK
<1>0. /\ wants' = wants \cap res.answered /\ UNCHANGED <<emeterModule, deviceHasEmeter>>
      /\ deviceHasEmeter' \in BOOLEAN
  BY DEF Finish, StillWanted, TypeOK
<1> DEFINE e == res.usable \cap {"energy", "power"} # {}
           l == "children" \in res.usable /\ model # "hub"
<1>1. /\ pc' = "idle"
      /\ reading'.ok = TRUE /\ reading'.type = TypeOf(res) /\ reading'.energy = e
      /\ reading'.sockets = l
      /\ reading'.ok \in BOOLEAN /\ settled' \in BOOLEAN /\ lastTotal' = lastTotal
  <2>1. Return(Reading(TypeOf(res), e, Absent, l))
    BY DEF Finish
  <2> HIDE DEF e, l
  <2> QED  BY <2>1, Returned
<1>w. wants' \subseteq supports /\ wants' \subseteq Methods
  BY <1>a, <1>0 DEF Methods
<1>2. TypeOK'
  <2>1. res.answered \subseteq Methods \cup {"info"}
    BY <1>a
  <2>2. queries' \in 0 .. NOutlets + 2
    BY <1>a, Numbers
  <2> QED  BY <1>d, <1>0, <1>1, <1>w, <2>1, <2>2 DEF TypeOK, sockets
<1>3. DeviceInv' /\ LastInv' /\ TotalInv'
  BY <1>1, IdleKeeps
<1>4. PlaceInv' /\ SocketInv'
  BY <1>1 DEF PlaceInv, SocketInv, sockets
<1>5. IotInv' /\ NoDeadQuestions'
  BY <1>d, <1>a, <1>0, <1>1, <1>w DEF IotInv, NoDeadQuestions
<1>c. ASSUME batching, ~glitched'
      PROVE  supports \subseteq wants /\ res.usable = {"info"} \cup supports
  BY <1>c, <1>a DEF SmartInv
<1>6. SmartInv'
  <2>1. batching /\ ~glitched' => supports \subseteq wants'
    BY <1>c, <1>0
  <2> QED  BY <1>d, <1>1, <2>1 DEF SmartInv
<1>7. CompleteStep
  <2> SUFFICES ASSUME ~disturbed', ~glitched'
               PROVE  /\ e <=> Metered
                      /\ batching => TypeOf(res) = kind /\ (l <=> kind = "strip")
    BY <1>a, <1>1 DEF CompleteStep
  <2>1. CASE batching
    <3>1. "children" \in res.usable <=> kind \in {"strip", "hub"}
      BY <1>a, <1>c, <2>1 DEF DeviceInv
    <3>2. IF kind = "strip" THEN model # "hub" ELSE model = kind
      BY <1>a DEF DeviceInv
    <3>3. TypeOf(res) = kind /\ (l <=> kind = "strip")
      BY <3>1, <3>2 DEF TypeOf
    <3>4. e <=> Metered
      BY <1>a, <1>c, <2>1 DEF Metered
    <3> QED  BY <3>3, <3>4
  <2>2. CASE ~batching
    BY <1>a, <2>2 DEF Metered
  <2> QED  BY <2>1, <2>2
<1>8. TotalStep /\ CostStep
  BY <1>a, <1>1, Numbers DEF TypeOK, TotalStep, CostStep
<1> QED  BY <1>2, <1>3, <1>4, <1>5, <1>6, <1>7, <1>8 DEF Kept

(* The batch is answered, in full, in part or not at all.                  *)
LEMMA BatchKeeps == ASSUME IndInv, Batch PROVE Kept
<1> USE DEF IndInv
<1> DEFINE asked == IF batching THEN {"info"} \cup (wants \cap supports) ELSE {}
           all == [answered |-> asked, usable |-> asked]
<1>0. pc = "batch" /\ queries' = queries + 1 /\ UNCHANGED <<device, count, sockets>>
  BY DEF Batch, Ask
<1>1. PICK res \in Batches(asked) :
         /\ res.usable \subseteq res.answered
         /\ "info" \in res.answered => "info" \in res.usable
         /\ Hear(res, all)
         /\ results' = res
         /\ \/ "info" \in res.answered /\ Finish(res)
            \/ /\ "info" \notin res.answered
               /\ pc' = "info"
               /\ UNCHANGED <<querier, reading, settled, lastTotal>>
  BY DEF Batch
<1>h. /\ faults' \in 0 .. MaxFaults /\ disturbed' \in BOOLEAN /\ glitched' \in BOOLEAN
      /\ glitched => glitched'
      /\ res # all => disturbed' /\ glitched'
  <2> HIDE DEF all
  <2> QED  BY <1>1, Heard
<1>2. /\ res.answered \subseteq asked /\ res.usable \subseteq asked
      /\ res = [answered |-> res.answered, usable |-> res.usable]
  BY DEF Batches
<1>3. dialect = "smart" /\ queries' = 1 /\ supports \subseteq Methods
  BY <1>0 DEF PlaceInv, TypeOK
<1>4. CASE "info" \in res.answered /\ Finish(res)
  <2>1. batching /\ res.answered \subseteq supports \cup {"info"}
    BY <1>2, <1>4
  <2>2. ~glitched' => /\ res.answered = {"info"} \cup (wants \cap supports)
                      /\ res.usable = res.answered
    BY <1>h, <2>1
  <2> QED  BY <1>0, <1>1, <1>h, <1>4, <2>1, <2>2, FinishKeeps
<1>5. CASE /\ "info" \notin res.answered /\ pc' = "info"
           /\ UNCHANGED <<querier, reading, settled, lastTotal>>
  <2>d. UNCHANGED <<dialect, kind, model, meter, supports, batching, totals, count>>
    BY <1>0 DEF device
  <2>q. UNCHANGED <<emeterModule, deviceHasEmeter, wants, settled, reading, lastTotal>>
    BY <1>5 DEF querier
  <2>b. deviceHasEmeter' \in BOOLEAN /\ settled' \in BOOLEAN /\ reading'.ok \in BOOLEAN
    BY <2>q DEF TypeOK
  <2>1. res.answered \subseteq supports \cup {"info"}
    BY <1>2
  <2>2. batching => glitched' /\ disturbed'
    BY <1>h, <1>5
  <2>3. ~batching => res = NoResults
    <3> SUFFICES ASSUME ~batching PROVE res.answered = {} /\ res.usable = {}
      BY <1>2 DEF NoResults
    <3> QED  BY <1>2
  <2>4. TypeOK'
    <3>1. res.answered \subseteq Methods \cup {"info"}
      BY <1>3, <2>1
    <3>2. queries' \in 0 .. NOutlets + 2
      BY <1>3, Numbers
    <3> QED  BY <1>0, <1>1, <1>5, <1>h, <2>d, <2>q, <2>b, <3>1, <3>2 DEF TypeOK, sockets
  <2>5. DeviceInv' /\ LastInv' /\ TotalInv'
    BY <1>0, <1>5, IdleKeeps
  <2>6. PlaceInv' /\ SocketInv'
    BY <1>0, <1>3, <1>5, <2>d DEF PlaceInv, SocketInv, sockets
  <2>7. IotInv' /\ NoDeadQuestions'
    BY <1>3, <1>5, <2>d, <2>q DEF IotInv, NoDeadQuestions
  <2>8. SmartInv'
    BY <1>1, <1>5, <1>h, <2>d, <2>q, <2>1, <2>2, <2>3 DEF SmartInv, NoResults
  <2>9. TotalStep /\ CompleteStep /\ CostStep
    BY <1>5, <2>q, Numbers DEF TypeOK, TotalStep, CompleteStep, CostStep, ReadEnds
  <2> QED  BY <2>4, <2>5, <2>6, <2>7, <2>8, <2>9 DEF Kept
<1> QED  BY <1>1, <1>4, <1>5

(* get_device_info is answered by itself.                                  *)
LEMMA DeviceInfoKeeps == ASSUME IndInv, DeviceInfo PROVE Kept
<1>0. /\ pc = "info" /\ queries' = queries + 1 /\ Finish(results) /\ results' = results
      /\ UNCHANGED <<device, count, sockets, noise, glitched>>
  BY DEF DeviceInfo, Ask, Calm
<1>1. /\ faults' \in 0 .. MaxFaults /\ disturbed' \in BOOLEAN /\ glitched' \in BOOLEAN
      /\ glitched => glitched'
      /\ batching => glitched' /\ disturbed'
  BY <1>0 DEF IndInv, TypeOK, SmartInv, noise
<1>2. /\ results.answered \subseteq supports \cup {"info"}
      /\ results.usable \subseteq results.answered
      /\ ~batching => results.answered = {}
  BY <1>0 DEF IndInv, TypeOK, SmartInv, NoResults
<1> QED  BY <1>0, <1>1, <1>2, FinishKeeps

-----------------------------------------------------------------------------
(* Every step keeps the invariant, and does what the properties say.       *)
LEMMA Step == ASSUME IndInv, Next PROVE Kept
<1>1. ASSUME NEW o \in Outlets, Consume(o) PROVE Kept
  BY <1>1, ConsumeKeeps
<1> QED
  BY <1>1, ReadKeeps, ReadFailsKeeps, SysinfoStripKeeps, SysinfoMeteredKeeps,
     SysinfoOnlyKeeps, RetryEmeterKeeps, RetryEmeterLostKeeps, SocketAnswersKeeps,
     SocketLostKeeps, BatchKeeps, DeviceInfoKeeps DEF Next

(* A step that changes nothing keeps the invariant.                        *)
LEMMA Stutter == ASSUME IndInv, UNCHANGED vars PROVE IndInv'
<1> USE DEF IndInv
<1>0. UNCHANGED <<device, count, querier, pc, queries, results, sockets, reading, noise,
                  memory, lastTotal>>
  BY DEF vars
<1>b. disturbed' \in BOOLEAN /\ deviceHasEmeter' \in BOOLEAN
  BY <1>0 DEF TypeOK, noise, querier
<1>1. TypeOK'
  BY <1>0, <1>b DEF TypeOK, device, querier, sockets, noise, memory
<1>2. DeviceInv' /\ PlaceInv' /\ SocketInv'
  BY <1>0 DEF DeviceInv, PlaceInv, SocketInv, device, querier, sockets, noise
<1>3. IotInv' /\ SmartInv' /\ NoDeadQuestions'
  BY <1>0 DEF IotInv, SmartInv, NoDeadQuestions, device, querier, noise, memory
<1>4. LastInv' /\ TotalInv'
  BY <1>0 DEF LastInv, TotalInv, Sums, sockets
<1> QED  BY <1>1, <1>2, <1>3, <1>4

(* The invariant holds in every reachable state.                           *)
LEMMA Invariance == Spec => []IndInv
<1>1. IndInv /\ [Next]_vars => IndInv'
  BY Step, Stutter DEF Kept
<1> QED  BY <1>1, InitIndInv, PTL DEF Spec

-----------------------------------------------------------------------------
(* Every variable keeps its type: no Read makes more queries, measures     *)
(* more outlets or adds up more energy than there are (iot.go, smart.go).  *)
THEOREM TypeCorrect == Spec => []TypeOK
<1>1. IndInv => TypeOK
  BY DEF IndInv
<1> QED  BY <1>1, Invariance, PTL

(* A settled querier asks for nothing the device cannot answer             *)
(* (iotQuerier, smartQuerier).                                             *)
THEOREM NothingAskedInVain == Spec => []NoDeadQuestions
<1>1. IndInv => NoDeadQuestions
  BY DEF IndInv
<1> QED  BY <1>1, Invariance, PTL

(* The cumulative energy of a strip never goes down, however many outlets  *)
(* it has and whichever of them fail while it is read (readSockets).       *)
THEOREM TotalsNeverFall == Spec => TotalNeverFalls
<1>1. IndInv /\ [Next]_vars => [lastTotal # Absent => lastTotal' >= lastTotal]_vars
  BY Step DEF Kept, TotalStep
<1> QED  BY <1>1, Invariance, PTL DEF Spec, TotalNeverFalls

(* An undisturbed Read is complete, after whatever was lost before it      *)
(* (iotQuerier.Read, smartQuerier.Read).                                   *)
THEOREM ReadingsComplete == Spec => CompleteReading
<1> DEFINE A ==
      ReadEnds /\ ~disturbed' /\ ~glitched' =>
         /\ reading'.ok
         /\ reading'.energy <=> Metered
         /\ dialect = "iot" \/ batching =>
              reading'.type = kind /\ (reading'.sockets <=> kind = "strip")
         /\ dialect = "iot" /\ kind = "strip" => (reading'.total # Absent <=> totals)
<1>1. IndInv /\ [Next]_vars => [A]_vars
  BY Step DEF Kept, CompleteStep
<1> QED  BY <1>1, Invariance, PTL DEF Spec, CompleteReading

(* What a settled querier's undisturbed Read costs, for strips of any size *)
(* (iotQuerier.Read, smartQuerier.Read).                                   *)
THEOREM CostsSettled == Spec => SettledCost
<1> DEFINE A ==
      ReadEnds /\ settled /\ ~disturbed' =>
         queries' = 1 + (IF dialect = "iot" /\ kind = "strip" THEN NOutlets ELSE 0)
                      + (IF dialect = "smart" /\ ~batching THEN 1 ELSE 0)
<1>1. IndInv /\ [Next]_vars => [A]_vars
  BY Step DEF Kept, CostStep
<1> QED  BY <1>1, Invariance, PTL DEF Spec, SettledCost
=============================================================================
