---------------------------- MODULE DeviceProofs ----------------------------
(***************************************************************************)
(* Proofs about Device: the types, that a device that fails keeps the name *)
(* and the category its series have, and that two attempts of a Read at    *)
(* most have their login rejected, for every set of names, every timeout   *)
(* and any number of reboots, updates and lost packets.                    *)
(***************************************************************************)
EXTENDS Device, TLAPS

(* The discovery budget is a part of the timeout, however short that is    *)
(* (unicastDiscoveryBudget).                                               *)
LEMMA BudgetFits == Budget \in 0 .. Timeout
  BY DeviceAssumption DEF Budget

(* probeOrder lists five transports that connectAs knows.                  *)
LEMMA ProbeOrderSchemes ==
  /\ Len(ProbeOrder) = 5
  /\ \A i \in 1 .. 5 : ProbeOrder[i] \in Schemes
<1>1. Len(ProbeOrder) = 5
  BY DEF ProbeOrder
<1>2. ASSUME NEW i \in 1 .. 5 PROVE ProbeOrder[i] \in Schemes
  <2>1. ProbeOrder[i] \in {KLAP("SMART", 2), KLAP("IOT", 2), KLAP("IOT", 1), AES, XOR}
    BY DEF ProbeOrder
  <2> QED  BY <2>1 DEF Schemes, Services
<1> QED  BY <1>1, <1>2

(* The wildcard scheme and every scheme a device speaks can be described.  *)
LEMMA DescriptionSchemes ==
  /\ Nil \in Schemes
  /\ \A s \in Services : Descriptions(s) \subseteq Schemes
<1>1. Nil \in Schemes
  BY DEF Schemes, Services
<1>2. ASSUME NEW s \in Services PROVE Descriptions(s) \subseteq Schemes
  <2>1. [s EXCEPT !.lv = NoLogin] \in Schemes
    BY DEF Services, Schemes, Nil, XOR, AES, Newer, KLAP, Scheme, NoLogin
  <2> QED  BY <1>1, <2>1 DEF Descriptions, Schemes
<1> QED  BY <1>1, <1>2

-----------------------------------------------------------------------------
(* When negotiate asks the device, nothing of the context is spent.        *)
BudgetLeft == pc = "ask" => left = Timeout

(* The logins presented in vain so far, if one attempt presents n of them, *)
(* by where Read is: none before the first attempt, those of one attempt   *)
(* while the probing can go on.                                            *)
SoFar(n) ==
    /\ pc = "ask" => refused = 0
    /\ pc = "try" => IF next = 0 THEN refused = 0 ELSE refused <= n
    /\ pc = "read" => refused <= n
    /\ refused <= 2 * n

RefusedSoFar == SoFar(2) /\ (~disturbed => SoFar(Presented(service)))

(* The name the series carry is the one the Device remembers.              *)
NameRemembered == shown # "none" => alias = shown /\ deviceType = "known"

BaseInv == TypeOK /\ BudgetLeft /\ NameRemembered

IndInv == BaseInv /\ RefusedSoFar

(* An attempt presents a login once or twice.                              *)
LEMMA PresentedOnceOrTwice == \A s : Presented(s) \in {1, 2}
  BY DEF Presented

(* So the count stays a number.                                            *)
LEMMA CountedNat ==
    ASSUME NEW q, NEW reply, refused \in Nat, CountRefused(q, reply)
    PROVE  refused' \in Nat
  BY PresentedOnceOrTwice DEF CountRefused

(* Only a device that speaks the transport of the attempt rejects a login. *)
LEMMA RejectedBySame ==
    ASSUME NEW q, Reply(q) = "unauthorized"
    PROVE  Presented(q) = Presented(service)
  BY DEF Reply, Presented

(* One attempt more, over q: the step that counts its reply moves on to    *)
(* the probing or ends the Read.                                           *)
LEMMA CountedOnce ==
    ASSUME NEW n \in {1, 2}, SoFar(n), refused \in Nat, NEW q, NEW reply,
           CountRefused(q, reply), reply = "unauthorized" => Presented(q) <= n,
           next \in 0 .. 5, next' \in 0 .. 5,
           \/ /\ pc = "try"
              /\ \/ pc' = "idle"
                 \/ pc' = "read" /\ reply = "reading"
                 \/ pc' = "try" /\ next' > 0 /\ (next > 0 => reply # "unauthorized")
           \/ pc = "read" /\ pc' = "idle"
    PROVE  SoFar(n)'
<1>1. refused' \in Nat /\ (refused' = refused \/ refused' = refused + Presented(q))
  BY PresentedOnceOrTwice DEF CountRefused
<1>2. CASE reply # "unauthorized"
  BY <1>2 DEF SoFar, CountRefused
<1>3. CASE reply = "unauthorized"
  <2>1. refused' <= refused + n
    BY <1>1, <1>3, PresentedOnceOrTwice
  <2>2. QED
    BY <1>1, <1>3, <2>1 DEF SoFar
<1>4. QED
  BY <1>2, <1>3

(* The invariant holds before the first Read.                              *)
LEMMA InitIndInv == Init => IndInv
<1> SUFFICES ASSUME Init PROVE IndInv
  OBVIOUS
<1>1. described \in Schemes
  BY DescriptionSchemes DEF Init
<1>a. disturbed \in BOOLEAN /\ fits \in BOOLEAN /\ silent \in BOOLEAN
  BY DEF Init
<1>2. TypeOK
  BY <1>1, <1>a, DescriptionSchemes, DeviceAssumption, ProbeOrderSchemes DEF Init, TypeOK
<1>3. RefusedSoFar
  BY PresentedOnceOrTwice DEF Init, RefusedSoFar, SoFar
<1> QED  BY <1>2, <1>3 DEF Init, IndInv, BaseInv, BudgetLeft, NameRemembered

(* The time an exchange takes is never more than there is left.            *)
LEMMA SpendFits ==
  ASSUME NEW q, left \in 0 .. Timeout, Spend(q)
  PROVE  left' \in 0 .. Timeout
BY DeviceAssumption DEF Spend

(* Moving on after a failed attempt keeps the place in probeOrder, and     *)
(* probing goes on after a rejection only when it had not begun.           *)
LEMMA AfterFailureKeeps ==
  ASSUME TypeOK, NEW reply, AfterFailure(reply)
  PROVE  /\ candidate' \in Schemes
         /\ next' \in 0 .. Len(ProbeOrder)
         /\ querier' \in Schemes
         /\ outcome' \in {"none", "ok", "failed"}
         /\ \/ pc' = "idle"
            \/ pc' = "try" /\ next' > 0 /\ (next > 0 => reply # "unauthorized")
<1>1. CASE next < Len(ProbeOrder) /\ (next > 0 => reply # "unauthorized")
  BY <1>1, ProbeOrderSchemes DEF TypeOK, AfterFailure, Try
<1>2. CASE ~(next < Len(ProbeOrder) /\ (next > 0 => reply # "unauthorized"))
  BY <1>2, DescriptionSchemes DEF TypeOK, AfterFailure, GiveUp
<1> QED  BY <1>1, <1>2

-----------------------------------------------------------------------------
(* Every step keeps the types, the budget and the name.                    *)
LEMMA StepBase == IndInv /\ [Next]_vars => BaseInv'
<1> USE DEF IndInv, BaseInv
<1> SUFFICES ASSUME IndInv, [Next]_vars PROVE BaseInv'
  OBVIOUS
<1>t. /\ refused \in Nat /\ left \in 0 .. Timeout /\ faults \in 0 .. MaxFaults
      /\ next \in 0 .. 5 /\ disturbed \in BOOLEAN
  BY ProbeOrderSchemes DEF TypeOK
<1>1. CASE Read
  <2>0. disturbed' \in BOOLEAN
    BY <1>1 DEF Read
  <2>1. TypeOK'
    BY <1>1, <2>0, DescriptionSchemes, DeviceAssumption
       DEF Read, TypeOK, deviceVars
  <2>2. BudgetLeft' /\ NameRemembered'
    BY <1>1 DEF Read, BudgetLeft, NameRemembered
  <2> QED  BY <2>1, <2>2
<1>2. CASE ReadUnsupported
  <2>0. disturbed' \in BOOLEAN
    BY <1>2 DEF ReadUnsupported
  <2>1. TypeOK'
    BY <1>2, <2>0 DEF ReadUnsupported, TypeOK, deviceVars, objectVars
  <2>2. BudgetLeft' /\ NameRemembered'
    BY <1>2 DEF ReadUnsupported, BudgetLeft, NameRemembered, objectVars
  <2> QED  BY <2>1, <2>2
<1>3. CASE Ask
  <2>1. left' \in 0 .. Timeout
    BY <1>3, <1>t, BudgetFits, DeviceAssumption DEF Ask, BudgetLeft
  <2>2. /\ pc' = "try" /\ candidate' \in Schemes /\ next' \in 0 .. Len(ProbeOrder)
    BY <1>3, ProbeOrderSchemes DEF Ask, Try, TypeOK
  <2>3. TypeOK'
    BY <1>3, <2>1, <2>2 DEF Ask, TypeOK, deviceVars, objectVars, historyVars
  <2>4. BudgetLeft' /\ NameRemembered'
    BY <1>3, <2>2 DEF Ask, BudgetLeft, NameRemembered, objectVars, historyVars
  <2> QED  BY <2>3, <2>4
<1>4. CASE Attempt
  <2> DEFINE reply == Reply(candidate)
  <2>1. /\ pc = "try" /\ left' \in 0 .. Timeout
        /\ refused' \in Nat
        /\ \/ /\ reply = "reading" /\ querier' = candidate /\ pc' = "read"
              /\ UNCHANGED <<candidate, next, outcome>>
           \/ AfterFailure(reply)
        /\ UNCHANGED <<deviceVars, discovered, alias, deviceType, faults, disturbed, shown>>
    BY <1>4, <1>t, SpendFits, CountedNat DEF Attempt
  <2> HIDE DEF reply
  <2>2. /\ candidate' \in Schemes /\ next' \in 0 .. Len(ProbeOrder) /\ querier' \in Schemes
        /\ outcome' \in {"none", "ok", "failed"}
        /\ \/ pc' = "idle"
           \/ pc' = "read" /\ reply = "reading"
           \/ pc' = "try" /\ next' > 0 /\ (next > 0 => reply # "unauthorized")
    BY <2>1, AfterFailureKeeps DEF TypeOK
  <2>3. TypeOK'
    BY <2>1, <2>2, <1>t DEF TypeOK, deviceVars
  <2>4. BudgetLeft' /\ NameRemembered'
    BY <2>1, <2>2, <1>t, ProbeOrderSchemes DEF BudgetLeft, NameRemembered
  <2> QED  BY <2>3, <2>4
<1>5. CASE ReadOK
  <2>1. left' \in 0 .. Timeout
    BY <1>5, <1>t, SpendFits DEF ReadOK
  <2>2. TypeOK'
    BY <1>5, <2>1 DEF ReadOK, TypeOK, deviceVars, AliasAfter
  <2>3. BudgetLeft'
    BY <1>5 DEF ReadOK, BudgetLeft
  <2>4. NameRemembered'
    BY <1>5 DEF ReadOK, NameRemembered, AliasAfter
  <2> QED  BY <2>2, <2>3, <2>4
<1>6. CASE ReadFails
  <2> DEFINE reply == Reply(querier)
  <2>1. /\ pc = "read" /\ left' \in 0 .. Timeout
        /\ refused' \in Nat
        /\ GiveUp
        /\ UNCHANGED <<deviceVars, discovered, alias, deviceType, faults, disturbed, shown>>
    BY <1>6, <1>t, SpendFits, CountedNat DEF ReadFails
  <2> HIDE DEF reply
  <2>2. TypeOK'
    BY <2>1, <1>t, DescriptionSchemes DEF GiveUp, TypeOK, deviceVars
  <2>3. BudgetLeft' /\ NameRemembered'
    BY <2>1, <1>t DEF GiveUp, BudgetLeft, NameRemembered
  <2> QED  BY <2>2, <2>3
<1>7. CASE Close
  BY <1>7, DescriptionSchemes DEF Close, TypeOK, BudgetLeft, NameRemembered,
     deviceVars, readVars, historyVars
<1>8. CASE Lost
  <2>0. /\ disturbed' \in BOOLEAN /\ faults' \in 0 .. MaxFaults
    BY <1>8, <1>t, DeviceAssumption DEF Lost, Interfere
  <2>u. UNCHANGED <<deviceVars, discovered, alias, deviceType, shown>>
    BY <1>8 DEF Lost
  <2>1. CASE /\ pc = "ask" /\ left' \in {left, left - Budget} /\ Try(ProbeOrder[1], 1)
             /\ UNCHANGED <<querier, outcome, refused>>
    <3>1. left' \in 0 .. Timeout
      BY <2>1, <1>t, BudgetFits, DeviceAssumption DEF BudgetLeft
    <3>2. TypeOK'
      BY <2>0, <2>u, <2>1, <3>1, ProbeOrderSchemes DEF Try, TypeOK, deviceVars
    <3> QED  BY <2>u, <2>1, <3>2 DEF Try, BudgetLeft, NameRemembered
  <2>2. ASSUME NEW reply \in {"error", "unauthorized"}, pc = "try", left' \in {0, left},
               AfterFailure(reply), refused' \in Nat
        PROVE  BaseInv'
    <3>1. /\ candidate' \in Schemes /\ next' \in 0 .. Len(ProbeOrder)
          /\ querier' \in Schemes /\ outcome' \in {"none", "ok", "failed"}
          /\ \/ pc' = "idle"
             \/ pc' = "try" /\ next' > 0 /\ (next > 0 => reply # "unauthorized")
      BY <2>2, AfterFailureKeeps
    <3>2. left' \in 0 .. Timeout
      BY <2>2, <1>t, DeviceAssumption
    <3>3. TypeOK'
      BY <2>0, <2>u, <2>2, <3>1, <3>2, <1>t DEF TypeOK, deviceVars
    <3> QED  BY <2>u, <2>2, <3>1, <3>3, <1>t, ProbeOrderSchemes
                DEF BudgetLeft, NameRemembered
  <2>3. CASE pc = "read" /\ left' \in {0, left} /\ GiveUp /\ refused' \in Nat
    <3>1. left' \in 0 .. Timeout
      BY <2>3, <1>t, DeviceAssumption
    <3>2. TypeOK'
      BY <2>0, <2>u, <2>3, <3>1, DescriptionSchemes DEF GiveUp, TypeOK, deviceVars
    <3> QED  BY <2>u, <2>3, <3>2 DEF GiveUp, BudgetLeft, NameRemembered
  <2> QED  BY <1>8, <1>t, <2>1, <2>2, <2>3, CountedNat DEF Lost
<1>9. CASE Change
  <2>0. /\ disturbed' \in BOOLEAN /\ faults' \in 0 .. MaxFaults
        /\ fits' \in BOOLEAN /\ silent' \in BOOLEAN /\ service' \in Services
    BY <1>9, <1>t, DeviceAssumption DEF Change, Interfere
  <2>1. described' \in Schemes
    BY <1>9, <2>0, DescriptionSchemes DEF Change
  <2>2. TypeOK'
    BY <1>9, <2>0, <2>1 DEF Change, TypeOK, objectVars, readVars
  <2> QED  BY <1>9, <2>2 DEF Change, BudgetLeft, NameRemembered,
                             objectVars, readVars
<1>10. CASE Rename
  <2>0. /\ disturbed' \in BOOLEAN /\ faults' \in 0 .. MaxFaults
    BY <1>10, <1>t, DeviceAssumption DEF Rename, Interfere
  <2>1. TypeOK'
    BY <1>10, <2>0 DEF Rename, TypeOK, objectVars, readVars
  <2> QED  BY <1>10, <2>1 DEF Rename, BudgetLeft, NameRemembered,
                              objectVars, readVars
<1>11. CASE UNCHANGED vars
  BY <1>11 DEF vars, deviceVars, objectVars, readVars, historyVars, TypeOK, BudgetLeft,
     NameRemembered
<1> QED
  BY <1>1, <1>2, <1>3, <1>4, <1>5, <1>6, <1>7, <1>8, <1>9, <1>10, <1>11 DEF Next

(* Every step keeps the count: only the steps that end an attempt add to   *)
(* it, and after a rejection the Read goes on only into the probing.       *)
LEMMA StepRefused == IndInv /\ [Next]_vars => RefusedSoFar'
<1> SUFFICES ASSUME IndInv, [Next]_vars PROVE RefusedSoFar'
  OBVIOUS
<1>t. /\ refused \in Nat /\ next \in 0 .. 5 /\ pc \in {"idle", "ask", "try", "read"}
      /\ TypeOK /\ SoFar(2) /\ (~disturbed => SoFar(Presented(service)))
  BY ProbeOrderSchemes DEF IndInv, BaseInv, TypeOK, RefusedSoFar
<1>p. Presented(service) \in {1, 2} /\ Presented(service') \in {1, 2}
  BY PresentedOnceOrTwice
<1>z. ASSUME refused' = 0 PROVE RefusedSoFar'
  BY <1>z, <1>p DEF RefusedSoFar, SoFar
<1>d. ASSUME disturbed', SoFar(2)' PROVE RefusedSoFar'
  BY <1>d DEF RefusedSoFar
<1>1. CASE Read \/ ReadUnsupported
  BY <1>1, <1>z DEF Read, ReadUnsupported
<1>2. CASE Ask
  BY <1>2, <1>t, <1>z DEF Ask, SoFar, historyVars
<1>3. CASE Attempt
  <2> DEFINE reply == Reply(candidate)
  <2>1. /\ pc = "try" /\ CountRefused(candidate, reply)
        /\ \/ reply = "reading" /\ pc' = "read" /\ UNCHANGED next
           \/ AfterFailure(reply)
        /\ UNCHANGED <<service, disturbed>>
    BY <1>3 DEF Attempt, deviceVars
  <2>2. reply = "unauthorized" => Presented(candidate) = Presented(service)
    BY RejectedBySame
  <2> HIDE DEF reply
  <2>3. /\ next' \in 0 .. 5
        /\ \/ pc' = "idle"
           \/ pc' = "read" /\ reply = "reading"
           \/ pc' = "try" /\ next' > 0 /\ (next > 0 => reply # "unauthorized")
    BY <2>1, <1>t, AfterFailureKeeps, ProbeOrderSchemes
  <2>4. reply = "unauthorized" => Presented(candidate) <= 2
    BY PresentedOnceOrTwice
  <2>5. SoFar(2)'
    BY <1>t, <2>1, <2>3, <2>4, CountedOnce
  <2>6. ASSUME ~disturbed PROVE SoFar(Presented(service))'
    <3>1. PICK n \in {1, 2} : n = Presented(service) /\ n = Presented(service')
      BY <1>p, <2>1
    <3>2. SoFar(n)'
      BY <1>t, <2>1, <2>2, <2>3, <2>6, <3>1, CountedOnce
    <3>3. QED
      BY <3>1, <3>2 DEF SoFar
  <2>7. QED
    BY <2>1, <2>5, <2>6 DEF RefusedSoFar
<1>4. CASE ReadFails
  <2> DEFINE reply == Reply(querier)
  <2>1. /\ pc = "read" /\ pc' = "idle" /\ CountRefused(querier, reply)
        /\ UNCHANGED <<next, service, disturbed>>
    BY <1>4 DEF ReadFails, GiveUp, deviceVars
  <2>2. reply = "unauthorized" => Presented(querier) = Presented(service)
    BY RejectedBySame
  <2> HIDE DEF reply
  <2>3. reply = "unauthorized" => Presented(querier) <= 2
    BY PresentedOnceOrTwice
  <2>4. SoFar(2)'
    BY <1>t, <2>1, <2>3, CountedOnce
  <2>5. ASSUME ~disturbed PROVE SoFar(Presented(service))'
    <3>1. PICK n \in {1, 2} : n = Presented(service) /\ n = Presented(service')
      BY <1>p, <2>1
    <3>2. SoFar(n)'
      BY <1>t, <2>1, <2>2, <2>5, <3>1, CountedOnce
    <3>3. QED
      BY <3>1, <3>2 DEF SoFar
  <2>6. QED
    BY <2>1, <2>4, <2>5 DEF RefusedSoFar
<1>5. CASE ReadOK
  BY <1>5, <1>t, <1>p DEF ReadOK, RefusedSoFar, SoFar, deviceVars, Presented
<1>6. CASE Close
  BY <1>6, <1>t DEF Close, RefusedSoFar, SoFar, deviceVars, readVars, historyVars, Presented
<1>7. CASE Lost
  <2>1. disturbed'
    BY <1>7 DEF Lost, Interfere
  <2>2. CASE pc = "ask" /\ Try(ProbeOrder[1], 1) /\ UNCHANGED refused
    BY <1>t, <1>z, <2>2 DEF SoFar
  <2>3. ASSUME NEW reply \in {"error", "unauthorized"}, pc = "try",
               AfterFailure(reply), CountRefused(candidate, reply)
        PROVE  RefusedSoFar'
    <3>1. /\ next' \in 0 .. 5
          /\ \/ pc' = "idle"
             \/ pc' = "try" /\ next' > 0 /\ (next > 0 => reply # "unauthorized")
      BY <2>3, <1>t, AfterFailureKeeps, ProbeOrderSchemes
    <3>2. Presented(candidate) <= 2
      BY PresentedOnceOrTwice
    <3>3. SoFar(2)'
      BY <1>t, <2>3, <3>1, <3>2, CountedOnce
    <3>4. QED
      BY <1>d, <2>1, <3>3
  <2>4. ASSUME NEW reply \in {"error", "unauthorized"}, pc = "read",
               GiveUp, CountRefused(querier, reply)
        PROVE  RefusedSoFar'
    <3>1. Presented(querier) <= 2
      BY PresentedOnceOrTwice
    <3>2. pc' = "idle" /\ next' \in 0 .. 5
      BY <1>t, <2>4 DEF GiveUp
    <3>3. SoFar(2)'
      BY <1>t, <2>4, <3>1, <3>2, CountedOnce
    <3>4. QED
      BY <1>d, <2>1, <3>3
  <2>5. UNCHANGED refused =>
            CountRefused(candidate, "error") /\ CountRefused(querier, "error")
    BY DEF CountRefused
  <2>6. QED
    BY <1>7, <2>2, <2>3, <2>4, <2>5 DEF Lost
<1>8. CASE Change \/ Rename
  <2>1. disturbed' /\ UNCHANGED <<refused, pc, next>>
    BY <1>8 DEF Change, Rename, Interfere, readVars
  <2>2. QED
    BY <1>d, <1>t, <2>1 DEF SoFar
<1>9. CASE UNCHANGED vars
  BY <1>9, <1>t DEF vars, deviceVars, readVars, historyVars, RefusedSoFar, SoFar, Presented
<1> QED
  BY <1>1, <1>2, <1>3, <1>4, <1>5, <1>6, <1>7, <1>8, <1>9 DEF Next

(* The invariant holds in every reachable state.                           *)
LEMMA Invariance == Spec => []IndInv
<1>1. IndInv /\ [Next]_vars => IndInv'
  BY StepBase, StepRefused DEF IndInv
<1> QED  BY <1>1, InitIndInv, PTL DEF Spec

-----------------------------------------------------------------------------
(* Every variable keeps its type; in particular negotiate never hands an   *)
(* exchange a deadline that lies before the one it has (negotiate).        *)
THEOREM TypeCorrect == Spec => []TypeOK
<1>1. IndInv => TypeOK
  BY DEF IndInv, BaseInv
<1> QED  BY <1>1, Invariance, PTL

(* A device that fails is reported under the last name it gave and in its  *)
(* own category, whatever happens to it (Device.Alias, Device.Type).       *)
THEOREM LabelsKept == Spec => []SeriesKept
<1>0. "known" # NoType
  BY Zenon DEF NoType
<1>1. IndInv => SeriesKept
  BY <1>0, DeviceAssumption DEF IndInv, BaseInv, TypeOK, NameRemembered, SeriesKept, Label
<1> QED  BY <1>1, Invariance, PTL

(* However the device answers and changes, at most two attempts of a Read  *)
(* present a login in vain: two handshakes over KLAP, four posts over AES  *)
(* (negotiate, login).                                                     *)
THEOREM LoginsSpared == Spec => []FewRejectedLogins
<1>1. IndInv => FewRejectedLogins
  BY DEF IndInv, RefusedSoFar, SoFar, FewRejectedLogins
<1> QED  BY <1>1, Invariance, PTL
=============================================================================
