----------------------------- MODULE KlapProofs -----------------------------
(***************************************************************************)
(* Theorems about the KLAP transport, for every set of logins, every login *)
(* version, every width of the sequence number and every number of calls.  *)
(*                                                                         *)
(* The properties rest on one invariant in three parts: how many           *)
(* handshakes a Query can have caused (Counts), which session the client   *)
(* and the device mean by the cookie (SessionInv), and what a Query that   *)
(* nobody interfered with has already achieved (CalmInv).  NonceFresh      *)
(* needs a fourth: which numbers went out under the keys (NonceInv).       *)
(***************************************************************************)
EXTENDS Klap, TLAPS

(* A Query causes at most two handshakes, one in each pass of its loop.    *)
Counts ==
    /\ pc # "idle" => queries >= 1
    /\ pc = "idle" => handshakes <= 2 * queries
    /\ pc = "handshake1" => handshakes <= 2 * (queries - 1) + attempt
    /\ pc \in {"handshake2", "request"} => handshakes <= 2 * (queries - 1) + attempt + 1

(* A handshake always starts a session of its own, so a session's number   *)
(* is that of its keys, and the client's flag, cookie and keys belong      *)
(* together.                                                               *)
SessionInv ==
    /\ \A s \in sessions : s.key = s.id /\ s.id <= handshakes
    /\ pc \in {"handshake1", "handshake2"} => ~established
    /\ pc = "request" => established
    /\ pc = "handshake2" => sessionID = seeds /\ seeds # NoSession
    /\ established => sessionID = key /\ key # NoSession
    /\ established => \A s \in sessions : s.id = sessionID => s.ready
    /\ sessionID <= handshakes

(* An undisturbed Query still has the session it has negotiated.           *)
CalmInv ==
    ~disturbed =>
        /\ pc = "handshake2" => Known(sessionID)
        /\ pc = "request" /\ attempt = 1 => Ready(sessionID)

IndInv == TypeOK /\ Counts /\ SessionInv /\ CalmInv

(* What the numbers of the model are.                                      *)
LEMMA Numbers ==
    /\ MaxQueries \in Nat
    /\ 2 * MaxQueries \in Nat
    /\ SessionIDs = 1 .. 2 * MaxQueries
    /\ NoSession \notin SessionIDs
  BY KlapAssumption DEF SessionIDs, NoSession

(* Every sequence number is one of them, the next one too.                 *)
LEMMA Sequences ==
    /\ 0 \in Sequence
    /\ seq \in Sequence => NextSeq \in Sequence
  BY KlapAssumption DEF Sequence, NextSeq

(* The invariant holds initially.                                          *)
LEMMA InitHolds == Init => IndInv
  <1> SUFFICES ASSUME Init PROVE IndInv
    OBVIOUS
  <1>1. TypeOK
    <2>1. ClientOK
      BY Sequences DEF Init, ClientOK
    <2>2. DeviceOK
      BY DEF Init, DeviceOK
    <2>3. disturbed \in BOOLEAN
      BY DEF Init
    <2>4. HistoryOK
      BY <2>3, Numbers DEF Init, HistoryOK
    <2> QED
      BY <2>1, <2>2, <2>4 DEF TypeOK
  <1>2. Counts /\ SessionInv /\ CalmInv
    BY Numbers DEF Init, Counts, SessionInv, CalmInv, NoSession
  <1> QED
    BY <1>1, <1>2 DEF IndInv

(* A handshake that is not the last the calls allow leaves room for its    *)
(* own session number.                                                     *)
LEMMA RoomForSession ==
    ASSUME TypeOK, Counts, pc = "handshake1"
    PROVE  handshakes + 1 \in SessionIDs /\ handshakes + 1 \in 0 .. 2 * MaxQueries
  BY Numbers DEF TypeOK, ClientOK, HistoryOK, Counts

(* Every step keeps the invariant.                                         *)
LEMMA StepHolds == IndInv /\ [Next]_vars => IndInv'
  <1> SUFFICES ASSUME IndInv, [Next]_vars PROVE IndInv'
    OBVIOUS
  <1> USE Numbers DEF IndInv, TypeOK
  <1>1. CASE Query
    <2> USE <1>1 DEF Query, Enter, device, client, history
    <2>1. ClientOK'
      BY Sequences DEF ClientOK
    <2>2. DeviceOK'
      BY DEF DeviceOK
    <2>3. HistoryOK'
      <3>1. queries' \in 0 .. MaxQueries
        BY DEF HistoryOK
      <3>2. disturbed' \in BOOLEAN
        OBVIOUS
      <3> QED
        BY <3>1, <3>2 DEF HistoryOK
    <2>4. Counts'
      BY DEF ClientOK, HistoryOK, Counts
    <2>5. SessionInv'
      BY DEF ClientOK, DeviceOK, HistoryOK, SessionInv, Known, Ready, NoSession
    <2>6. CalmInv'
      BY DEF ClientOK, SessionInv, CalmInv, Known, Ready
    <2> QED
      BY <2>1, <2>2, <2>3, <2>4, <2>5, <2>6
  <1>2. CASE Close
    <2> USE <1>2 DEF Close, device, client, history
    <2>1. ClientOK'
      BY Sequences DEF ClientOK
    <2>2. DeviceOK'
      BY DEF DeviceOK
    <2>3. HistoryOK'
      BY Sequences DEF HistoryOK
    <2>4. Counts'
      BY DEF ClientOK, HistoryOK, Counts
    <2>5. SessionInv'
      BY DEF ClientOK, DeviceOK, HistoryOK, SessionInv, Known, Ready, NoSession
    <2>6. CalmInv'
      BY DEF ClientOK, SessionInv, CalmInv, Known, Ready
    <2> QED
      BY <2>1, <2>2, <2>3, <2>4, <2>5, <2>6
  <1>3. CASE Handshake1
    <2> USE <1>3 DEF Handshake1, Greet, Cookie, Return, device, client, history
    <2>1. ClientOK'
      BY Sequences, RoomForSession DEF ClientOK
    <2>2. DeviceOK'
      <3> DEFINE new == [id |-> handshakes + 1, key |-> handshakes + 1, ready |-> FALSE]
      <3>1. new \in [id : SessionIDs, key : SessionIDs, ready : BOOLEAN]
        BY RoomForSession
      <3> QED
        BY <3>1 DEF DeviceOK
    <2>3. HistoryOK'
      BY Sequences, RoomForSession DEF HistoryOK
    <2>4. Counts'
      BY DEF ClientOK, HistoryOK, Counts
    <2>5. SessionInv'
      BY DEF ClientOK, DeviceOK, HistoryOK, SessionInv, Known, Ready, NoSession
    <2>6. CalmInv'
      <3>1. CASE Accepted
        <4> DEFINE new == [id |-> handshakes + 1, key |-> handshakes + 1, ready |-> FALSE]
        <4>1. new \in sessions' /\ new.id = sessionID'
          BY <3>1 DEF DeviceOK, Known, NoSession
        <4> HIDE DEF new
        <4> QED
          BY <3>1, <4>1 DEF CalmInv, Known
      <3>2. CASE ~Accepted
        BY <3>2 DEF CalmInv
      <3> QED
        BY <3>1, <3>2
    <2> QED
      BY <2>1, <2>2, <2>3, <2>4, <2>5, <2>6
  <1>4. CASE Handshake1Fails
    <2> USE <1>4 DEF Handshake1Fails, Greet, Return, device, client, history
    <2>1. ClientOK'
      BY Sequences, RoomForSession DEF ClientOK
    <2>2. DeviceOK'
      <3> DEFINE new == [id |-> handshakes + 1, key |-> handshakes + 1, ready |-> FALSE]
      <3>1. new \in [id : SessionIDs, key : SessionIDs, ready : BOOLEAN]
        BY RoomForSession
      <3> QED
        BY <3>1 DEF DeviceOK
    <2>3. HistoryOK'
      BY Sequences, RoomForSession DEF HistoryOK
    <2>4. Counts'
      BY DEF ClientOK, HistoryOK, Counts
    <2>5. SessionInv'
      BY DEF ClientOK, DeviceOK, HistoryOK, SessionInv, Known, Ready, NoSession
    <2>6. CalmInv'
      BY DEF ClientOK, SessionInv, CalmInv, Known, Ready
    <2> QED
      BY <2>1, <2>2, <2>3, <2>4, <2>5, <2>6
  <1>5. CASE Handshake2
    <2> USE <1>5 DEF Handshake2, MakeReady, device, client, history
    <2>1. ClientOK'
      BY Sequences DEF ClientOK
    <2>2. DeviceOK'
      BY DEF DeviceOK
    <2>3. HistoryOK'
      BY Sequences DEF HistoryOK
    <2>4. Counts'
      BY DEF ClientOK, HistoryOK, Counts
    <2>5. SessionInv'
      BY DEF ClientOK, DeviceOK, HistoryOK, SessionInv, Known, Ready, NoSession
    <2>6. CalmInv'
      <3>1. PICK s \in sessions : s.id = sessionID
        BY DEF Known
      <3> DEFINE made == [s EXCEPT !.ready = TRUE]
      <3>2. made \in sessions' /\ made.id = sessionID' /\ made.ready
        BY <3>1 DEF DeviceOK
      <3> HIDE DEF made
      <3> QED
        BY <3>2 DEF CalmInv, Ready
    <2> QED
      BY <2>1, <2>2, <2>3, <2>4, <2>5, <2>6
  <1>6. CASE Handshake2Fails
    <2> USE <1>6 DEF Handshake2Fails, MakeReady, Return, device, client, history
    <2>1. ClientOK'
      BY Sequences DEF ClientOK
    <2>2. DeviceOK'
      BY DEF DeviceOK
    <2>3. HistoryOK'
      BY Sequences DEF HistoryOK
    <2>4. Counts'
      BY DEF ClientOK, HistoryOK, Counts
    <2>5. SessionInv'
      BY DEF ClientOK, DeviceOK, HistoryOK, SessionInv, Known, Ready, NoSession
    <2>6. CalmInv'
      BY DEF ClientOK, SessionInv, CalmInv, Known, Ready
    <2> QED
      BY <2>1, <2>2, <2>3, <2>4, <2>5, <2>6
  <1>7. CASE RequestAnswered
    <2> USE <1>7 DEF RequestAnswered, Send, Return, device, client, history
    <2>1. ClientOK'
      BY Sequences DEF ClientOK
    <2>2. DeviceOK'
      BY DEF DeviceOK
    <2>3. HistoryOK'
      BY Sequences DEF HistoryOK, ClientOK, SessionInv
    <2>4. Counts'
      BY DEF ClientOK, HistoryOK, Counts
    <2>5. SessionInv'
      BY DEF ClientOK, DeviceOK, HistoryOK, SessionInv, Known, Ready, NoSession
    <2>6. CalmInv'
      BY DEF ClientOK, SessionInv, CalmInv, Known, Ready
    <2> QED
      BY <2>1, <2>2, <2>3, <2>4, <2>5, <2>6
  <1>8. CASE RequestForbidden
    <2> USE <1>8 DEF RequestForbidden, Send, Return, Enter, device, client, history
    <2>1. ClientOK'
      BY Sequences DEF ClientOK
    <2>2. DeviceOK'
      BY DEF DeviceOK
    <2>3. HistoryOK'
      BY Sequences DEF HistoryOK, ClientOK, SessionInv
    <2>4. Counts'
      BY DEF ClientOK, HistoryOK, Counts
    <2>5. SessionInv'
      BY DEF ClientOK, DeviceOK, HistoryOK, SessionInv, Known, Ready, NoSession
    <2>6. CalmInv'
      BY DEF ClientOK, SessionInv, CalmInv, Known, Ready
    <2> QED
      BY <2>1, <2>2, <2>3, <2>4, <2>5, <2>6
  <1>9. CASE RequestLost
    <2> USE <1>9 DEF RequestLost, Send, Return, device, client, history
    <2>1. ClientOK'
      BY Sequences DEF ClientOK
    <2>2. DeviceOK'
      BY DEF DeviceOK
    <2>3. HistoryOK'
      BY Sequences DEF HistoryOK, ClientOK, SessionInv
    <2>4. Counts'
      BY DEF ClientOK, HistoryOK, Counts
    <2>5. SessionInv'
      BY DEF ClientOK, DeviceOK, HistoryOK, SessionInv, Known, Ready, NoSession
    <2>6. CalmInv'
      BY DEF ClientOK, SessionInv, CalmInv, Known, Ready
    <2> QED
      BY <2>1, <2>2, <2>3, <2>4, <2>5, <2>6
  <1>10. CASE Forget
    <2> USE <1>10 DEF Forget, device, client, history
    <2>1. ClientOK'
      BY Sequences DEF ClientOK
    <2>2. DeviceOK'
      BY DEF DeviceOK
    <2>3. HistoryOK'
      BY Sequences DEF HistoryOK
    <2>4. Counts'
      BY DEF ClientOK, HistoryOK, Counts
    <2>5. SessionInv'
      BY DEF ClientOK, DeviceOK, HistoryOK, SessionInv, Known, Ready, NoSession
    <2>6. CalmInv'
      BY DEF ClientOK, SessionInv, CalmInv, Known, Ready
    <2> QED
      BY <2>1, <2>2, <2>3, <2>4, <2>5, <2>6
  <1>11. CASE Reprovision
    <2> USE <1>11 DEF Reprovision, device, client, history
    <2>1. ClientOK'
      BY Sequences DEF ClientOK
    <2>2. DeviceOK'
      BY DEF DeviceOK
    <2>3. HistoryOK'
      BY Sequences DEF HistoryOK
    <2>4. Counts'
      BY DEF ClientOK, HistoryOK, Counts
    <2>5. SessionInv'
      BY DEF ClientOK, DeviceOK, HistoryOK, SessionInv, Known, Ready, NoSession
    <2>6. CalmInv'
      BY DEF ClientOK, SessionInv, CalmInv, Known, Ready
    <2> QED
      BY <2>1, <2>2, <2>3, <2>4, <2>5, <2>6
  <1>12. CASE UNCHANGED vars
    BY <1>12 DEF vars, client, device, history, ClientOK, DeviceOK, HistoryOK, Counts,
                SessionInv, CalmInv, Known, Ready
  <1> QED
    BY <1>1, <1>2, <1>3, <1>4, <1>5, <1>6, <1>7, <1>8, <1>9, <1>10, <1>11, <1>12 DEF Next

(* The invariant is one of every behaviour.                                *)
LEMMA Invariance == Spec => []IndInv
  BY InitHolds, StepHolds, PTL DEF Spec

(* The transport's fields, the device's sessions and the history keep      *)
(* their types; in particular the sequence number stays in its width and a *)
(* Query never handshakes more than twice (klap.go, Query).                *)
THEOREM TypeCorrect == Spec => []TypeOK
  <1>1. IndInv => TypeOK
    BY DEF IndInv
  <1> QED
    BY <1>1, Invariance, PTL

(* KeysAgree holds in every reachable state: a client whose session the    *)
(* device knows holds that session's keys (klap.go, handshake).            *)
THEOREM KeysAlwaysAgree == Spec => []KeysAgree
  <1>1. IndInv => KeysAgree
    <2> SUFFICES ASSUME IndInv, established, Known(sessionID)
                 PROVE  Ready(sessionID) /\ KeyOf(sessionID) = key
      BY DEF KeysAgree
    <2>1. PICK s \in sessions : s.id = sessionID
      BY DEF Known
    <2>2. Ready(sessionID)
      BY <2>1 DEF IndInv, SessionInv, Ready
    <2>3. KeyOf(sessionID) = sessionID
      BY <2>1 DEF IndInv, SessionInv, KeyOf
    <2> QED
      BY <2>2, <2>3 DEF IndInv, SessionInv
  <1> QED
    BY <1>1, Invariance, PTL

(* Every step satisfies FailureExplained: a Query that nobody interferes   *)
(* with fails only because no candidate login fits (klap.go, Query).       *)
THEOREM FailuresExplained == Spec => FailureExplained
  <1> DEFINE Explained ==
        pc # "idle" /\ pc' = "idle" =>
            /\ outcome' \in {"error", "rejected"} => disturbed'
            /\ outcome' = "unauthorized" => ~Accepted
  <1>1. IndInv /\ [Next]_vars => [Explained]_vars
    <2> SUFFICES ASSUME IndInv, Next, pc # "idle", pc' = "idle" PROVE Explained
      BY DEF vars, client
    <2>1. CASE Handshake1 \/ Handshake1Fails
      BY <2>1 DEF Handshake1, Handshake1Fails, Return
    <2>2. CASE Handshake2Fails
      BY <2>2 DEF Handshake2Fails, Return, IndInv, CalmInv
    <2>3. CASE RequestAnswered
      <3>1. KeysAgree
        <4>1. PICK s \in sessions : s.id = sessionID
          BY <2>3 DEF RequestAnswered, Ready
        <4>2. KeyOf(sessionID) = sessionID
          BY <4>1 DEF IndInv, SessionInv, KeyOf
        <4> QED
          BY <2>3, <4>2 DEF RequestAnswered, IndInv, SessionInv, KeysAgree
      <3>2. established /\ Known(sessionID)
        BY <2>3 DEF RequestAnswered, Send, Ready, Known, IndInv, SessionInv
      <3> QED
        BY <2>3, <3>1, <3>2 DEF RequestAnswered, Return, KeysAgree
    <2>4. CASE RequestForbidden
      BY <2>4 DEF RequestForbidden, Send, Enter, Return, IndInv, CalmInv, TypeOK, ClientOK
    <2>5. CASE RequestLost
      BY <2>5 DEF RequestLost, Return
    <2>6. CASE Query \/ Close \/ Handshake2 \/ Forget \/ Reprovision
      BY <2>6 DEF Query, Close, Handshake2, Forget, Reprovision, client
    <2> QED
      BY <2>1, <2>2, <2>3, <2>4, <2>5, <2>6 DEF Next
  <1> QED
    BY <1>1, Invariance, PTL DEF Spec, FailureExplained

-----------------------------------------------------------------------------
(* Sequence numbers.                                                       *)

(* A number that is d requests old; the counter has wrapped once at most.  *)
Behind(v, d) == v + d = seq \/ v + d = seq + SeqModulus

(* The calls of Query whose request in this session has gone out.          *)
Sent == IF pc = "request" THEN queries - 1 ELSE queries

(* No key is older than its handshake, the seeds of a handshake have       *)
(* encrypted nothing, and what went out under the keys in use lies behind  *)
(* the counter, by less than the number of calls.                          *)
NonceInv ==
    /\ \A w \in wire : w[1] <= handshakes
    /\ pc = "handshake2" => seeds <= handshakes /\ \A w \in wire : w[1] # seeds
    /\ established => \A w \in wire : w[1] = key => \E d \in 0 .. Sent - 1 : Behind(w[2], d)

(* The counter wraps at the modulus.                                       *)
LEMMA Wraps ==
    ASSUME seq \in Sequence
    PROVE  NextSeq = IF seq + 1 = SeqModulus THEN 0 ELSE seq + 1
<1>1. SeqModulus \in Nat \ {0}
  BY KlapAssumption
<1>2. PICK m : m = SeqModulus
  OBVIOUS
<1>3. m \in Nat \ {0} /\ seq \in 0 .. m - 1 /\ NextSeq = (seq + 1) % m
  BY <1>1, <1>2 DEF Sequence, NextSeq
<1>4. (seq + 1) % m = IF seq + 1 = m THEN 0 ELSE seq + 1
  BY <1>3
<1>5. QED
  BY <1>2, <1>3, <1>4

(* A request takes a number that was not used with its key, and leaves the *)
(* numbers behind the counter.                                             *)
LEMMA SendFresh ==
    ASSUME MaxQueries <= SeqModulus, IndInv, NonceInv, Send
    PROVE  /\ <<key, NextSeq>> \notin wire
           /\ \A w \in wire' : w[1] <= handshakes
           /\ \A w \in wire' : w[1] = key =>
                  \E d \in 0 .. queries - 1 : w[2] + d = seq' \/ w[2] + d = seq' + SeqModulus
<1>1. PICK m : m = SeqModulus
  OBVIOUS
<1>2. /\ m \in Nat \ {0} /\ seq \in 0 .. m - 1 /\ queries \in Nat /\ queries <= m
      /\ queries >= 1
  BY <1>1, KlapAssumption
     DEF Send, IndInv, TypeOK, ClientOK, HistoryOK, Counts, Sequence
<1>3. NextSeq = IF seq + 1 = m THEN 0 ELSE seq + 1
  BY <1>1, Wraps DEF IndInv, TypeOK, ClientOK
<1>4. \A w \in wire : w[1] = key =>
          w[2] \in 0 .. m - 1 /\ \E d \in 0 .. queries - 2 : w[2] + d = seq \/ w[2] + d = seq + m
  <2>1. \A w \in wire : w[2] \in 0 .. m - 1
    BY <1>1 DEF IndInv, TypeOK, HistoryOK, Sequence
  <2>2. established /\ Sent = queries - 1
    BY DEF Send, Sent, IndInv, SessionInv
  <2>3. Sent - 1 = queries - 2
    BY <1>2, <2>2
  <2>4. QED
    BY <1>1, <2>1, <2>2, <2>3 DEF NonceInv, Behind
<1>5. seq' = NextSeq /\ wire' = wire \cup {<<key, NextSeq>>}
  BY DEF Send
<1>6. key <= handshakes
  BY DEF Send, IndInv, SessionInv
<1>7. <<key, NextSeq>> \notin wire
  <2> SUFFICES ASSUME <<key, NextSeq>> \in wire PROVE FALSE
    OBVIOUS
  <2>1. PICK d \in 0 .. queries - 2 : NextSeq + d = seq \/ NextSeq + d = seq + m
    BY <1>4
  <2>2. QED
    BY <1>2, <1>3, <2>1
<1>8. \A w \in wire' : w[1] <= handshakes
  BY <1>5, <1>6 DEF NonceInv
<1>9. ASSUME NEW w \in wire', w[1] = key
      PROVE  \E d \in 0 .. queries - 1 : w[2] + d = seq' \/ w[2] + d = seq' + m
  <2>1. CASE w \in wire
    <3>1. PICK d \in 0 .. queries - 2 : w[2] + d = seq \/ w[2] + d = seq + m
      BY <1>4, <1>9, <2>1
    <3>2. d + 1 \in 0 .. queries - 1
      BY <1>2, <3>1
    <3>3. w[2] \in 0 .. m - 1
      BY <1>4, <1>9, <2>1
    <3>4. w[2] + (d + 1) = seq' \/ w[2] + (d + 1) = seq' + m
      BY <1>2, <1>3, <1>5, <3>1, <3>3
    <3>5. QED
      BY <3>2, <3>4
  <2>2. CASE w = <<key, NextSeq>>
    <3>1. w[2] + 0 = seq' /\ 0 \in 0 .. queries - 1
      BY <1>2, <1>3, <1>5, <2>2
    <3>2. QED
      BY <3>1
  <2>3. QED
    BY <1>5, <2>1, <2>2
<1>10. QED
  BY <1>1, <1>7, <1>8, <1>9

(* Every step keeps the numbers behind the counter.                        *)
LEMMA NonceStep ==
    ASSUME MaxQueries <= SeqModulus, IndInv, NonceInv, [Next]_vars
    PROVE  NonceInv'
<1> USE DEF IndInv, TypeOK
<1>1. \A w \in wire : w[1] \in SessionIDs
  BY DEF HistoryOK
<1>2. handshakes \in Nat /\ queries \in Nat
  BY Numbers DEF HistoryOK
<1>3. ASSUME Send, pc' # "request", pc' # "handshake2", UNCHANGED <<key, handshakes, queries>>
      PROVE  NonceInv'
  <2>1. Sent' = queries
    BY <1>3 DEF Sent
  <2>2. QED
    BY <1>3, <2>1, SendFresh DEF NonceInv, Behind
<1>4. CASE Query
  <2>1. established => Sent' = Sent
    BY <1>2, <1>4 DEF Query, Enter, Sent
  <2>2. QED
    BY <1>4, <2>1 DEF Query, Enter, NonceInv, Behind
<1>5. CASE Close
  BY <1>5 DEF Close, NonceInv, history
<1>6. CASE Handshake1 \/ Handshake1Fails
  <2>1. handshakes' \in {handshakes, handshakes + 1} /\ wire' = wire /\ established' = FALSE
    BY <1>6 DEF Handshake1, Handshake1Fails, Greet, SessionInv, ClientOK
  <2>2. pc' = "handshake2" => seeds' = handshakes + 1 /\ handshakes' = handshakes + 1
    BY <1>6 DEF Handshake1, Handshake1Fails, Greet, Return
  <2>3. \A w \in wire : w[1] <= handshakes /\ w[1] \in Nat
    BY <1>1, Numbers DEF NonceInv
  <2>4. QED
    BY <1>2, <2>1, <2>2, <2>3 DEF NonceInv
<1>7. CASE Handshake2
  BY <1>7 DEF Handshake2, NonceInv, history
<1>8. CASE Handshake2Fails
  BY <1>8 DEF Handshake2Fails, Return, NonceInv, SessionInv
<1>9. CASE RequestAnswered
  BY <1>3, <1>9 DEF RequestAnswered, Return
<1>10. CASE RequestForbidden
  BY <1>3, <1>10 DEF RequestForbidden, Return, Enter
<1>11. CASE RequestLost
  BY <1>3, <1>11 DEF RequestLost, Return
<1>12. CASE Forget \/ Reprovision \/ UNCHANGED vars
  <2>1. UNCHANGED <<pc, established, seeds, key, seq, handshakes, queries, wire>>
    BY <1>12 DEF Forget, Reprovision, client, vars, history
  <2>2. QED
    BY <2>1 DEF NonceInv, Sent, Behind
<1>13. QED
  BY <1>4, <1>5, <1>6, <1>7, <1>8, <1>9, <1>10, <1>11, <1>12 DEF Next

(* As long as Query is called no more often than there are sequence        *)
(* numbers, no two requests are encrypted under the same key and IV,       *)
(* retries and lost requests included (klapDeriveSession, Query).          *)
THEOREM NoncesFresh == MaxQueries <= SeqModulus => (Spec => NonceFresh)
<1> SUFFICES ASSUME MaxQueries <= SeqModulus PROVE Spec => NonceFresh
  OBVIOUS
<1>1. Init => NonceInv
  BY DEF Init, NonceInv
<1>2. IndInv /\ NonceInv /\ [Next]_vars => NonceInv'
  BY NonceStep
<1>3. IndInv /\ NonceInv /\ [Next]_vars => (pc = "request" /\ pc' # "request" => wire' # wire)
  <2> SUFFICES ASSUME IndInv, NonceInv, [Next]_vars, pc = "request", pc' # "request"
               PROVE  wire' # wire
    OBVIOUS
  <2>1. Send
    BY DEF Next, Query, Close, Handshake1, Handshake1Fails, Handshake2, Handshake2Fails,
           RequestAnswered, RequestForbidden, RequestLost, Forget, Reprovision, client, vars
  <2>2. QED
    BY <2>1, SendFresh DEF Send
<1>4. QED
  BY <1>1, <1>2, <1>3, InitHolds, StepHolds, PTL DEF Spec, NonceFresh
=============================================================================
