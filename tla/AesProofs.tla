----------------------------- MODULE AesProofs ------------------------------
(***************************************************************************)
(* Theorems about the AES transport, for any number of calls of Query and  *)
(* of faults.                                                              *)
(*                                                                         *)
(* As for the KLAP transport the invariant has three parts: how many       *)
(* handshakes a Query can have caused (Counts), what the client's fields   *)
(* and the device's sessions have to do with each other at every post      *)
(* (SessionInv), and what a Query that nobody interfered with has already  *)
(* achieved (CalmInv).                                                     *)
(***************************************************************************)
EXTENDS Aes, TLAPS

(* A Query causes at most two handshakes, one in each pass of its loop.    *)
Counts ==
    /\ pc # "idle" => queries >= 1
    /\ pc = "idle" => handshakes <= 2 * queries
    /\ pc = "handshake" => handshakes <= 2 * (queries - 1) + attempt
    /\ pc \in LoginPosts \cup {"request"} => handshakes <= 2 * (queries - 1) + attempt + 1

(* The device's sessions: each has a number and a key of its own, and its  *)
(* token, if it has given one out.                                         *)
DeviceInv ==
    /\ \A s \in sessions : /\ s.key = s.id /\ s.id <= handshakes
                           /\ s.token \in {None, s.id}
    /\ \A s, t \in sessions : s.id = t.id => s = t

(* The client's: a handshake starts from nothing, a login has a key and a  *)
(* cookie and no token, a request has all three, of one session.           *)
ClientInv ==
    /\ pc = "handshake" => ~established /\ sessionID = None /\ token = None
    /\ pc \in LoginPosts =>
           established /\ key # None /\ sessionID = key /\ token = None
    /\ pc = "request" => established
    /\ established /\ pc \in {"idle", "request"} =>
           /\ key # None /\ sessionID = key /\ token = key
           /\ \A s \in sessions : s.id = key => s.token = key

SessionInv == DeviceInv /\ ClientInv

(* An undisturbed Query still has the session it has negotiated, and has   *)
(* been refused the first login for a reason.                              *)
CalmInv ==
    ~disturbed =>
        /\ pc \in LoginPosts => Known(sessionID)
        /\ pc = "login2" => ~(fits /\ shape = 1)
        /\ pc = "request" /\ attempt = 1 => Known(sessionID)

IndInv == TypeOK /\ Counts /\ SessionInv /\ CalmInv

(* What the numbers of the model are.                                      *)
LEMMA Numbers ==
    /\ MaxQueries \in Nat
    /\ MaxFaults \in Nat
    /\ 2 * MaxQueries \in Nat
    /\ SessionIDs = 1 .. 2 * MaxQueries
    /\ None = 0
    /\ None \notin SessionIDs
  BY AesAssumption DEF SessionIDs, None

(* A handshake leaves room for the number of its own session.              *)
LEMMA RoomForSession ==
    ASSUME TypeOK, Counts, pc = "handshake"
    PROVE  handshakes + 1 \in SessionIDs /\ handshakes + 1 \in 0 .. 2 * MaxQueries
  BY Numbers DEF TypeOK, Counts

(* The device understands a post exactly if it knows the session: all      *)
(* else that it compares is as it should be.                               *)
LEMMA KnownIsUnderstood ==
    ASSUME TypeOK, SessionInv, pc \in LoginPosts \cup {"request"}
    PROVE  Understood <=> Known(sessionID)
  <1>1. ASSUME Known(sessionID) PROVE Understood
    <2>1. PICK s \in sessions : s.id = sessionID
      BY <1>1 DEF Known
    <2>2. Session(sessionID) = s
      BY <2>1 DEF SessionInv, DeviceInv, Session
    <2> QED
      BY <1>1, <2>1, <2>2, Numbers DEF SessionInv, DeviceInv, ClientInv,
                                           Understood, LoginPosts
  <1> QED
    BY <1>1 DEF Understood

(* A handshake adds one session and leaves the others as they are.         *)
LEMMA NewSession ==
    ASSUME TypeOK, Counts, DeviceInv, pc = "handshake", sessionID = None, Greet(sessionID)
    PROVE  /\ ~Known(sessionID)
           /\ sessions' \subseteq [id : SessionIDs, key : SessionIDs,
                                   token : SessionIDs \cup {None}]
           /\ DeviceInv'
           /\ \E s \in sessions' : s.id = handshakes + 1
           /\ \A s \in sessions' : s.id # handshakes + 1 => s \in sessions
  <1> DEFINE n == handshakes + 1
             new == [id |-> n, key |-> n, token |-> None]
  <1>1. ~Known(sessionID)
    BY Numbers DEF TypeOK, Known
  <1>2. sessions' = sessions \cup {new} /\ handshakes' = n
    BY <1>1 DEF Greet
  <1>3. n \in SessionIDs /\ n \in Nat
    BY RoomForSession, Numbers
  <1>4. /\ new \in [id : SessionIDs, key : SessionIDs, token : SessionIDs \cup {None}]
        /\ new.id = n /\ new.key = n /\ new.token = None
    BY <1>3
  <1>5. \A s \in sessions : s.id \in Nat /\ s.id < n
    BY Numbers DEF TypeOK, DeviceInv
  <1> HIDE DEF new
  <1>6. DeviceInv'
    BY <1>2, <1>3, <1>4, <1>5 DEF DeviceInv
  <1> QED
    BY <1>1, <1>2, <1>4, <1>6 DEF TypeOK

(* A login gives its session a token and leaves the others as they are.    *)
LEMMA TokenGiven ==
    ASSUME TypeOK, DeviceInv, UNCHANGED handshakes, sessionID \in SessionIDs,
           sessions' = GiveToken(sessionID)
    PROVE  /\ sessions' \subseteq [id : SessionIDs, key : SessionIDs,
                                   token : SessionIDs \cup {None}]
           /\ DeviceInv'
           /\ \A s \in sessions' : s.id = sessionID => s.token = sessionID
           /\ Known(sessionID) => \E s \in sessions' : s.id = sessionID
  <1> DEFINE given(s) == IF s.id = sessionID THEN [s EXCEPT !.token = sessionID] ELSE s
  <1>1. \A s \in sessions : /\ given(s).id = s.id /\ given(s).key = s.key
                            /\ given(s).token = IF s.id = sessionID THEN sessionID ELSE s.token
                            /\ given(s) \in [id : SessionIDs, key : SessionIDs,
                                             token : SessionIDs \cup {None}]
    BY DEF TypeOK
  <1>2. sessions' = {given(s) : s \in sessions}
    BY DEF GiveToken
  <1> HIDE DEF given
  <1>3. DeviceInv'
    BY <1>1, <1>2 DEF DeviceInv
  <1>4. Known(sessionID) => \E s \in sessions' : s.id = sessionID
    BY <1>1, <1>2 DEF Known
  <1> QED
    BY <1>1, <1>2, <1>3, <1>4

(* The invariant holds initially.                                          *)
LEMMA InitHolds == Init => IndInv
  <1> SUFFICES ASSUME Init PROVE IndInv
    OBVIOUS
  <1>1. TypeOK
    <2>1. {established, fits, disturbed} \subseteq BOOLEAN
      BY DEF Init
    <2> QED
      BY <2>1, Numbers DEF Init, TypeOK
  <1>2. Counts /\ SessionInv /\ CalmInv
    BY Numbers DEF Init, Counts, SessionInv, DeviceInv, ClientInv, CalmInv, LoginPosts
  <1> QED
    BY <1>1, <1>2 DEF IndInv

(* Steps that leave the device's sessions alone keep what is known of      *)
(* them.                                                                   *)
LEMMA SameSessions ==
    ASSUME DeviceInv, UNCHANGED <<sessions, handshakes>>
    PROVE  DeviceInv' /\ \A id : Known(id)' <=> Known(id)
  BY DEF DeviceInv, Known

(* Every step keeps the invariant.                                         *)
LEMMA StepHolds == IndInv /\ [Next]_vars => IndInv'
  <1> SUFFICES ASSUME IndInv, [Next]_vars PROVE IndInv'
    OBVIOUS
  <1> USE Numbers DEF IndInv, SessionInv
  <1>1. CASE Query
    <2> USE <1>1 DEF Query, Connect, client, device, history, LoginPosts
    <2>1. DeviceInv' /\ \A id : Known(id)' <=> Known(id)
      BY SameSessions
    <2>2. TypeOK'
      <3>1. disturbed' \in BOOLEAN
        OBVIOUS
      <3> QED
        BY <3>1 DEF TypeOK
    <2>3. Counts'
      BY DEF TypeOK, Counts
    <2>4. SessionInv'
      BY <2>1 DEF TypeOK, ClientInv
    <2>5. CalmInv'
      BY <2>1 DEF CalmInv
    <2> QED
      BY <2>2, <2>3, <2>4, <2>5
  <1>2. CASE Close
    <2> USE <1>2 DEF Close, client, device, history, LoginPosts
    <2>1. DeviceInv' /\ \A id : Known(id)' <=> Known(id)
      BY SameSessions
    <2>2. TypeOK'
      BY DEF TypeOK
    <2>3. Counts'
      BY DEF TypeOK, Counts
    <2>4. SessionInv'
      BY <2>1 DEF TypeOK, ClientInv
    <2>5. CalmInv'
      BY <2>1 DEF CalmInv
    <2> QED
      BY <2>2, <2>3, <2>4, <2>5
  <1>3. CASE Handshake
    <2> USE <1>3 DEF Handshake, client, device, history, LoginPosts
    <2>1. /\ DeviceInv' /\ Known(sessionID)' /\ ~Known(sessionID)
          /\ sessions' \subseteq [id : SessionIDs, key : SessionIDs,
                                  token : SessionIDs \cup {None}]
      BY NewSession DEF ClientInv, Known
    <2>2. TypeOK'
      BY <2>1, RoomForSession DEF TypeOK, Greet
    <2>3. Counts'
      BY DEF TypeOK, Counts, Greet
    <2>4. SessionInv'
      BY <2>1 DEF TypeOK, ClientInv, DeviceInv, Greet
    <2>5. CalmInv'
      BY <2>1 DEF CalmInv
    <2> QED
      BY <2>2, <2>3, <2>4, <2>5
  <1>4. CASE HandshakeFails
    <2> USE <1>4 DEF HandshakeFails, Disturb, Return, client, device, history, LoginPosts
    <2>1. /\ DeviceInv'
          /\ sessions' \subseteq [id : SessionIDs, key : SessionIDs,
                                  token : SessionIDs \cup {None}]
      BY NewSession, SameSessions DEF ClientInv, TypeOK
    <2>2. TypeOK'
      BY <2>1, RoomForSession DEF TypeOK, Greet
    <2>3. Counts'
      BY DEF TypeOK, Counts, Greet
    <2>4. SessionInv'
      BY <2>1 DEF TypeOK, ClientInv, DeviceInv, Greet
    <2>5. CalmInv'
      BY <2>1 DEF CalmInv
    <2> QED
      BY <2>2, <2>3, <2>4, <2>5
  <1>5. CASE LoginAccepted
    <2> USE <1>5 DEF LoginAccepted, client, device, history, LoginPosts
    <2>1. sessionID \in SessionIDs
      BY DEF TypeOK, ClientInv
    <2>2. TypeOK'
      BY <2>1, TokenGiven DEF TypeOK
    <2>3. Counts'
      BY DEF TypeOK, Counts
    <2>4. SessionInv'
      BY <2>1, TokenGiven DEF TypeOK, ClientInv
    <2>5. CalmInv'
      BY <2>1, KnownIsUnderstood, TokenGiven DEF TypeOK, ClientInv, CalmInv, Shape, Known
    <2> QED
      BY <2>2, <2>3, <2>4, <2>5
  <1>6. CASE LoginRefused
    <2> USE <1>6 DEF LoginRefused, NextLogin, Return, client, device, history, LoginPosts
    <2>1. DeviceInv' /\ \A id : Known(id)' <=> Known(id)
      BY SameSessions
    <2>2. TypeOK'
      BY DEF TypeOK
    <2>3. Counts'
      BY DEF TypeOK, Counts
    <2>4. SessionInv'
      BY <2>1 DEF TypeOK, ClientInv
    <2>5. CalmInv'
      BY <2>1, KnownIsUnderstood DEF TypeOK, ClientInv, CalmInv, Shape
    <2> QED
      BY <2>2, <2>3, <2>4, <2>5
  <1>7. CASE LoginExpired
    <2> USE <1>7 DEF LoginExpired, NextLogin, Return, client, device, history, LoginPosts
    <2>1. DeviceInv' /\ \A id : Known(id)' <=> Known(id)
      BY SameSessions
    <2>2. TypeOK'
      BY DEF TypeOK
    <2>3. Counts'
      BY DEF TypeOK, Counts
    <2>4. SessionInv'
      BY <2>1 DEF TypeOK, ClientInv
    <2>5. CalmInv'
      BY <2>1, KnownIsUnderstood DEF TypeOK, ClientInv, CalmInv, Shape
    <2> QED
      BY <2>2, <2>3, <2>4, <2>5
  <1>8. CASE LoginFails
    <2> USE <1>8 DEF LoginFails, NextLogin, Return, Disturb, client, device, history, LoginPosts
    <2>1. sessionID \in SessionIDs
      BY DEF TypeOK, ClientInv
    <2>2. /\ DeviceInv'
          /\ sessions' \subseteq [id : SessionIDs, key : SessionIDs,
                                  token : SessionIDs \cup {None}]
      <3>1. CASE UNCHANGED sessions
        BY <3>1, SameSessions DEF TypeOK
      <3>2. CASE sessions' = GiveToken(sessionID)
        BY <2>1, <3>2, TokenGiven
      <3> QED
        BY <3>1, <3>2
    <2>3. TypeOK'
      <3>1. disturbed' \in BOOLEAN /\ established' \in BOOLEAN
        BY DEF TypeOK
      <3> QED
        BY <2>2, <3>1 DEF TypeOK
    <2>4. Counts'
      BY DEF TypeOK, Counts
    <2>5. SessionInv'
      BY <2>1, <2>2 DEF TypeOK, ClientInv
    <2>6. CalmInv'
      BY DEF CalmInv
    <2> QED
      BY <2>3, <2>4, <2>5, <2>6
  <1>9. CASE RequestAnswered
    <2> USE <1>9 DEF RequestAnswered, Return, client, device, history, LoginPosts
    <2>1. DeviceInv' /\ \A id : Known(id)' <=> Known(id)
      BY SameSessions
    <2>2. TypeOK'
      BY DEF TypeOK
    <2>3. Counts'
      BY DEF TypeOK, Counts
    <2>4. SessionInv'
      BY <2>1 DEF TypeOK, ClientInv
    <2>5. CalmInv'
      BY <2>1 DEF CalmInv
    <2> QED
      BY <2>2, <2>3, <2>4, <2>5
  <1>10. CASE RequestRefused
    <2> USE <1>10 DEF RequestRefused, Return, client, device, history, LoginPosts
    <2>1. DeviceInv' /\ \A id : Known(id)' <=> Known(id)
      BY SameSessions
    <2>2. TypeOK'
      BY DEF TypeOK
    <2>3. Counts'
      BY DEF TypeOK, Counts
    <2>4. SessionInv'
      BY <2>1 DEF TypeOK, ClientInv
    <2>5. CalmInv'
      BY <2>1 DEF CalmInv
    <2> QED
      BY <2>2, <2>3, <2>4, <2>5
  <1>11. CASE RequestExpired
    <2> USE <1>11 DEF RequestExpired, Return, Connect, client, device, history, LoginPosts
    <2>1. DeviceInv' /\ \A id : Known(id)' <=> Known(id)
      BY SameSessions
    <2>2. TypeOK'
      BY DEF TypeOK
    <2>3. Counts'
      BY DEF TypeOK, Counts
    <2>4. SessionInv'
      BY <2>1 DEF TypeOK, ClientInv
    <2>5. CalmInv'
      BY <2>1, KnownIsUnderstood DEF TypeOK, ClientInv, CalmInv
    <2> QED
      BY <2>2, <2>3, <2>4, <2>5
  <1>12. CASE RequestLost
    <2> USE <1>12 DEF RequestLost, Return, Disturb, client, device, history, LoginPosts
    <2>1. DeviceInv' /\ \A id : Known(id)' <=> Known(id)
      BY SameSessions
    <2>2. TypeOK'
      BY DEF TypeOK
    <2>3. Counts'
      BY DEF TypeOK, Counts
    <2>4. SessionInv'
      BY <2>1 DEF TypeOK, ClientInv
    <2>5. CalmInv'
      BY <2>1 DEF CalmInv
    <2> QED
      BY <2>2, <2>3, <2>4, <2>5
  <1>13. CASE Forget
    <2> USE <1>13 DEF Forget, Disturb, client, device, history, LoginPosts
    <2>1. DeviceInv'
      BY DEF DeviceInv
    <2>2. TypeOK'
      BY DEF TypeOK
    <2>3. Counts'
      BY DEF TypeOK, Counts
    <2>4. SessionInv'
      BY <2>1 DEF TypeOK, ClientInv
    <2>5. CalmInv'
      BY <2>1 DEF CalmInv
    <2> QED
      BY <2>2, <2>3, <2>4, <2>5
  <1>14. CASE Reprovision
    <2> USE <1>14 DEF Reprovision, Disturb, client, device, history, LoginPosts
    <2>1. DeviceInv'
      BY DEF DeviceInv
    <2>2. TypeOK'
      BY DEF TypeOK
    <2>3. Counts'
      BY DEF TypeOK, Counts
    <2>4. SessionInv'
      BY <2>1 DEF TypeOK, ClientInv
    <2>5. CalmInv'
      BY <2>1 DEF CalmInv
    <2> QED
      BY <2>2, <2>3, <2>4, <2>5
  <1>15. CASE UNCHANGED vars
    BY <1>15 DEF vars, client, device, history, TypeOK, Counts, DeviceInv, ClientInv, CalmInv,
                 Known
  <1> QED
    BY <1>1, <1>2, <1>3, <1>4, <1>5, <1>6, <1>7, <1>8, <1>9, <1>10, <1>11, <1>12, <1>13,
       <1>14, <1>15 DEF Next

(* The invariant is one of every behaviour.                                *)
LEMMA Invariance == Spec => []IndInv
  BY InitHolds, StepHolds, PTL DEF Spec

(* The transport's fields, the device's sessions and the history keep      *)
(* their types; a Query never handshakes more than twice (aes.go, Query).  *)
THEOREM TypeCorrect == Spec => []TypeOK
  <1>1. IndInv => TypeOK
    BY DEF IndInv
  <1> QED
    BY <1>1, Invariance, PTL

(* SessionWhole holds in every reachable state: a session the client means *)
(* to use has the key, cookie and token of one handshake (aes.go, connect, *)
(* login).                                                                 *)
THEOREM SessionsWhole == Spec => []SessionWhole
  <1>1. IndInv => SessionWhole
    <2> SUFFICES ASSUME IndInv, established, pc \in {"idle", "request"}
                 PROVE  /\ token # None /\ token = key /\ sessionID = key
                        /\ Known(sessionID) => Understood
      BY DEF SessionWhole
    <2>1. token # None /\ token = key /\ sessionID = key
      BY DEF IndInv, SessionInv, ClientInv
    <2>2. ASSUME Known(sessionID) PROVE Understood
      <3>1. PICK s \in sessions : s.id = sessionID
        BY <2>2 DEF Known
      <3>2. Session(sessionID) = s
        BY <3>1 DEF IndInv, SessionInv, DeviceInv, Session
      <3> QED
        BY <2>1, <2>2, <3>1, <3>2 DEF IndInv, SessionInv, DeviceInv, ClientInv, Understood
    <2> QED
      BY <2>1, <2>2
  <1> QED
    BY <1>1, Invariance, PTL

(* Every step satisfies FailureExplained: a Query that nobody interferes   *)
(* with succeeds if the credentials fit and is refused if they do not,     *)
(* after whatever has happened before (aes.go, Query, login).              *)
THEOREM FailuresExplained == Spec => FailureExplained
  <1> DEFINE Explained ==
        pc # "idle" /\ pc' = "idle" /\ ~disturbed' =>
            outcome' = (IF fits THEN "ok" ELSE "unauthorized")
  <1>1. IndInv /\ [Next]_vars => [Explained]_vars
    <2> SUFFICES ASSUME IndInv, Next, pc # "idle", pc' = "idle", ~disturbed'
                 PROVE  outcome' = (IF fits THEN "ok" ELSE "unauthorized")
      BY DEF vars, client
    <2> USE DEF IndInv
    <2>1. CASE HandshakeFails \/ LoginFails \/ RequestLost \/ Forget \/ Reprovision
      BY <2>1 DEF HandshakeFails, LoginFails, RequestLost, Forget, Reprovision, Disturb
    <2>2. CASE LoginRefused \/ LoginExpired
      <3>1. pc = "login2" /\ Understood /\ ~disturbed /\ outcome' = "unauthorized"
        BY <2>2, KnownIsUnderstood
           DEF LoginRefused, LoginExpired, NextLogin, Return, CalmInv, LoginPosts, history
      <3>2. ~(fits /\ shape = 1) /\ ~(fits /\ shape = 2)
        BY <2>2, <3>1 DEF LoginRefused, LoginExpired, CalmInv, Shape
      <3> QED
        BY <3>1, <3>2 DEF TypeOK
    <2>3. CASE RequestAnswered \/ RequestRefused
      BY <2>3 DEF RequestAnswered, RequestRefused, Return
    <2>4. CASE RequestExpired
      BY <2>4, KnownIsUnderstood
         DEF RequestExpired, Connect, Return, CalmInv, history
    <2>5. CASE Query \/ Close \/ Handshake \/ LoginAccepted
      BY <2>5 DEF Query, Connect, Close, Handshake, LoginAccepted
    <2> QED
      BY <2>1, <2>2, <2>3, <2>4, <2>5 DEF Next
  <1> QED
    BY <1>1, Invariance, PTL DEF Spec, FailureExplained
=============================================================================
