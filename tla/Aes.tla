-------------------------------- MODULE Aes ---------------------------------
(***************************************************************************)
(* The AES transport ("secure passthrough"), kasa/aes.go, against a device *)
(* that forgets its sessions, changes hands, or is cut off in the middle   *)
(* of an exchange.                                                         *)
(*                                                                         *)
(* Query, connect, login and Close run under aesTransport.mu: the client   *)
(* is one process, and its steps are its HTTP posts.  A session, its key,  *)
(* its token and its cookie are each named by the number of the handshake  *)
(* that made them; a reply decrypts exactly when the two keys are equal.   *)
(***************************************************************************)
EXTENDS Integers, FiniteSets

CONSTANTS
    MaxQueries,     \* bound: how many times Query is called
    MaxFaults       \* bound: how many times the device or the network interferes

ASSUME AesAssumption == MaxQueries \in Nat /\ MaxFaults \in Nat

VARIABLES
    \* the client
    pc,             \* the post the client is about to make, or "idle"
    attempt,        \* the loop counter of Query
    established, sessionID, token, key,
    outcome,        \* what the last Query returned
    \* the device
    fits,           \* the configured credentials are the ones it is bound to
    shape,          \* the login it understands, 1 (password) or 2 (password2)
    sessions,       \* the sessions it knows
    \* history
    handshakes,     \* how many handshakes the device has answered
    queries,        \* how many times Query was called
    disturbed,      \* the device or the network interfered with this Query
    faults          \* how often they have interfered

client  == <<pc, attempt, established, sessionID, token, key, outcome>>
device  == <<fits, shape, sessions>>
history == <<handshakes, queries, disturbed, faults>>
vars    == <<client, device, history>>

None == 0
SessionIDs == 1 .. 2 * MaxQueries
LoginPosts == {"login1", "login2"}
Shape(post) == IF post = "login1" THEN 1 ELSE 2     \* the order of login's attempts

(* The types of the transport's fields, the device's and the history's.    *)
TypeOK ==
    /\ pc \in {"idle", "handshake", "request"} \cup LoginPosts
    /\ attempt \in {0, 1}
    /\ established \in BOOLEAN
    /\ {sessionID, token, key} \subseteq SessionIDs \cup {None}
    /\ outcome \in {"none", "ok", "unauthorized", "expired", "error"}
    /\ fits \in BOOLEAN
    /\ shape \in {1, 2}
    /\ sessions \subseteq [id : SessionIDs, key : SessionIDs, token : SessionIDs \cup {None}]
    /\ handshakes \in 0 .. 2 * MaxQueries
    /\ queries \in 0 .. MaxQueries
    /\ disturbed \in BOOLEAN
    /\ faults \in 0 .. MaxFaults

Init ==
    /\ pc = "idle"
    /\ attempt = 0
    /\ established = FALSE
    /\ sessionID = None /\ token = None /\ key = None
    /\ outcome = "none"
    /\ fits \in BOOLEAN
    /\ shape \in {1, 2}
    /\ sessions = {}
    /\ handshakes = 0
    /\ queries = 0
    /\ disturbed = FALSE
    /\ faults = 0

Known(id) == \E s \in sessions : s.id = id
Session(id) == CHOOSE s \in sessions : s.id = id

(* What the device makes of a post: it knows the cookie, the ciphertext    *)
(* decrypts, and the token is the one it gave out for the session; a login *)
(* needs none.                                                             *)
Understood ==
    /\ Known(sessionID)
    /\ Session(sessionID).key = key
    /\ \/ token # None /\ token = Session(sessionID).token
       \/ token = None /\ pc \in LoginPosts

Disturb ==
    /\ faults < MaxFaults
    /\ faults' = faults + 1
    /\ disturbed' = TRUE

-----------------------------------------------------------------------------
(* Query.                                                                  *)

(* Fault: connect keeps what it has of the old session.                    *)
ConnectKeeping ==
    /\ pc' = "handshake"
    /\ UNCHANGED <<token, sessionID>>

(* connect begins by forgetting the token and the cookie.                  *)
Connect ==
    /\ pc' = "handshake"
    /\ token' = None
    /\ sessionID' = None

Return(result) == pc' = "idle" /\ outcome' = result

(* One pass of the loop: connect first, unless a session is there.         *)
Query ==
    /\ pc = "idle"
    /\ queries < MaxQueries
    /\ queries' = queries + 1
    /\ attempt' = 0
    /\ outcome' = "none"
    /\ disturbed' = FALSE
    /\ \/ established /\ pc' = "request" /\ UNCHANGED <<token, sessionID>>
       \/ ~established /\ Connect
    /\ UNCHANGED <<established, key, device, handshakes, faults>>

(* The device answers a handshake: a new key, in a session of its own or   *)
(* in the one the cookie names.                                            *)
Greet(cookie) ==
    LET n == handshakes + 1 IN
    /\ handshakes' = n
    /\ sessions' = IF Known(cookie)
                   THEN {IF s.id = cookie THEN [s EXCEPT !.key = n] ELSE s : s \in sessions}
                   ELSE sessions \cup {[id |-> n, key |-> n, token |-> None]}

(* The handshake is answered with a session key and a cookie; established  *)
(* is set before the login.                                                *)
Handshake ==
    /\ pc = "handshake"
    /\ Greet(sessionID)
    /\ sessionID' = IF Known(sessionID) THEN sessionID ELSE handshakes + 1
    /\ key' = handshakes + 1
    /\ established' = TRUE
    /\ pc' = "login1"
    /\ UNCHANGED <<attempt, token, outcome, fits, shape, queries, disturbed, faults>>

(* The post or its answer is lost, the answer is malformed, or it carries  *)
(* an error code; the code's own error is what Query returns.  The cookie  *)
(* of an answer that is refused later on has been kept by then.            *)
HandshakeFails ==
    /\ pc = "handshake"
    /\ Disturb
    /\ \/ UNCHANGED <<sessions, handshakes, sessionID>>
       \/ Greet(sessionID) /\ sessionID' \in {sessionID, handshakes + 1}
    /\ \E result \in {"error", "expired", "unauthorized"} : Return(result)
    /\ UNCHANGED <<attempt, established, token, key, fits, shape, queries>>

-----------------------------------------------------------------------------
(* login.                                                                  *)

GiveToken(id) == {IF s.id = id THEN [s EXCEPT !.token = id] ELSE s : s \in sessions}

(* The shape the device understands, with credentials that fit.            *)
LoginAccepted ==
    /\ pc \in LoginPosts
    /\ Understood /\ fits /\ Shape(pc) = shape
    /\ sessions' = GiveToken(sessionID)
    /\ token' = sessionID
    /\ pc' = "request"
    /\ UNCHANGED <<attempt, established, sessionID, key, outcome, fits, shape, history>>

(* Fault: the session is still taken for established.                      *)
NextLoginKept ==
    \/ pc = "login1" /\ pc' = "login2" /\ UNCHANGED <<established, outcome>>
    \/ pc = "login2" /\ Return("unauthorized") /\ UNCHANGED established

(* A login shape failed, for whatever reason: the other one is tried, and  *)
(* after both the error is errAESUnauthorized.                             *)
NextLogin ==
    \/ pc = "login1" /\ pc' = "login2" /\ UNCHANGED <<established, outcome>>
    \/ pc = "login2" /\ Return("unauthorized") /\ established' = FALSE

(* The device refuses this shape or these credentials.                     *)
LoginRefused ==
    /\ pc \in LoginPosts
    /\ Understood /\ ~(fits /\ Shape(pc) = shape)
    /\ NextLogin
    /\ UNCHANGED <<attempt, sessionID, token, key, device, history>>

(* The device has forgotten the session: "session expired", which login    *)
(* treats like any other error.                                            *)
LoginExpired ==
    /\ pc \in LoginPosts
    /\ ~Understood
    /\ NextLogin
    /\ UNCHANGED <<attempt, sessionID, token, key, device, history>>

(* The post or its answer is lost, or the answer has another code, no      *)
(* token, or cannot be decoded.                                            *)
LoginFails ==
    /\ pc \in LoginPosts
    /\ Disturb
    /\ NextLogin
    /\ IF Understood /\ fits /\ Shape(pc) = shape
       THEN sessions' \in {sessions, GiveToken(sessionID)}
       ELSE UNCHANGED sessions
    /\ UNCHANGED <<attempt, sessionID, token, key, fits, shape, handshakes, queries>>

-----------------------------------------------------------------------------
(* passthrough of the request itself.                                      *)

RequestAnswered ==
    /\ pc = "request"
    /\ Understood /\ fits
    /\ Return("ok")
    /\ UNCHANGED <<attempt, established, sessionID, token, key, device, history>>

(* The device has changed hands and kept the session: a rejected login.    *)
RequestRefused ==
    /\ pc = "request"
    /\ Understood /\ ~fits
    /\ Return("unauthorized")
    /\ UNCHANGED <<attempt, established, sessionID, token, key, device, history>>

(* Fault: the loop goes round once too often.                              *)
RequestExpiredThrice ==
    /\ pc = "request"
    /\ ~Understood
    /\ \/ attempt < 2 /\ attempt' = attempt + 1 /\ Connect /\ UNCHANGED outcome
       \/ attempt = 2 /\ Return("expired") /\ UNCHANGED <<attempt, sessionID, token>>
    /\ established' = FALSE
    /\ UNCHANGED <<key, device, history>>

(* "Session expired": once more round the loop, with a new session.        *)
RequestExpired ==
    /\ pc = "request"
    /\ ~Understood
    /\ \/ attempt = 0 /\ attempt' = 1 /\ Connect /\ UNCHANGED outcome
       \/ attempt = 1 /\ Return("expired") /\ UNCHANGED <<attempt, sessionID, token>>
    /\ established' = FALSE
    /\ UNCHANGED <<key, device, history>>

(* Lost, another status or code, or a reply that does not decode.          *)
RequestLost ==
    /\ pc = "request"
    /\ Disturb
    /\ Return("error")
    /\ UNCHANGED <<attempt, established, sessionID, token, key, device, handshakes, queries>>

(* Close forgets the session.                                              *)
Close ==
    /\ pc = "idle"
    /\ established' = FALSE
    /\ token' = None
    /\ sessionID' = None
    /\ UNCHANGED <<pc, attempt, key, outcome, device, history>>

-----------------------------------------------------------------------------
(* The device on its own.                                                  *)

(* A reboot, or the session's lifetime.                                    *)
Forget ==
    /\ sessions # {}
    /\ Disturb
    /\ sessions' = {}
    /\ UNCHANGED <<client, fits, shape, handshakes, queries>>

(* It is bound to another account or back again, or its firmware changes   *)
(* the login; its sessions may outlive that.                               *)
Reprovision ==
    /\ Disturb
    /\ fits' \in BOOLEAN /\ shape' \in {1, 2}
    /\ <<fits', shape'>> # <<fits, shape>>
    /\ sessions' \in {{}, sessions}
    /\ UNCHANGED <<client, handshakes, queries>>

Next ==
    \/ Query \/ Close
    \/ Handshake \/ HandshakeFails
    \/ LoginAccepted \/ LoginRefused \/ LoginExpired \/ LoginFails
    \/ RequestAnswered \/ RequestRefused \/ RequestExpired \/ RequestLost
    \/ Forget \/ Reprovision

Spec == Init /\ [][Next]_vars

-----------------------------------------------------------------------------
(* A session the client means to use is whole: key, cookie and token are   *)
(* those of one handshake whose login succeeded, whatever was cut short    *)
(* before, and the device, if it still knows the session, agrees (connect: *)
(* "leaving the transport with a session key and a request token").        *)
SessionWhole ==
    established /\ pc \in {"idle", "request"} =>
        /\ token # None /\ token = key /\ sessionID = key
        /\ Known(sessionID) => Understood

(* A Query left alone by device and network succeeds if the credentials    *)
(* fit, also when its session was forgotten before it began and whichever  *)
(* login shape the device wants (Query: "a scrape must not fail for the    *)
(* rest of the process's life because of it").                             *)
FailureExplained ==
    [][pc # "idle" /\ pc' = "idle" /\ ~disturbed' =>
         outcome' = (IF fits THEN "ok" ELSE "unauthorized")]_vars
=============================================================================
